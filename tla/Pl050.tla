--------------------------------- MODULE Pl050 ---------------------------------
(***************************************************************************)
(* The PL050 driver: one port object with a keyboard and a mouse behind    *)
(* it.  The entry point resets the keyboard, finds out what mouse there    *)
(* is, and starts the two interrupt threads; later the lights of the       *)
(* keyboard are set, and the mouse is reset when power comes back.  A      *)
(* command turns both interrupts off, empties both data registers and      *)
(* polls for the answer; what arrives at that time, or an answer that      *)
(* comes late, is lost or taken for something else: "disturbed".           *)
(***************************************************************************)
EXTENDS Naturals, Sequences, FiniteSetsExt

CONSTANTS
  Mice,         \* what may be plugged in: "none", "plain", "wheel", "five"
  Keys,         \* of "plain", "extended", "pause", "korean"
  MaxKeys, MaxReports,  \* bounds: what is typed, and sent by the mouse
  MaxSlow,      \* bound: answers that come too late, or are "resend"
  MaxLights, MaxPowerUps        \* bounds

VARIABLES
  mouse, mode, rates, enabled,  \* the mouse: its kind, what it sends, its last three rates
  down,         \* the keys that are held, the last pressed last
  out,          \* port -> the bytes its device has yet to send
  reg, avail,   \* port -> KMIDATA, and whether it is full
  int,          \* port -> KMICR: interrupts are on
  event,        \* port -> "none", "set": the interrupt is masked; "woken"
  m_int,        \* m_kbd_int, m_mouse_int
  m_fMouseFound, m_fIntelliMouseFound, m_fIntelli5ButtonMouseFound,
  csWrite, csHardware,  \* who holds them, or "nobody"
  todo,         \* thread -> the steps it has before it
  ok,           \* thread -> what its operation returns
  ui8MouseId,   \* what MouseId has read
  ready,        \* the interrupt threads that run, and "port"
  scInProgress, scPrevious, fKeyUp,     \* of the decoder
  due,          \* the keys typed that have not been reported
  m_cReportFormatLength, buf,           \* of the mouse's thread
  reports,      \* what the mouse has sent that has not been acted on
  m_ui8ButtonState, m_uiXButtonState,
  pressed,      \* the buttons the system has been told are down
  disturbed,    \* the ports that lost or confused a byte
  wrong,        \* the ports that reported what had not happened
  typed, moved, slow, lights, powerUps

deviceVars == << mouse, mode, rates, enabled, down, out >>
regVars    == << reg, avail, int, event, m_int >>
foundVars  == << m_fMouseFound, m_fIntelliMouseFound, m_fIntelli5ButtonMouseFound >>
threadVars == << csWrite, csHardware, todo, ok, ready, ui8MouseId >>
kbdVars    == << scInProgress, scPrevious, fKeyUp, due >>
mouseVars  == << m_cReportFormatLength, buf, reports, m_ui8ButtonState, m_uiXButtonState, pressed >>
boundVars  == << typed, moved, slow, lights, powerUps >>
vars == << deviceVars, regVars, foundVars, threadVars, kbdVars, mouseVars, disturbed, wrong, boundVars >>
-----------------------------------------------------------------------------
Ports   == {"kbd", "mouse"}
Threads == {"entry", "shell", "power"}
Ack     == "FA"
Resend  == "FE"
Answers == {Ack, Resend, "AA", "00", "id0", "id3", "id4"}

(* The steps of the operations: a command or an expected answer that must  *)
(* be right ends its operation when it is not.                             *)
Step(do, p, x, must) == [do |-> do, port |-> p, x |-> x, must |-> must]
Enter     == << Step("enter", "", "", FALSE) >>
Leave     == << Step("leave", "", "", FALSE) >>
Do(what)  == << Step(what, "", "", FALSE) >>
Cmd(p, c) == << Step("put", p, c, FALSE) >>
Must(p, c)   == << Step("put", p, c, TRUE) >>
Expect(p, x) == << Step("expect", p, x, TRUE) >>

KeyboardReset  == Enter \o Must("kbd", "reset") \o Expect("kbd", "AA") \o Must("kbd", "mode")
                    \o Cmd("kbd", "AT") \o Leave
KeyboardLights == Enter \o Must("kbd", "lights") \o Cmd("kbd", "bits") \o Leave
MouseReset     == Enter \o Must("mouse", "reset") \o Expect("mouse", "AA") \o Expect("mouse", "00") \o Leave
MouseTest      == Enter \o << Step("only put", "mouse", "id", FALSE) >> \o Expect("mouse", "any")
                    \o Expect("mouse", "any") \o Leave
Rate(r)        == Cmd("mouse", "rate") \o Cmd("mouse", r)
SetModeIntelliMouse        == Enter \o Rate("200") \o Rate("100") \o Rate("80") \o Leave
SetModeIntelli5ButtonMouse == Enter \o Rate("200") \o Rate("200") \o Rate("80") \o Leave
MouseId        == Enter \o Cmd("mouse", "id") \o Do("read id") \o Rate("100") \o Leave
ResetAndDetectMouse == Do("not found") \o MouseReset \o Do("if") \o MouseTest \o Do("if") \o Do("found")
                         \o SetModeIntelliMouse \o MouseId \o Do("wheel?")
                         \o Enter \o Cmd("mouse", "enable") \o Leave
Entry == Do("lock") \o KeyboardReset \o ResetAndDetectMouse \o Do("unlock") \o Do("keyboard")
           \o Do("lock") \o KeyboardLights \o Do("unlock") \o Do("threads")

Init ==
  /\ mouse \in Mice /\ mode = "plain" /\ rates = << >> /\ enabled = FALSE /\ down = << >>
  /\ out = [p \in Ports |-> << >>]
  /\ reg = [p \in Ports |-> "00"] /\ avail = [p \in Ports |-> FALSE] /\ int = [p \in Ports |-> FALSE]
  /\ event = [p \in Ports |-> "none"] /\ m_int = [p \in Ports |-> FALSE]
  /\ m_fMouseFound = FALSE /\ m_fIntelliMouseFound = FALSE /\ m_fIntelli5ButtonMouseFound = FALSE
  /\ csWrite = "nobody" /\ csHardware = "nobody"
  /\ todo = [t \in Threads |-> IF t = "entry" THEN Entry ELSE << >>]
  /\ ok = [t \in Threads |-> TRUE] /\ ready = {} /\ ui8MouseId = "00"
  /\ scInProgress = << >> /\ scPrevious = << >> /\ fKeyUp = FALSE /\ due = << >>
  /\ m_cReportFormatLength = 3 /\ buf = << >> /\ reports = << >>
  /\ m_ui8ButtonState = {} /\ m_uiXButtonState = {} /\ pressed = {}
  /\ disturbed = {} /\ wrong = {}
  /\ typed = 0 /\ moved = 0 /\ slow = 0 /\ lights = 0 /\ powerUps = 0
-----------------------------------------------------------------------------
(* The devices.  A key is typed when the keyboard has nothing to say; the  *)
(* last key that was pressed repeats.  The mouse reports when it has been  *)
(* enabled, in four bytes when it has a wheel that has been asked for.     *)
Press(k)   == CASE k = "plain" -> << "k" >> [] k = "extended" -> << "E0", "k" >>
                [] k = "pause" -> << "E1", "14", "77" >> [] k = "korean" -> << "f1" >>
Release(k) == CASE k = "plain" -> << "F0", "k" >> [] k = "extended" -> << "E0", "F0", "k" >>
                [] k = "pause" -> << "E1", "F0", "14", "F0", "77" >>
Held(k)    == \E i \in DOMAIN down : down[i] = k

Type ==
  /\ "kbd" \in ready /\ typed < MaxKeys /\ out["kbd"] = << >> /\ typed' = typed + 1
  /\ \E k \in Keys :
       \/ /\ ~Held(k) /\ out' = [out EXCEPT !["kbd"] = Press(k)]
          /\ due' = Append(due, << Press(k), FALSE >>)
          /\ down' = IF k = "korean" THEN down ELSE Append(down, k)
       \/ /\ Held(k) /\ out' = [out EXCEPT !["kbd"] = Release(k)]
          /\ due' = Append(due, << Press(k), TRUE >>) /\ down' = SelectSeq(down, LAMBDA h : h # k)
       \/ /\ down # << >> /\ down[Len(down)] = k /\ out' = [out EXCEPT !["kbd"] = Press(k)]
          /\ UNCHANGED << due, down >>
  /\ UNCHANGED << mouse, mode, rates, enabled, regVars, foundVars, threadVars, scInProgress, scPrevious,
                  fKeyUp, mouseVars, disturbed, wrong, moved, slow, lights, powerUps >>

Move ==
  /\ enabled /\ moved < MaxReports /\ out["mouse"] = << >> /\ moved' = moved + 1
  /\ \E left \in {"up", "left"}, w \in (IF mode = "five" THEN {"w", "x4"} ELSE {"w"}) :
       LET r == << left, "x", "y" >> \o (IF mode = "plain" THEN << >> ELSE << w >>)
       IN  out' = [out EXCEPT !["mouse"] = r] /\ reports' = Append(reports, r)
  /\ UNCHANGED << mouse, mode, rates, enabled, down, regVars, foundVars, threadVars, kbdVars,
                  m_cReportFormatLength, buf, m_ui8ButtonState, m_uiXButtonState, pressed, disturbed,
                  wrong, typed, slow, lights, powerUps >>

Transfer(p) ==
  /\ out[p] # << >> /\ ~avail[p]
  /\ reg' = [reg EXCEPT ![p] = out[p][1]] /\ avail' = [avail EXCEPT ![p] = TRUE]
  /\ out' = [out EXCEPT ![p] = Tail(@)]
  /\ UNCHANGED << mouse, mode, rates, enabled, down, int, event, m_int, foundVars, threadVars, kbdVars,
                  mouseVars, disturbed, wrong, boundVars >>

(* A byte that has come interrupts, and the line stays masked until        *)
(* InterruptDone.                                                          *)
Interrupt(p) ==
  /\ avail[p] /\ int[p] /\ p \in ready /\ event[p] = "none" /\ event' = [event EXCEPT ![p] = "set"]
  /\ UNCHANGED << deviceVars, reg, avail, int, m_int, foundVars, threadVars, kbdVars, mouseVars,
                  disturbed, wrong, boundVars >>

(* What a device answers to a command, or to the byte that follows it.  A  *)
(* command ends what it was about to send.                                 *)
Id == CASE mode = "plain" -> "id0" [] mode = "wheel" -> "id3" [] mode = "five" -> "id4"
ModeAfter(rs) ==
  IF rs = << "200", "100", "80" >> /\ mouse \in {"wheel", "five"} /\ mode = "plain" THEN "wheel"
  ELSE IF rs = << "200", "200", "80" >> /\ mouse = "five" /\ mode = "wheel" THEN "five" ELSE mode

Obey(p, c) ==
  IF p = "kbd" THEN /\ out' = [out EXCEPT !["kbd"] = IF c = "reset" THEN << Ack, "AA" >> ELSE << Ack >>]
                    /\ UNCHANGED << mode, rates, enabled >>
  ELSE IF mouse = "none" THEN UNCHANGED << out, mode, rates, enabled >>
  ELSE /\ out' = [out EXCEPT !["mouse"] =
                    << Ack >> \o (IF c = "reset" THEN << "AA", "00" >> ELSE IF c = "id" THEN << Id >> ELSE << >>)]
       /\ enabled' = IF c = "reset" THEN FALSE ELSE IF c = "enable" THEN TRUE ELSE enabled
       /\ rates' = IF c \notin {"200", "100", "80"} THEN rates
                   ELSE IF Len(rates) < 3 THEN Append(rates, c) ELSE << rates[2], rates[3], c >>
       /\ mode' = IF c = "reset" THEN "plain"
                  ELSE IF c \in {"200", "100", "80"} THEN ModeAfter(rates') ELSE mode
-----------------------------------------------------------------------------
At(t, do)     == todo[t] # << >> /\ todo[t][1].do = do
Then(t, more) == todo' = [todo EXCEPT ![t] = more \o Tail(@)]
Hand          == << mouse, down >>          \* what no command changes

(* EnterWrite: both interrupts off, both registers read until empty.  The  *)
(* nested calls the operations make find the count above 0 and do nothing. *)
EnterWrite(t) ==
  /\ At(t, "enter") /\ csWrite = "nobody" /\ csWrite' = t /\ Then(t, << >>)
  /\ int' = [p \in Ports |-> FALSE] /\ avail' = [p \in Ports |-> FALSE]
  /\ disturbed' = disturbed \cup {p \in Ports : avail[p] \/ out[p] # << >> \/ event[p] # "none"}
  /\ ok' = [ok EXCEPT ![t] = TRUE]
  /\ UNCHANGED << deviceVars, reg, event, m_int, foundVars, csHardware, ready, ui8MouseId, kbdVars, mouseVars, wrong,
                  boundVars >>

(* Mutant of the next: the interrupts are turned on, be they asked for or  *)
(* not.                                                                    *)
LeaveWriteOn(t) ==
  /\ At(t, "leave") /\ csWrite' = "nobody" /\ Then(t, << >>) /\ int' = [p \in Ports |-> TRUE]
  /\ UNCHANGED << deviceVars, reg, avail, event, m_int, foundVars, csHardware, ok, ready, ui8MouseId, kbdVars,
                  mouseVars, disturbed, wrong, boundVars >>

LeaveWrite(t) ==
  /\ At(t, "leave") /\ csWrite' = "nobody" /\ Then(t, << >>) /\ int' = m_int
  /\ UNCHANGED << deviceVars, reg, avail, event, m_int, foundVars, csHardware, ok, ready, ui8MouseId, kbdVars,
                  mouseVars, disturbed, wrong, boundVars >>

(* InputBufPut.  The device may ask for the command again: it is given     *)
(* three times.                                                            *)
InputBufPut(t) ==
  \E only \in BOOLEAN :
    /\ At(t, IF only THEN "only put" ELSE "put")
    /\ LET s == todo[t][1]  p == s.port
           wait == << [s EXCEPT !.do = "answer"] >>
       IN  /\ disturbed' = IF out[p] # << >> \/ avail[p] THEN disturbed \cup {p} ELSE disturbed
           /\ \/ Obey(p, s.x) /\ UNCHANGED slow /\ Then(t, IF only THEN << >> ELSE wait)
              \/ /\ slow < MaxSlow /\ slow' = slow + 1 /\ ~only
                 /\ out' = [out EXCEPT ![p] = << Resend >>] /\ Then(t, wait)
                 /\ UNCHANGED << mode, rates, enabled >>
    /\ UNCHANGED << Hand, regVars, foundVars, csWrite, csHardware, ok, ready, ui8MouseId, kbdVars, mouseVars, wrong,
                    typed, moved, lights, powerUps >>

(* OutputBufPollRead: a byte that comes in time, or what was last there.   *)
Polled(p) == \/ avail[p] /\ UNCHANGED << slow, disturbed >>
             \/ ~avail[p] /\ out[p] = << >> /\ UNCHANGED << slow, disturbed >>
             \/ ~avail[p] /\ out[p] # << >> /\ slow < MaxSlow /\ slow' = slow + 1
                /\ disturbed' = disturbed \cup {p}

(* The operation is left at its end, or the rest of it is done.            *)
From(s, do) == LET at == {i \in DOMAIN s : s[i].do = do}
               IN  IF at = {} THEN << >> ELSE SubSeq(s, Min(at), Len(s))
Failed(t)  == IF todo[t][1].must THEN From(Tail(todo[t]), "leave") ELSE Tail(todo[t])

(* KeyboardCommandPut, MouseCommandPutAndReadResponse: the answer.         *)
CommandAnswer(t) ==
  /\ At(t, "answer")
  /\ LET s == todo[t][1]  p == s.port
         again == << [s EXCEPT !.do = "put"] >>
     IN  /\ Polled(p) /\ avail' = [avail EXCEPT ![p] = FALSE]
         /\ IF avail[p] /\ reg[p] = Resend THEN Then(t, again) /\ UNCHANGED ok
            ELSE IF avail[p] /\ reg[p] = Ack THEN Then(t, << >>) /\ UNCHANGED ok
            ELSE /\ todo' = [todo EXCEPT ![t] = Failed(t)]
                 /\ ok' = [ok EXCEPT ![t] = @ /\ ~s.must]
  /\ UNCHANGED << deviceVars, reg, int, event, m_int, foundVars, csWrite, csHardware, ready, ui8MouseId, kbdVars,
                  mouseVars, wrong, typed, moved, lights, powerUps >>

(* The bytes that follow, of KeyboardReset, MouseReset and MouseTest.      *)
Response(t) ==
  /\ At(t, "expect")
  /\ LET s == todo[t][1]  p == s.port
         good == avail[p] /\ s.x \in {reg[p], "any"}
     IN  /\ Polled(p) /\ avail' = [avail EXCEPT ![p] = FALSE]
         /\ todo' = [todo EXCEPT ![t] = IF good THEN Tail(@) ELSE Failed(t)]
         /\ ok' = [ok EXCEPT ![t] = good]
  /\ UNCHANGED << deviceVars, reg, int, event, m_int, foundVars, csWrite, csHardware, ready, ui8MouseId, kbdVars,
                  mouseVars, wrong, typed, moved, lights, powerUps >>

(* MouseId: what is read, be it in time or not, is the mouse's id.         *)
ReadId(t) ==
  /\ At(t, "read id") /\ Polled("mouse") /\ avail' = [avail EXCEPT !["mouse"] = FALSE]
  /\ Then(t, << >>) /\ ui8MouseId' = reg["mouse"]
  /\ UNCHANGED << deviceVars, reg, int, event, m_int, foundVars, csWrite, csHardware, ok, ready, kbdVars,
                  mouseVars, wrong, typed, moved, lights, powerUps >>

(* What ResetAndDetectMouse makes of the answers.                          *)
Detect(t) ==
  /\ \/ At(t, "not found") /\ m_fMouseFound' = FALSE /\ Then(t, << >>)
        /\ UNCHANGED << m_fIntelliMouseFound, m_fIntelli5ButtonMouseFound >>
     \/ At(t, "if") /\ UNCHANGED foundVars
        /\ todo' = [todo EXCEPT ![t] = IF ok[t] THEN Tail(@) ELSE From(@, "unlock")]
     \/ At(t, "found") /\ m_fMouseFound' = TRUE /\ Then(t, << >>)
        /\ UNCHANGED << m_fIntelliMouseFound, m_fIntelli5ButtonMouseFound >>
     \/ At(t, "wheel?") /\ UNCHANGED << m_fMouseFound, m_fIntelli5ButtonMouseFound >>
        /\ IF ui8MouseId = "id3"
             THEN m_fIntelliMouseFound' = TRUE
                  /\ Then(t, SetModeIntelli5ButtonMouse \o MouseId \o Do("five?"))
             ELSE UNCHANGED m_fIntelliMouseFound /\ Then(t, << >>)
     \/ At(t, "five?") /\ UNCHANGED << m_fMouseFound, m_fIntelliMouseFound >> /\ Then(t, << >>)
        /\ m_fIntelli5ButtonMouseFound' = (m_fIntelli5ButtonMouseFound \/ ui8MouseId = "id4")
  /\ UNCHANGED << deviceVars, regVars, csWrite, csHardware, ok, ready, ui8MouseId, kbdVars, mouseVars, disturbed,
                  wrong, boundVars >>
-----------------------------------------------------------------------------
(* HardwareLock.                                                           *)
Lock(t) ==
  /\ \/ At(t, "lock") /\ csHardware = "nobody" /\ csHardware' = t
     \/ At(t, "unlock") /\ csHardware' = "nobody"
  /\ Then(t, << >>)
  /\ UNCHANGED << deviceVars, regVars, foundVars, csWrite, ok, ready, ui8MouseId, kbdVars, mouseVars,
                  disturbed, wrong, boundVars >>

(* Ps2Keybd::Initialize and Ps2Mouse::Initialize, which find their         *)
(* interrupts in the registry, and the threads that are started then.  The *)
(* entry point fails if there is none for the keyboard, and does not ask   *)
(* whether there was one for the mouse.                                    *)
Start(t) ==
  /\ \/ /\ At(t, "keyboard") /\ UNCHANGED << m_cReportFormatLength, m_int, int >>
        /\ \/ ready' = {"port", "kbd"} /\ Then(t, << >>)
           \/ ready' = {} /\ todo' = [todo EXCEPT ![t] = << >>]
     \/ /\ At(t, "threads") /\ csHardware = "nobody" /\ Then(t, << >>)
        /\ m_cReportFormatLength' = IF m_fIntelliMouseFound THEN 4 ELSE 3
        /\ \E more \in SUBSET (IF m_fMouseFound THEN {"mouse"} ELSE {}) :
             /\ ready' = ready \cup more \cup (IF m_fMouseFound THEN {"mouse object"} ELSE {})
             /\ m_int' = [p \in Ports |-> p = "kbd" \/ p \in more] /\ int' = m_int'
  /\ UNCHANGED << deviceVars, reg, avail, event, foundVars, csWrite, csHardware, ok, ui8MouseId, kbdVars,
                  buf, reports, m_ui8ButtonState, m_uiXButtonState, pressed, disturbed, wrong, boundVars >>

(* PS2_8042_ToggleLights, under the lock; PS2_8042_PowerHandler when power *)
(* comes back, which does not take it.                                     *)
ToggleLights ==
  /\ int["kbd"] /\ todo["shell"] = << >> /\ lights < MaxLights /\ lights' = lights + 1
  /\ todo' = [todo EXCEPT !["shell"] = Do("lock") \o KeyboardLights \o Do("unlock")]
  /\ UNCHANGED << deviceVars, regVars, foundVars, csWrite, csHardware, ok, ready, ui8MouseId, kbdVars,
                  mouseVars, disturbed, wrong, typed, moved, slow, powerUps >>

PowerHandler ==
  /\ "mouse object" \in ready /\ todo["power"] = << >> /\ powerUps < MaxPowerUps /\ powerUps' = powerUps + 1
  /\ todo' = [todo EXCEPT !["power"] = ResetAndDetectMouse]
  /\ UNCHANGED << deviceVars, regVars, foundVars, csWrite, csHardware, ok, ready, ui8MouseId, kbdVars,
                  mouseVars, disturbed, wrong, typed, moved, slow, lights >>
-----------------------------------------------------------------------------
(* The interrupt threads: woken, they take the lock, read one byte whether *)
(* there is one or not, and tell the interrupt to come again.              *)
Wake(p) ==
  /\ event[p] = "set" /\ csHardware = "nobody" /\ csHardware' = p /\ event' = [event EXCEPT ![p] = "woken"]
  /\ UNCHANGED << deviceVars, reg, avail, int, m_int, foundVars, csWrite, todo, ok, ready, ui8MouseId,
                  kbdVars, mouseVars, disturbed, wrong, boundVars >>

Read(p) ==
  /\ event[p] = "woken" /\ csHardware = p /\ csHardware' = "nobody"
  /\ event' = [event EXCEPT ![p] = "none"] /\ avail' = [avail EXCEPT ![p] = FALSE]
  /\ disturbed' = IF ~avail[p] \/ csWrite # "nobody" THEN disturbed \cup {p} ELSE disturbed
  /\ UNCHANGED << deviceVars, reg, int, m_int, foundVars, csWrite, todo, ok, ready, ui8MouseId, boundVars >>

(* A key that is reported was typed; one that is reported twice repeats.   *)
Reported(key, up) ==
  IF due # << >> /\ due[1] = << key, up >> THEN due' = Tail(due) /\ UNCHANGED wrong
  ELSE /\ UNCHANGED due
       /\ wrong' = IF ~up /\ \E i \in DOMAIN down : Press(down[i]) = key THEN wrong ELSE wrong \cup {"kbd"}

(* KeybdPdd_GetEventEx2: the code in progress is put together byte by      *)
(* byte, a key that repeats is not reported, a Korean key always is.       *)
Decode(b) ==
  IF b = "F0" THEN fKeyUp' = TRUE /\ UNCHANGED << scInProgress, scPrevious, due, wrong >>
  ELSE IF b \in {"E0", "E1"}
    THEN scInProgress' = << b >> /\ UNCHANGED << scPrevious, fKeyUp, due, wrong >>
  ELSE IF scInProgress = << "E1" >>
    THEN scInProgress' = Append(scInProgress, b) /\ UNCHANGED << scPrevious, fKeyUp, due, wrong >>
  ELSE LET code == Append(scInProgress, b)
       IN  /\ scInProgress' = << >> /\ fKeyUp' = FALSE
           /\ IF code = scPrevious /\ ~fKeyUp
                THEN UNCHANGED << scPrevious, due, wrong >>
                ELSE /\ Reported(code, fKeyUp)
                     /\ scPrevious' = IF code = << "f1" >> THEN << >>
                                      ELSE IF fKeyUp THEN << >> ELSE code

KeybdGetEvent == Read("kbd") /\ Decode(reg["kbd"]) /\ UNCHANGED mouseVars

(* Ps2Mouse::IntThreadProc: the bytes of a report are put together, and    *)
(* the buttons that have changed since the last one are told of.           *)
Buttons(r)  == {r[1]} \cap {"left"}
XButtons(r) == IF Len(r) = 4 /\ m_fIntelli5ButtonMouseFound THEN {r[4]} \cap {"x4"} ELSE {}
Changed(S, T) == (S \ T) \cup (T \ S)

MouseReport ==
  /\ Read("mouse") /\ UNCHANGED << kbdVars, m_cReportFormatLength >>
  /\ LET b == IF avail["mouse"] THEN Append(buf, reg["mouse"]) ELSE buf
     IN  IF Len(b) < m_cReportFormatLength
           THEN buf' = b /\ UNCHANGED << reports, m_ui8ButtonState, m_uiXButtonState, pressed, wrong >>
           ELSE /\ buf' = << >> /\ m_ui8ButtonState' = Buttons(b)
                /\ m_uiXButtonState' = IF m_fIntelli5ButtonMouseFound THEN XButtons(b) ELSE m_uiXButtonState
                /\ pressed' = Changed(pressed, Changed(Buttons(b), m_ui8ButtonState)
                                        \cup Changed(m_uiXButtonState', m_uiXButtonState))
                /\ reports' = IF reports # << >> THEN Tail(reports) ELSE reports
                /\ wrong' = IF reports # << >> /\ reports[1] = b THEN wrong ELSE wrong \cup {"mouse"}

(* No byte has come for a while in the middle of a report: it is dropped,  *)
(* with what there is in the register.                                     *)
PacketTimeout ==
  /\ buf # << >> /\ event["mouse"] = "none" /\ out["mouse"] = << >> /\ ~avail["mouse"]
  /\ csHardware = "nobody" /\ buf' = << >>
  /\ UNCHANGED << deviceVars, regVars, foundVars, threadVars, kbdVars, m_cReportFormatLength, reports,
                  m_ui8ButtonState, m_uiXButtonState, pressed, disturbed, wrong, boundVars >>

Next ==
  \/ Type \/ Move \/ \E p \in Ports : Transfer(p) \/ Interrupt(p) \/ Wake(p)
  \/ \E t \in Threads : \/ EnterWrite(t) \/ LeaveWrite(t) \/ InputBufPut(t) \/ CommandAnswer(t)
                        \/ Response(t) \/ ReadId(t) \/ Detect(t) \/ Lock(t) \/ Start(t)
  \/ ToggleLights \/ PowerHandler \/ KeybdGetEvent \/ MouseReport \/ PacketTimeout

Spec == Init /\ [][Next]_vars
-----------------------------------------------------------------------------
(* When nobody writes to a device, its interrupt is on if it has been      *)
(* asked for (ps2port.cpp:235-307, 771-797).                               *)
InterruptsRestored == csWrite = "nobody" => int = m_int

(* As long as no byte has been lost or confused, the keys that are         *)
(* reported are those that were typed, in order, and none is left over     *)
(* when the keyboard is at rest: no answer to a command is taken for a key *)
(* (ps2keybd.cpp:70-161, ps2port.cpp:353-541).                             *)
AtRest(p) == out[p] = << >> /\ ~avail[p] /\ event[p] = "none"
KeysAreThoseTyped ==
  "kbd" \in ready /\ "kbd" \notin disturbed =>
    "kbd" \notin wrong /\ (AtRest("kbd") => due = << >>)

(* Likewise the reports of the mouse, whose length the thread gets right;  *)
(* and the buttons the system has been told of are those of the last one   *)
(* (ps2mouse.cpp:242-455, ps2port.cpp:620-760, 823-860).                   *)
ReportsAreThoseSent ==
  "mouse" \in ready /\ "mouse" \notin disturbed =>
    /\ "mouse" \notin wrong
    /\ enabled => m_cReportFormatLength = (IF mode = "plain" THEN 3 ELSE 4)
ButtonsAreTold == pressed = m_ui8ButtonState \cup m_uiXButtonState

Pl050Sound == InterruptsRestored /\ KeysAreThoseTyped /\ ReportsAreThoseSent /\ ButtonsAreTold
=============================================================================
