-------------------------------- MODULE Pl041 --------------------------------
(***************************************************************************)
(* The audio driver, drivers/pl041/pl041.cpp: the functions the wave       *)
(* driver's upper half (the MDD, external) calls from an application's     *)
(* thread and from its interrupt thread, and the PL041's FIFO and its      *)
(* interrupt (external).  The upper half queues the application's buffers, *)
(* starts playing with the first, and when told AUDIO_STATE_OUT_PLAYING    *)
(* continues with the next samples or says that there are no more.  The    *)
(* n-th sample written by the application is the number n; what the volume *)
(* does to it is left out.                                                 *)
(***************************************************************************)
EXTENDS Integers, Sequences

CONSTANTS
  FifoSizes,   (* what PERIPHID3 may say: 4 to 1024                        *)
  Rates,       (* sample rates                                             *)
  Lengths,     (* samples in a buffer                                      *)
  MaxSamples,  (* bound: samples the application writes                    *)
  MaxInits     (* bound: times the driver is loaded                        *)

VARIABLES
  fifo_size, in_use, set_rate, play_state, \* as in the code
  rate, ie, fifo,           \* the PL041: codec's rate, AACI_IE1, samples held
  active, ev,               \* its line, the event of the upper half
  ist, wants,               \* the interrupt thread; the rate asked for
  queue, paused, written,   \* the upper half: buffers, held, samples so far
  played, inits             \* samples the FIFO was given, in order

codeVars == << fifo_size, in_use, set_rate, play_state >>
lineVars == << active, ev >>
mddVars  == << queue, paused, written >>
vars == << codeVars, rate, ie, fifo, lineVars, ist, wants, mddVars, played, inits >>

Init ==
  /\ fifo_size = 0 /\ in_use = FALSE /\ set_rate = 0 /\ play_state = 0
  /\ rate = 0 /\ ie = "none" /\ fifo = 0
  /\ active = FALSE /\ ev = FALSE
  /\ ist = "wait" /\ wants = 0
  /\ queue = << >> /\ paused = FALSE /\ written = 0
  /\ played = << >> /\ inits = 0

Loaded == fifo_size > 0
-----------------------------------------------------------------------------
(* PDD_AudioInitialize and PDD_AudioDeinitialize.  Loaded anew, the codec  *)
(* is in its reset state and what MAINCR turned off has drained.           *)
Initialize(size) ==
  /\ ~Loaded /\ inits < MaxInits
  /\ fifo_size' = size /\ inits' = inits + 1
  /\ rate' = 0
  /\ UNCHANGED << in_use, set_rate, play_state, ie, fifo, lineVars, ist, wants, mddVars, played >>

Deinitialize ==
  /\ Loaded /\ ~in_use /\ ist = "wait" /\ ~ev /\ fifo = 0
  /\ fifo_size' = 0 /\ in_use' = FALSE /\ set_rate' = 0 /\ play_state' = 0
  /\ UNCHANGED << rate, ie, fifo, lineVars, ist, wants, mddVars, played, inits >>

(* WPDM_OPEN: a query changes nothing and is left out; the rate is written *)
(* when it is another.                                                     *)
WaveOpen(r) ==
  /\ Loaded /\ ~in_use
  /\ in_use' = TRUE /\ wants' = r
  /\ set_rate' = r
  /\ rate' = IF set_rate # r THEN r ELSE rate
  /\ UNCHANGED << fifo_size, play_state, ie, fifo, lineVars, ist, mddVars, played, inits >>

(* WPDM_STOP, by WPDM_CLOSE only if it plays.  The upper half drops the    *)
(* buffers.                                                                *)
WaveStop == play_state' = 0 /\ ie' = "none"

WaveClose ==
  /\ in_use /\ ist = "wait"
  /\ IF play_state # 0 THEN WaveStop ELSE UNCHANGED << play_state, ie >>
  /\ in_use' = FALSE
  /\ queue' = << >> /\ paused' = FALSE
  /\ UNCHANGED << fifo_size, set_rate, rate, fifo, lineVars, ist, wants, written, played, inits >>
-----------------------------------------------------------------------------
(* The application's thread.  A buffer is queued; the first starts.        *)
WaveStart == play_state' = 1 /\ ie' = "half"

Write(n) ==
  /\ in_use /\ ist = "wait" /\ written + n <= MaxSamples
  /\ queue' = Append(queue, [from |-> written, len |-> n, pos |-> 0])
  /\ written' = written + n
  /\ IF queue = << >> /\ ~paused THEN WaveStart ELSE UNCHANGED << play_state, ie >>
  /\ UNCHANGED << fifo_size, in_use, set_rate, rate, fifo, lineVars, ist, wants, paused, played, inits >>

(* WPDM_PAUSE is WPDM_STOP, WPDM_RESTART is WPDM_START.                    *)
Pause ==
  /\ in_use /\ ist = "wait" /\ ~paused
  /\ paused' = TRUE /\ WaveStop
  /\ UNCHANGED << fifo_size, in_use, set_rate, rate, fifo, lineVars, ist, wants, queue, written,
                  played, inits >>

Restart ==
  /\ in_use /\ ist = "wait" /\ paused
  /\ paused' = FALSE /\ WaveStart
  /\ UNCHANGED << fifo_size, in_use, set_rate, rate, fifo, lineVars, ist, wants, queue, written,
                  played, inits >>
-----------------------------------------------------------------------------
(* The FIFO drains; the interrupt that is enabled comes when it is half    *)
(* empty, or empty.                                                        *)
Play ==
  /\ fifo > 0 /\ fifo' = fifo - 1
  /\ UNCHANGED << codeVars, rate, ie, lineVars, ist, wants, mddVars, played, inits >>

Interrupt ==
  /\ ~active
  /\ \/ ie = "half" /\ fifo <= fifo_size \div 2
     \/ ie = "empty" /\ fifo = 0
  /\ active' = TRUE /\ ev' = TRUE
  /\ UNCHANGED << codeVars, rate, ie, fifo, ist, wants, mddVars, played, inits >>

(* The interrupt thread: PDD_AudioGetInterruptType turns the interrupt off *)
(* and tells by play_state what is to be done.                             *)
GetInterruptType ==
  /\ ist = "wait" /\ ev
  /\ ev' = FALSE
  /\ ie' = "none"
  /\ ist' = CASE play_state = 1 -> "playing" [] play_state = 2 -> "stopped" [] OTHER -> "done"
  /\ UNCHANGED << codeVars, rate, fifo, active, wants, mddVars, played, inits >>

(* The samples of the buffer at the head that are to be copied next.       *)
UpToWhole(b) == b.len   (* mutant: no look at the FIFO *)
UpTo(b) == IF b.len - b.pos > fifo_size \div 2 THEN b.pos + fifo_size \div 2 ELSE b.len

(* A buffer that was played goes back; WPDM_CONTINUE copies from the next. *)
Rest == IF queue # << >> /\ Head(queue).pos = Head(queue).len THEN Tail(queue) ELSE queue

WaveContinue ==
  /\ ist = "playing" /\ Rest # << >>
  /\ LET b == Head(Rest)
     IN /\ played' = played \o [i \in 1 .. UpTo(b) - b.pos |-> b.from + b.pos + i]
        /\ fifo' = fifo + UpTo(b) - b.pos
        /\ queue' = << [b EXCEPT !.pos = UpTo(b)] >> \o Tail(Rest)
  /\ ie' = "half" /\ ist' = "done"
  /\ UNCHANGED << codeVars, rate, lineVars, wants, paused, written, inits >>

(* WPDM_ENDOFDATA.                                                         *)
WaveEndOfData ==
  /\ ist = "playing" /\ Rest = << >>
  /\ queue' = << >>
  /\ play_state' = IF play_state = 0 THEN 0 ELSE 2
  /\ ie' = IF play_state = 0 THEN ie ELSE "empty"
  /\ ist' = "done"
  /\ UNCHANGED << fifo_size, in_use, set_rate, rate, fifo, lineVars, wants, paused, written,
                  played, inits >>

(* WPDM_STANDBY.                                                           *)
WaveStandby ==
  /\ ist = "stopped"
  /\ play_state' = 0 /\ ist' = "done"
  /\ UNCHANGED << fifo_size, in_use, set_rate, rate, ie, fifo, lineVars, wants, mddVars, played,
                  inits >>

DoneUntold ==   (* mutant: InterruptDone is not called *)
  /\ ist = "done"
  /\ ist' = "wait"
  /\ UNCHANGED << codeVars, rate, ie, fifo, active, ev, wants, mddVars, played, inits >>

InterruptDone ==
  /\ ist = "done"
  /\ active' = FALSE /\ ist' = "wait"
  /\ UNCHANGED << codeVars, rate, ie, fifo, ev, wants, mddVars, played, inits >>

IstStep == GetInterruptType \/ WaveContinue \/ WaveEndOfData \/ WaveStandby \/ InterruptDone

Next ==
  \/ (\E n \in FifoSizes : Initialize(n)) \/ Deinitialize
  \/ (\E r \in Rates : WaveOpen(r)) \/ WaveClose
  \/ (\E n \in Lengths : Write(n)) \/ Pause \/ Restart
  \/ Play \/ Interrupt \/ IstStep

Spec == Init /\ [][Next]_vars

Fairness == WF_vars(Play) /\ WF_vars(Interrupt) /\ WF_vars(IstStep)

FairSpec == Spec /\ Fairness
-----------------------------------------------------------------------------
(* The FIFO is never given more than it has room for: a transfer of half   *)
(* its size is made only after an interrupt that found half of it free,    *)
(* over every pause, restart and end of data (pl041.cpp:116-128, 210-223). *)
FifoFits == fifo <= fifo_size \/ ~Loaded

(* Samples are given to the FIFO once each and in order, across transfers  *)
(* that a buffer's end cuts short; those of a buffer the application       *)
(* dropped are left out (pl041.cpp:113-131).                               *)
SamplesInOrder == \A i, j \in 1 .. Len(played) : i < j => played[i] < played[j]

(* The codec runs at the rate of whoever has the device, though it is      *)
(* written only when it changes (pl041.cpp:186-190, 268-271).              *)
RateIsOpeners == in_use => rate = wants

(* A buffer is played to its end, unless playing is paused or the device   *)
(* closed: the chain of interrupt, transfer and enable does not break.     *)
BuffersArePlayed == queue # << >> ~> queue = << >> \/ paused

(* The FIFO is never filled beyond its size, samples are played in order,  *)
(* and at the rate of who has the device open (pl041.cpp:113-131,          *)
(* 186-271).                                                               *)
PlaySound == FifoFits /\ SamplesInOrder /\ RateIsOpeners
=============================================================================
