------------------------ MODULE NetkvmProtocol_proofs -------------------------
(***************************************************************************)
(* The binding of the NDIS 6 adapter to a virtual function, for any number *)
(* of bindings, changes of status and of power, and packets: a binding     *)
(* that somebody references is there, packets are with the function only   *)
(* while it is open and bound, and a function that is up is in use.        *)
(***************************************************************************)
EXTENDS NetkvmProtocol, SequenceTheorems, FiniteSetTheorems, TLAPS

-----------------------------------------------------------------------------
(* What a thread has to do is a path: which operation may follow which,    *)
(* for each of the things threads do.  An operation that puts others in    *)
(* front of the rest is followed by what follows the last of them.         *)
Attaching(p, n) ==
  \/ p \in {"found", "look", "started"} /\ n = "unlock"
  \/ p = "bind_sriov" /\ n = "start"
  \/ p = "start" /\ n = "started"
Stopping(p, n) ==
  \/ p = "stop_tx" /\ n = "wait_tx"
  \/ p = "wait_tx" /\ n = "stop_rx"
  \/ p = "stop_rx" /\ n = "wait_rx"
  \/ p = "unstart" /\ n = "unbound"

Follows(k, p, n) ==
  \/ /\ k = "bind"
     /\ \/ p = "lock" /\ n = "add_binding"
        \/ Attaching(p, n)
        \/ p = "add_binding" /\ n = "unlock"
        \/ p = "unlock" /\ n = "end"
  \/ /\ k = "unbind"
     /\ \/ p = "lock" /\ n = "remove_binding"
        \/ Stopping(p, n)
        \/ p \in {"remove_binding", "detach", "unlist"} /\ n = "unlock"
        \/ p = "wait_rx" /\ n = "stop_ref"
        \/ p = "stop_ref" /\ n = "wait_ref"
        \/ p = "wait_ref" /\ n = "unref"
        \/ p = "unref" /\ n = "unstart"
        \/ p = "unbound" /\ n = "unlist"
        \/ p = "unlock" /\ n = "close"
        \/ p = "close" /\ n = "release"
        \/ p = "release" /\ n = "end"
  \/ /\ k = "add"
     /\ \/ p = "lock" /\ n = "add_adapter"
        \/ Attaching(p, n)
        \/ p = "add_adapter" /\ n = "unlock"
        \/ p = "unlock" /\ n = "end"
  \/ /\ k = "remove"
     /\ \/ p = "lock" /\ n = "remove_adapter"
        \/ Stopping(p, n)
        \/ p \in {"remove_adapter", "halted", "unbound"} /\ n = "unlock"
        \/ p = "wait_rx" /\ n = "unstart"
        \/ p = "unlock" /\ n = "end"
  \/ /\ k = "work"
     /\ \/ p = "lock" /\ n = "changed"
        \/ Attaching(p, n)
        \/ p = "changed" /\ n = "unlock"
        \/ p = "unlock" /\ n = "drop"
        \/ p = "drop" /\ n = "end"
  \/ k = "tell" /\ p = "tell" /\ n = "end"
  \/ k = "use" /\ p \in {"send", "oid"} /\ n = "end"
  \/ k = "return" /\ p = "return" /\ n = "end"

Ops ==
  { "lock", "unlock", "found", "look", "bind_sriov", "start", "started", "add_binding",
    "remove_binding", "detach", "stop_tx", "wait_tx", "stop_rx", "wait_rx", "stop_ref", "wait_ref",
    "unref", "unstart", "unbound", "unlist", "close", "release", "add_adapter", "remove_adapter",
    "halted", "changed", "drop", "tell", "send", "oid", "return" }

Path(k, s) ==
  /\ s # << >>
  /\ \A i \in 1 .. Len(s) :
       Follows(k, s[i], IF i < Len(s) THEN s[i + 1] ELSE "end")

Kinds == [ vf |-> {"bind", "unbind"}, adapter |-> {"add", "remove"}, work |-> {"work"},
           status |-> {"tell"}, user |-> {"use"}, returner |-> {"return"} ]

Pc(t) == IF todo[t] = << >> THEN "idle" ELSE Head(todo[t])
Lockers == {"vf", "adapter", "work"}
Inside  == { "add_binding", "found", "look", "bind_sriov", "start", "started", "unlock",
             "remove_binding", "detach", "stop_tx", "wait_tx", "stop_rx", "wait_rx", "stop_ref",
             "wait_ref", "unref", "unstart", "unbound", "unlist", "add_adapter",
             "remove_adapter", "halted", "changed" }
-----------------------------------------------------------------------------
TypeInv ==
  /\ entry \in [adapter : BOOLEAN, binding : Nat]
  /\ mutex \in Lockers \cup {"none"}
  /\ binding \in Nat /\ bindings \in Nat /\ refs \in Nat /\ work \in Nat /\ m_Value \in Nat
  /\ open \in BOOLEAN /\ compatible \in BOOLEAN /\ m_Operational \in BOOLEAN
  /\ m_Started \in BOOLEAN /\ m_BoundAdapter \in BOOLEAN
  /\ flow \in [FlowNames -> BOOLEAN] /\ out \in [FlowNames -> Nat]
  /\ todo \in [Threads -> Seq(Ops)] /\ using \in [Clients -> Nat]
  /\ orphaned \in BOOLEAN /\ unheard \in BOOLEAN /\ leaked \in BOOLEAN /\ lost \in BOOLEAN

TodoInv == \A t \in Threads : todo[t] = << >> \/ \E k \in Kinds[t] : Path(k, todo[t])

(* Who is between lock and unlock has the mutex.                           *)
MutexInv == \A t \in Lockers : mutex = t <=> Pc(t) \in Inside

(* How far binding and unbinding have come.                                *)
Listed == entry.binding # None
BindInv ==
  /\ Listed => entry.binding = binding /\ open
  /\ open => binding # None
  /\ Pc("vf") = "idle" => (open => Listed)
  /\ Path("bind", todo["vf"]) => open /\ (Listed <=> Pc("vf") \notin {"lock", "add_binding"})
  /\ Path("unbind", todo["vf"]) =>
       (Listed <=> Pc("vf") \notin {"unlock", "close", "release"}) /\ (open <=> Pc("vf") # "release")
  /\ todo["status"] # << >> => open
  /\ Path("add", todo["adapter"]) /\ Pc("adapter") \in {"lock", "add_adapter"} => ~entry.adapter

(* The references there are.                                               *)
One(c) == IF c THEN 1 ELSE 0
RefsInv ==
  /\ refs = One(open \/ Pc("vf") = "release") + work + One(todo["work"] # << >>)
  /\ binding # None <=> refs > 0

(* What flows does so through a function that is bound.                    *)
Flowing == flow["tx"] \/ flow["rx"] \/ out["tx"] > 0 \/ out["rx"] > 0
LinkInv ==
  /\ m_BoundAdapter => Listed /\ compatible
  /\ m_Started => m_BoundAdapter
  /\ Flowing => m_BoundAdapter /\ flow["ref"] /\ m_Value = binding
  /\ Pc("returner") = "return" => out["rx"] > 0
  /\ ~lost

(* Packets flow when the binding is started, and it is bound when there is *)
(* an adapter that fits: for who gets the mutex, and at what he does.      *)
Even ==
  /\ flow["tx"] = m_Started /\ flow["rx"] = m_Started
  /\ ~m_Started => ~Flowing
  /\ m_Started => m_Value = binding /\ flow["ref"]
BoundIff == m_BoundAdapter <=> entry.adapter /\ Listed /\ compatible

EvenOps  == { "add_binding", "found", "look", "bind_sriov", "start", "remove_binding", "detach",
              "halted", "add_adapter", "remove_adapter", "changed", "unlock", "stop_tx" }
BoundOps == { "add_binding", "look", "bind_sriov", "start", "started", "remove_binding", "detach",
              "add_adapter", "remove_adapter", "changed", "unlock" }
StopOps  == { "stop_tx", "wait_tx", "stop_rx", "wait_rx", "stop_ref", "wait_ref", "unref",
              "unstart", "unbound" }

CalmInv == mutex = "none" => Even /\ BoundIff
StageInv(t) ==
  /\ Pc(t) \in EvenOps => Even
  /\ Pc(t) \in BoundOps => BoundIff
  /\ Pc(t) = "found" => entry.adapter /\ Listed /\ ~m_BoundAdapter
  /\ Pc(t) \in {"look", "bind_sriov", "start", "started"} => m_BoundAdapter /\ ~m_Started
  /\ Pc(t) \in {"start", "started"} => m_Value = binding /\ flow["ref"]
  /\ Pc(t) = "started" => flow["tx"] /\ flow["rx"]
  /\ Pc(t) = "detach" => entry.adapter
  /\ Pc(t) \in StopOps \cup {"halted"} => Listed /\ (t = "adapter" => ~entry.adapter)
  /\ Pc(t) \in {"wait_tx", "stop_rx", "wait_rx"} => ~flow["tx"]
  /\ Pc(t) \in {"stop_rx", "wait_rx"} => out["tx"] = 0
  /\ Pc(t) = "wait_rx" => ~flow["rx"]
  /\ Pc(t) \in {"stop_ref", "wait_ref", "unref", "unstart", "unbound", "unlist"} => ~Flowing
  /\ Pc(t) \in {"wait_ref", "unref"} => ~flow["ref"]
  /\ Pc(t) = "unref" => out["ref"] = 0
  /\ t = "vf" /\ Pc(t) \in {"unstart", "unbound", "unlist"} => (~orphaned => m_Value = None)
  /\ Pc(t) \in {"unbound", "unlist"} => ~m_Started
  /\ Pc(t) = "unlist" => ~m_BoundAdapter
StagesInv == \A t \in Lockers : StageInv(t)

(* A function that is up, bound and not in use: somebody will see it.      *)
LateOps == StopOps \cup {"look", "bind_sriov", "start", "started", "halted"}
UpInv ==
  m_BoundAdapter /\ m_Operational /\ ~m_Started =>
    \/ work > 0 \/ unheard \/ todo["status"] # << >> \/ Pc("work") \in {"lock", "changed"}
    \/ \E t \in Lockers : Pc(t) \in LateOps

(* Who uses the binding counts, and uses the one the adapter references.   *)
UserInv ==
  /\ \A u \in Clients : using[u] # None <=> todo[u] # << >>
  /\ out["ref"] >= One(todo["user"] # << >>) + One(todo["returner"] # << >>) + One(leaked)
  /\ ~orphaned /\ m_Value # None => m_Value = binding /\ Listed
  /\ ~orphaned => \A u \in Clients : using[u] # None => m_Value = using[u]

IInv ==
  /\ TypeInv /\ TodoInv /\ MutexInv /\ BindInv /\ RefsInv /\ LinkInv
  /\ CalmInv /\ StagesInv /\ UpInv /\ UserInv
-----------------------------------------------------------------------------
(* Paths.                                                                  *)
LEMMA LenZero ==
  ASSUME NEW s \in Seq(Ops)
  PROVE  s = << >> <=> Len(s) = 0
BY EmptySeq

LEMMA PathTail ==
  ASSUME NEW k, NEW s \in Seq(Ops), Path(k, s)
  PROVE  /\ Tail(s) \in Seq(Ops)
         /\ Tail(s) = << >> => Follows(k, Head(s), "end")
         /\ Tail(s) # << >> => Path(k, Tail(s)) /\ Follows(k, Head(s), Head(Tail(s)))
<1>1. s # << >> /\ Len(s) \in Nat \ {0} BY DEF Path
<1>2. Tail(s) \in Seq(Ops) /\ Len(Tail(s)) = Len(s) - 1 BY <1>1
<1>3. \A i \in 1 .. Len(s) - 1 : Tail(s)[i] = s[i + 1] BY <1>1
<1>4. Head(s) = s[1] BY <1>1
<1>5. Follows(k, s[1], IF 1 < Len(s) THEN s[2] ELSE "end") BY <1>1 DEF Path
<1>6. ASSUME Tail(s) = << >> PROVE Follows(k, Head(s), "end")
  <2>1. Len(s) = 1 BY <1>1, <1>2, <1>6
  <2> QED BY <2>1, <1>4, <1>5
<1>7. ASSUME Tail(s) # << >> PROVE Path(k, Tail(s)) /\ Follows(k, Head(s), Head(Tail(s)))
  <2>1. Len(s) > 1 BY <1>1, <1>2, <1>7
  <2>2. Head(Tail(s)) = s[2] BY <2>1, <1>2, <1>3, <1>7
  <2>3. ASSUME NEW i \in 1 .. Len(Tail(s))
        PROVE  Follows(k, Tail(s)[i], IF i < Len(Tail(s)) THEN Tail(s)[i + 1] ELSE "end")
    <3>1. Follows(k, s[i + 1], IF i + 1 < Len(s) THEN s[i + 2] ELSE "end")
      <4>1. i + 1 \in 1 .. Len(s) /\ (i + 1) + 1 = i + 2 BY <1>2, <2>3
      <4> QED BY <4>1 DEF Path
    <3>2. Tail(s)[i] = s[i + 1] BY <1>2, <1>3, <2>3
    <3>3. CASE i < Len(Tail(s))
      <4>1. i + 1 \in 1 .. Len(s) - 1 /\ i + 1 < Len(s) /\ (i + 1) + 1 = i + 2 BY <1>2, <2>3, <3>3
      <4>2. Tail(s)[i + 1] = s[i + 2] BY <4>1, <1>3
      <4> QED BY <3>1, <3>2, <3>3, <4>1, <4>2
    <3>4. CASE ~(i < Len(Tail(s)))
      <4>1. ~(i + 1 < Len(s)) BY <1>1, <1>2, <2>3, <3>4
      <4> QED BY <3>1, <3>2, <3>4, <4>1
    <3> QED BY <3>3, <3>4
  <2> QED BY <2>1, <2>2, <2>3, <1>4, <1>5, <1>7 DEF Path
<1> QED BY <1>2, <1>6, <1>7

(* Operations in front of the rest: the last of them is followed by what   *)
(* followed the one they come from.                                        *)
LEMMA PathPush ==
  ASSUME NEW k, NEW s \in Seq(Ops), NEW l \in Seq(Ops), Path(k, s), l # << >>,
         \A i \in 1 .. Len(l) - 1 : Follows(k, l[i], l[i + 1]),
         \A n : Follows(k, Head(s), n) => Follows(k, l[Len(l)], n)
  PROVE  l \o Tail(s) \in Seq(Ops) /\ Path(k, l \o Tail(s)) /\ Head(l \o Tail(s)) = l[1]
<1>a. s # << >> /\ Tail(s) \in Seq(Ops) BY DEF Path
<1>0. PICK q \in Seq(Ops) : q = Tail(s) BY <1>a
<1>1. Len(q) \in Nat /\ Len(l) \in Nat \ {0} BY LenZero
<1>c. l \o q \in Seq(Ops) BY <1>0, ConcatProperties
<1>b. PICK r \in Seq(Ops) : r = l \o q BY <1>c, Zenon
<1>2. Len(r) = Len(l) + Len(q) BY <1>b
<1>3. \A i \in 1 .. Len(l) : r[i] = l[i] BY <1>1, <1>b
<1>4. \A i \in Len(l) + 1 .. Len(r) : r[i] = q[i - Len(l)] BY <1>1, <1>2, <1>b
<1>7. q = << >> <=> Len(q) = 0 BY <1>1, LenZero
<1>5. r # << >> /\ Head(r) = l[1] BY <1>1, <1>2, <1>3
<1>6. ASSUME NEW i \in 1 .. Len(r)
      PROVE  Follows(k, r[i], IF i < Len(r) THEN r[i + 1] ELSE "end")
  <2>1. CASE i < Len(l)
    <3>1. r[i] = l[i] /\ r[i + 1] = l[i + 1] /\ i < Len(r) /\ i \in 1 .. Len(l) - 1
      BY <2>1, <1>1, <1>2, <1>3
    <3> QED BY <3>1
  <2>2. CASE i = Len(l)
    <3>1. r[i] = l[Len(l)] BY <2>2, <1>3, <1>1
    <3>2. CASE q = << >>
      <4>1. Follows(k, Head(s), "end") BY <3>2, <1>0, PathTail
      <4>3. Len(q) = 0 BY <3>2, <1>7
      <4>2. ~(i < Len(r)) BY <4>3, <2>2, <1>1, <1>2, <1>6
      <4> QED BY <3>1, <4>1, <4>2
    <3>3. CASE q # << >>
      <4>1. Follows(k, Head(s), Head(q)) BY <3>3, <1>0, PathTail
      <4>a. Len(q) > 0 BY <3>3, <1>7, <1>0, <1>1
      <4>b. Len(l) + 1 \in Len(l) + 1 .. Len(r) /\ (Len(l) + 1) - Len(l) = 1 BY <4>a, <1>1, <1>2
      <4>c. r[Len(l) + 1] = q[1]
        <5>1. r[Len(l) + 1] = q[(Len(l) + 1) - Len(l)] BY <4>b, <1>4
        <5> QED BY <5>1, <4>b
      <4>2. i < Len(r) /\ r[i + 1] = q[1] BY <4>a, <4>c, <2>2, <1>1, <1>2
      <4>3. Head(q) = q[1] BY <3>3, <1>1
      <4> QED BY <3>1, <4>1, <4>2, <4>3
    <3> QED BY <3>2, <3>3
  <2>3. CASE i > Len(l)
    <3>a. Len(q) # 0 BY <2>3, <1>1, <1>2, <1>6
    <3>1. q # << >> BY <3>a, <1>7
    <3>2. Path(k, q) BY <3>1, <1>0, PathTail
    <3>3. PICK j \in 1 .. Len(q) : i = Len(l) + j
      <4>1. i - Len(l) \in 1 .. Len(q) /\ i = Len(l) + (i - Len(l)) BY <2>3, <1>1, <1>2
      <4> QED BY <4>1
    <3>4. Follows(k, q[j], IF j < Len(q) THEN q[j + 1] ELSE "end")
      BY <3>2 DEF Path
    <3>5. r[i] = q[j] BY <3>3, <1>1, <1>2, <1>4, <1>0, <1>b, <1>6
    <3>6. (i < Len(r) <=> j < Len(q)) /\ (j < Len(q) => r[i + 1] = q[j + 1])
      BY <3>3, <1>1, <1>2, <1>4, <1>0, <1>b, <1>6
    <3> QED BY <3>4, <3>5, <3>6
  <2> QED BY <2>1, <2>2, <2>3, <1>1, <1>2, <1>6
<1>8. Path(k, r) BY <1>5, <1>6 DEF Path
<1> QED BY <1>0, <1>b, <1>5, <1>8
-----------------------------------------------------------------------------
(* What a step does to a thread's list, and to no other's: t, doing k, has *)
(* come to n, or to its end.                                               *)
Goes(t, k, n) ==
  /\ todo' \in [Threads -> Seq(Ops)]
  /\ \A u \in Threads \ {t} : todo'[u] = todo[u]
  /\ n = "idle" => todo'[t] = << >>
  /\ n # "idle" => Path(k, todo'[t]) /\ Head(todo'[t]) = n

LEMMA GoesOn ==
  ASSUME TypeInv, TodoInv, NEW t \in Threads, NEW k \in Kinds[t], NEW n, Goes(t, k, n)
  PROVE  /\ TodoInv'
         /\ Pc(t)' = n
         /\ \A u \in Threads \ {t} : Pc(u)' = Pc(u)
<1>1. todo'[t] = << >> \/ Path(k, todo'[t]) BY DEF Goes
<1>2. TodoInv' BY <1>1 DEF Goes, TodoInv
<1>3. Pc(t)' = n BY DEF Goes, Pc, Path
<1>4. ASSUME NEW u \in Threads \ {t} PROVE Pc(u)' = Pc(u) BY DEF Goes, Pc
<1> QED BY <1>2, <1>3, <1>4

LEMMA NoIdle ==
  ASSUME NEW k, NEW s \in Seq(Ops), Path(k, s)
  PROVE  s # << >> /\ Head(s) = s[1] /\ Head(s) # "idle" /\ \E n : Follows(k, Head(s), n)
<1>1. s # << >> /\ Head(s) = s[1] /\ Len(s) \in Nat \ {0} BY LenZero DEF Path
<1>2. Follows(k, s[1], IF 1 < Len(s) THEN s[2] ELSE "end") BY <1>1 DEF Path
<1>3. s[1] # "idle" BY <1>2 DEF Follows, Attaching, Stopping
<1> QED BY <1>1, <1>2, <1>3

LEMMA Advance ==
  ASSUME TypeInv, TodoInv, NEW t \in Threads, todo[t] # << >>, Then(t, << >>)
  PROVE  \E k \in Kinds[t] : \E n :
           /\ Path(k, todo[t]) /\ Goes(t, k, n)
           /\ Follows(k, Pc(t), IF n = "idle" THEN "end" ELSE n)
<1>1. PICK k \in Kinds[t] : Path(k, todo[t]) BY DEF TodoInv
<1>2. PICK s \in Seq(Ops) : s = todo[t] BY DEF TypeInv
<1>3. PICK q \in Seq(Ops) : q = Tail(s) BY <1>1, <1>2, PathTail
<1>4. << >> \o q = q BY <1>3
<1>5. todo' = [todo EXCEPT ![t] = q] BY <1>2, <1>3, <1>4 DEF Then
<1>6. /\ todo' \in [Threads -> Seq(Ops)] /\ todo'[t] = q
      /\ \A u \in Threads \ {t} : todo'[u] = todo[u]
  BY <1>3, <1>5 DEF TypeInv
<1>7. Pc(t) = Head(s) BY <1>2 DEF Pc
<1>8. CASE q = << >>
  <2>1. Goes(t, k, "idle") BY <1>6, <1>8 DEF Goes
  <2>2. Follows(k, Head(s), "end") BY <1>1, <1>2, <1>3, <1>8, PathTail
  <2> QED BY <2>1, <2>2, <1>1, <1>7
<1>9. CASE q # << >>
  <2>1. Path(k, q) /\ Follows(k, Head(s), Head(q)) BY <1>1, <1>2, <1>3, <1>9, PathTail
  <2>2. Head(q) # "idle" BY <2>1, <1>3, NoIdle
  <2>3. Goes(t, k, Head(q)) BY <2>1, <2>2, <1>6 DEF Goes
  <2> QED BY <2>1, <2>2, <2>3, <1>1, <1>7
<1> QED BY <1>8, <1>9

LEMMA PushOn ==
  ASSUME TypeInv, NEW t \in Threads, NEW k, Path(k, todo[t]), NEW l \in Seq(Ops), l # << >>,
         Then(t, l),
         \A i \in 1 .. Len(l) - 1 : Follows(k, l[i], l[i + 1]),
         \A n : Follows(k, Pc(t), n) => Follows(k, l[Len(l)], n)
  PROVE  Goes(t, k, l[1])
<1>1. PICK s \in Seq(Ops) : s = todo[t] BY DEF TypeInv
<1>2. Pc(t) = Head(s) BY <1>1 DEF Pc, Path
<1>3. PICK r : r = l \o Tail(s) OBVIOUS
<1>4. r \in Seq(Ops) /\ Path(k, r) /\ Head(r) = l[1] BY <1>1, <1>2, <1>3, PathPush
<1>5. todo' = [todo EXCEPT ![t] = r] BY <1>1, <1>3 DEF Then
<1>6. /\ todo' \in [Threads -> Seq(Ops)] /\ todo'[t] = r
      /\ \A u \in Threads \ {t} : todo'[u] = todo[u]
  BY <1>4, <1>5 DEF TypeInv
<1>7. l[1] # "idle" BY <1>4, NoIdle
<1> QED BY <1>4, <1>6, <1>7 DEF Goes

LEMMA Begin ==
  ASSUME TypeInv, NEW t \in Threads, NEW k, NEW l \in Seq(Ops), Path(k, l),
         todo' = [todo EXCEPT ![t] = l]
  PROVE  Goes(t, k, l[1])
<1>1. /\ todo' \in [Threads -> Seq(Ops)] /\ todo'[t] = l
      /\ \A u \in Threads \ {t} : todo'[u] = todo[u]
  BY DEF TypeInv
<1>2. Head(l) = l[1] /\ l[1] # "idle" BY NoIdle
<1> QED BY <1>1, <1>2 DEF Goes
-----------------------------------------------------------------------------
(* Lists that are put in front: from f to z.                               *)
Chain(k, l, f, z) ==
  /\ l \in Seq(Ops) /\ l # << >> /\ l[1] = f /\ l[Len(l)] = z
  /\ \A i \in 1 .. Len(l) - 1 : Follows(k, l[i], l[i + 1])

LEMMA ChainJoin ==
  ASSUME NEW k, NEW a, NEW b, NEW f, NEW y, NEW x, NEW z,
         Chain(k, a, f, y), Chain(k, b, x, z), Follows(k, y, x)
  PROVE  Chain(k, a \o b, f, z)
<1>1. /\ a \in Seq(Ops) /\ Len(a) \in Nat \ {0} /\ a[1] = f /\ a[Len(a)] = y
      /\ b \in Seq(Ops) /\ Len(b) \in Nat \ {0} /\ b[1] = x /\ b[Len(b)] = z
  BY LenZero DEF Chain
<1>2. PICK r : r = a \o b OBVIOUS
<1>3. r \in Seq(Ops) /\ Len(r) = Len(a) + Len(b) BY <1>1, <1>2
<1>4. \A i \in 1 .. Len(a) : r[i] = a[i] BY <1>1, <1>2
<1>5. \A i \in 1 .. Len(b) : r[Len(a) + i] = b[i]
  <2>1. \A i \in Len(a) + 1 .. Len(r) : r[i] = b[i - Len(a)] BY <1>1, <1>2, <1>3
  <2>2. \A i \in 1 .. Len(b) : Len(a) + i \in Len(a) + 1 .. Len(r) /\ (Len(a) + i) - Len(a) = i
    BY <1>1, <1>3
  <2> QED BY <2>1, <2>2
<1>6. r[1] = f /\ r[Len(r)] = z
  <2>1. 1 \in 1 .. Len(a) /\ Len(b) \in 1 .. Len(b) BY <1>1
  <2>2. r[1] = a[1] /\ r[Len(a) + Len(b)] = b[Len(b)] BY <2>1, <1>4, <1>5
  <2> QED BY <2>2, <1>1, <1>3
<1>7. ASSUME NEW i \in 1 .. Len(r) - 1 PROVE Follows(k, r[i], r[i + 1])
  <2>1. CASE i < Len(a)
    <3>1. i \in 1 .. Len(a) - 1 /\ r[i] = a[i] /\ r[i + 1] = a[i + 1] BY <2>1, <1>1, <1>4, <1>7
    <3> QED BY <3>1 DEF Chain
  <2>2. CASE i = Len(a)
    <3>1. r[i] = y /\ r[i + 1] = x BY <2>2, <1>1, <1>4, <1>5
    <3> QED BY <3>1
  <2>3. CASE i > Len(a)
    <3>1. PICK j \in 1 .. Len(b) - 1 : i = Len(a) + j
      <4>1. i - Len(a) \in 1 .. Len(b) - 1 /\ i = Len(a) + (i - Len(a)) BY <2>3, <1>1, <1>3, <1>7
      <4> QED BY <4>1
    <3>2. Follows(k, b[j], b[j + 1]) BY <3>1 DEF Chain
    <3>3. j \in 1 .. Len(b) /\ j + 1 \in 1 .. Len(b) /\ i + 1 = Len(a) + (j + 1)
      BY <3>1, <1>1
    <3>4. r[i] = b[j] /\ r[i + 1] = b[j + 1] BY <3>1, <3>3, <1>5
    <3> QED BY <3>2, <3>4
  <2> QED BY <2>1, <2>2, <2>3, <1>1, <1>7, <1>3
<1>8. r # << >> BY <1>1, <1>3
<1> QED BY <1>2, <1>3, <1>6, <1>7, <1>8 DEF Chain

LEMMA Single ==
  ASSUME NEW k, NEW p \in Ops
  PROVE  Chain(k, << p >>, p, p)
<1>1. << p >> \in Seq(Ops) OBVIOUS
<1>2. Len(<< p >>) = 1 /\ << p >>[1] = p /\ << p >> # << >> OBVIOUS
<1>3. \A i \in 1 .. 1 - 1 : FALSE OBVIOUS
<1> QED BY <1>1, <1>2, <1>3 DEF Chain

LEMMA Couple ==
  ASSUME NEW k, NEW p \in Ops, NEW q \in Ops, Follows(k, p, q)
  PROVE  Chain(k, << p, q >>, p, q)
<1>1. << p, q >> \in Seq(Ops) OBVIOUS
<1>2. Len(<< p, q >>) = 2 /\ << p, q >>[1] = p /\ << p, q >>[2] = q /\ << p, q >> # << >> OBVIOUS
<1>3. \A i \in 1 .. 2 - 1 : i = 1 OBVIOUS
<1> QED BY <1>1, <1>2, <1>3 DEF Chain

LEMMA PushChain ==
  ASSUME TypeInv, NEW t \in Threads, NEW k, Path(k, todo[t]), NEW l, NEW f, NEW z,
         Chain(k, l, f, z), Then(t, l), \A n : Follows(k, Pc(t), n) => Follows(k, z, n)
  PROVE  Goes(t, k, f)
BY PushOn DEF Chain

LEMMA FlowsOffChain ==
  ASSUME NEW k \in {"unbind", "remove"}
  PROVE  Chain(k, FlowsOff, "stop_tx", "wait_rx")
<1>1. Stop("tx") = << "stop_tx", "wait_tx" >> /\ Stop("rx") = << "stop_rx", "wait_rx" >>
  BY DEF Stop, StopOf, WaitOf
<1>2. /\ Follows(k, "stop_tx", "wait_tx") /\ Follows(k, "wait_tx", "stop_rx")
      /\ Follows(k, "stop_rx", "wait_rx")
  BY DEF Follows, Stopping
<1>o. "stop_tx" \in Ops /\ "wait_tx" \in Ops /\ "stop_rx" \in Ops /\ "wait_rx" \in Ops BY DEF Ops
<1>3. Chain(k, Stop("tx"), "stop_tx", "wait_tx") /\ Chain(k, Stop("rx"), "stop_rx", "wait_rx")
  BY <1>o, <1>1, <1>2, Couple
<1>4. Chain(k, Stop("tx") \o Stop("rx"), "stop_tx", "wait_rx") BY <1>2, <1>3, ChainJoin
<1> QED BY <1>4 DEF FlowsOff

LEMMA DetachChain ==
  /\ Chain("unbind", (FlowsOff \o Stop("ref") \o << "unref", "unstart" >>) \o << "unbound", "unlist" >>,
           "stop_tx", "unlist")
  /\ Chain("unbind", << >> \o << "unbound", "unlist" >>, "unbound", "unlist")
<1> DEFINE k == "unbind"
<1>1. Stop("ref") = << "stop_ref", "wait_ref" >> BY DEF Stop, StopOf, WaitOf
<1>2. /\ Follows(k, "wait_rx", "stop_ref") /\ Follows(k, "stop_ref", "wait_ref")
      /\ Follows(k, "wait_ref", "unref") /\ Follows(k, "unref", "unstart")
      /\ Follows(k, "unstart", "unbound") /\ Follows(k, "unbound", "unlist")
  BY DEF Follows, Stopping
<1>o. /\ "stop_ref" \in Ops /\ "wait_ref" \in Ops /\ "unref" \in Ops /\ "unstart" \in Ops
      /\ "unbound" \in Ops /\ "unlist" \in Ops
  BY DEF Ops
<1>3. /\ Chain(k, Stop("ref"), "stop_ref", "wait_ref") /\ Chain(k, << "unref", "unstart" >>, "unref", "unstart")
      /\ Chain(k, << "unbound", "unlist" >>, "unbound", "unlist")
  BY <1>o, <1>1, <1>2, Couple
<1>4. Chain(k, FlowsOff, "stop_tx", "wait_rx") BY FlowsOffChain
<1>5. Chain(k, FlowsOff \o Stop("ref"), "stop_tx", "wait_ref") BY <1>2, <1>3, <1>4, ChainJoin
<1>6. Chain(k, FlowsOff \o Stop("ref") \o << "unref", "unstart" >>, "stop_tx", "unstart")
  BY <1>2, <1>3, <1>5, ChainJoin
<1>7. << >> \o << "unbound", "unlist" >> = << "unbound", "unlist" >> OBVIOUS
<1> QED BY <1>2, <1>3, <1>6, <1>7, ChainJoin

LEMMA HaltChain ==
  /\ Chain("remove", FlowsOff \o << "unstart", "unbound" >>, "stop_tx", "unbound")
  /\ Chain("remove", << >> \o << "unstart", "unbound" >>, "unstart", "unbound")
<1>1. Follows("remove", "wait_rx", "unstart") /\ Follows("remove", "unstart", "unbound")
  BY DEF Follows, Stopping
<1>o. "unstart" \in Ops /\ "unbound" \in Ops BY DEF Ops
<1>2. Chain("remove", << "unstart", "unbound" >>, "unstart", "unbound") BY <1>o, <1>1, Couple
<1>3. Chain("remove", FlowsOff, "stop_tx", "wait_rx") BY FlowsOffChain
<1>4. << >> \o << "unstart", "unbound" >> = << "unstart", "unbound" >> OBVIOUS
<1> QED BY <1>1, <1>2, <1>3, <1>4, ChainJoin

LEMMA AttachChain ==
  ASSUME NEW k \in {"bind", "add", "work"}
  PROVE  Chain(k, Attach, "bind_sriov", "started")
<1>1. Follows(k, "bind_sriov", "start") /\ Follows(k, "start", "started") BY DEF Follows, Attaching
<1>2. Attach \in Seq(Ops) BY DEF Attach, Ops
<1>3. /\ Len(Attach) = 3 /\ Attach[1] = "bind_sriov" /\ Attach[2] = "start" /\ Attach[3] = "started"
      /\ Attach # << >>
  BY DEF Attach
<1>4. \A i \in 1 .. 3 - 1 : (i = 1 \/ i = 2) /\ (i = 1 => i + 1 = 2) /\ (i = 2 => i + 1 = 3) OBVIOUS
<1> QED BY <1>1, <1>2, <1>3, <1>4 DEF Chain

(* What vf does it does to the end: its list tells which.                  *)
Binding   == Path("bind", todo["vf"])
Unbinding == Path("unbind", todo["vf"])

LEMMA EitherWay ==
  ASSUME NEW s \in Seq(Ops), Path("bind", s), Path("unbind", s)
  PROVE  FALSE
<1>1. Len(s) \in Nat \ {0} BY LenZero DEF Path
<1>2. Len(s) \in 1 .. Len(s) /\ ~(Len(s) < Len(s)) BY <1>1
<1>3. Follows("bind", s[Len(s)], "end") /\ Follows("unbind", s[Len(s)], "end")
  BY <1>2 DEF Path
<1> QED BY <1>3 DEF Follows, Attaching, Stopping

LEMMA VfGoes ==
  ASSUME TypeInv, NEW k \in {"bind", "unbind"}, NEW n, Goes("vf", k, n)
  PROVE  /\ n # "idle" => (Binding' <=> k = "bind") /\ (Unbinding' <=> k = "unbind")
         /\ n = "idle" => ~Binding' /\ ~Unbinding'
<1>1. PICK s \in Seq(Ops) : s = todo'["vf"] BY DEF Goes, Threads
<1>2. ASSUME n # "idle"
      PROVE  (Path("bind", s) <=> k = "bind") /\ (Path("unbind", s) <=> k = "unbind")
  <2>1. Path(k, s) BY <1>1, <1>2 DEF Goes
  <2> QED BY <2>1, EitherWay
<1>3. ASSUME n = "idle" PROVE ~Path("bind", s) /\ ~Path("unbind", s)
  BY <1>1, <1>3 DEF Goes, Path
<1> QED BY <1>1, <1>2, <1>3 DEF Binding, Unbinding

LEMMA VfIs ==
  ASSUME TypeInv, TodoInv
  PROVE  /\ Pc("vf") = "idle" <=> todo["vf"] = << >>
         /\ Pc("vf") # "idle" => (Binding <=> ~Unbinding)
         /\ Pc("vf") = "idle" => ~Binding /\ ~Unbinding
<1>1. PICK s \in Seq(Ops) : s = todo["vf"] BY DEF TypeInv, Threads
<1>2. s = << >> \/ Path("bind", s) \/ Path("unbind", s) BY <1>1 DEF TodoInv, Kinds, Threads
<1>3. CASE s = << >>
  <2>1. ~Path("bind", s) /\ ~Path("unbind", s) BY <1>3 DEF Path
  <2> QED BY <1>1, <1>3, <2>1 DEF Pc, Binding, Unbinding
<1>4. CASE Path("bind", s)
  <2>1. s # << >> /\ Head(s) # "idle" /\ ~Path("unbind", s) BY <1>4, NoIdle, EitherWay
  <2> QED BY <1>1, <1>4, <2>1 DEF Pc, Binding, Unbinding
<1>5. CASE Path("unbind", s)
  <2>1. s # << >> /\ Head(s) # "idle" /\ ~Path("bind", s) BY <1>5, NoIdle, EitherWay
  <2> QED BY <1>1, <1>5, <2>1 DEF Pc, Binding, Unbinding
<1> QED BY <1>2, <1>3, <1>4, <1>5

(* A step of the thread that has the mutex and keeps it.                   *)
LEMMA Holds ==
  ASSUME IInv, NEW t \in Lockers, Pc(t) \in Inside
  PROVE  mutex = t /\ \A u \in Lockers \ {t} : Pc(u) \notin Inside
BY DEF IInv, MutexInv

LEMMA HolderKeeps ==
  ASSUME IInv, NEW t \in Lockers, Pc(t) \in Inside, NEW k \in Kinds[t], NEW n \in Inside,
         Goes(t, k, n), mutex' = mutex, StageInv(t)'
  PROVE  TodoInv' /\ MutexInv' /\ CalmInv' /\ StagesInv'
<1>1. mutex = t /\ \A u \in Lockers \ {t} : Pc(u) \notin Inside BY Holds
<1>2. TodoInv' /\ Pc(t)' = n /\ \A u \in Threads \ {t} : Pc(u)' = Pc(u)
  <2>1. t \in Threads BY DEF Threads, Lockers
  <2> QED BY <2>1, GoesOn DEF IInv
<1>3. \A u \in Lockers \ {t} : Pc(u)' = Pc(u) BY <1>2 DEF Threads, Lockers
<1>4. MutexInv' BY <1>1, <1>2, <1>3 DEF MutexInv
<1>5. CalmInv' BY <1>1 DEF CalmInv, Lockers
<1>6. ASSUME NEW u \in Lockers PROVE StageInv(u)'
  <2>1. CASE u = t BY <2>1
  <2>2. CASE u # t
    <3>1. Pc(u)' \notin Inside BY <2>2, <1>1, <1>3
    <3> QED BY <3>1 DEF Inside, StageInv, EvenOps, BoundOps, StopOps
  <2> QED BY <2>1, <2>2
<1> QED BY <1>2, <1>4, <1>5, <1>6 DEF StagesInv
-----------------------------------------------------------------------------
(* What a thread's going on leaves as it is.                               *)
LEMMA Frame ==
  ASSUME IInv, NEW t \in Lockers, NEW k \in Kinds[t], NEW n, Goes(t, k, n)
  PROVE  /\ t \in Threads /\ TodoInv' /\ Pc(t)' = n
         /\ \A u \in Lockers \ {t} : Pc(u)' = Pc(u) /\ todo'[u] = todo[u]
         /\ todo'["status"] = todo["status"] /\ Pc("returner")' = Pc("returner")
         /\ todo'["user"] = todo["user"] /\ todo'["returner"] = todo["returner"]
         /\ n = "idle" <=> todo'[t] = << >>
         /\ todo' \in [Threads -> Seq(Ops)]
<1>1. t \in Threads /\ Lockers \subseteq Threads /\ {"status", "user", "returner"} \subseteq Threads \ {t}
  BY DEF Threads, Lockers, Clients
<1>2. TodoInv' /\ Pc(t)' = n /\ \A u \in Threads \ {t} : Pc(u)' = Pc(u) BY <1>1, GoesOn DEF IInv
<1>3. \A u \in Threads \ {t} : todo'[u] = todo[u] BY DEF Goes
<1>4. n = "idle" <=> todo'[t] = << >> BY DEF Goes, Path
<1>5. todo' \in [Threads -> Seq(Ops)] BY DEF Goes
<1> QED BY <1>1, <1>2, <1>3, <1>4, <1>5

LEMMA PcIdle ==
  ASSUME IInv, NEW t \in Threads
  PROVE  Pc(t) = "idle" <=> todo[t] = << >>
<1>1. PICK s \in Seq(Ops) : s = todo[t] BY DEF IInv, TypeInv
<1>2. s = << >> \/ \E k \in Kinds[t] : Path(k, s) BY <1>1 DEF IInv, TodoInv
<1>3. ASSUME s # << >> PROVE Head(s) # "idle" BY <1>2, <1>3, NoIdle
<1> QED BY <1>1, <1>3 DEF Pc

LEMMA BindKeeps ==
  ASSUME IInv, NEW t \in Lockers, NEW k \in Kinds[t], NEW n, Path(k, todo[t]), Goes(t, k, n),
         entry' = entry, binding' = binding, open' = open, n # "lock",
         t = "vf" /\ k = "bind" => (n = "add_binding" <=> Pc("vf") \in {"lock", "add_binding"}),
         t = "vf" /\ k = "unbind" =>
           /\ n # "idle" /\ (n = "release" <=> Pc("vf") = "release")
           /\ n \in {"unlock", "close", "release"} <=> Pc("vf") \in {"unlock", "close", "release"},
         n = "add_adapter" => Pc(t) \in {"lock", "add_adapter"}
  PROVE  BindInv'
<1>1. /\ t \in Threads /\ Pc(t)' = n
      /\ \A u \in Lockers \ {t} : Pc(u)' = Pc(u) /\ todo'[u] = todo[u]
      /\ todo'["status"] = todo["status"]
  BY Frame
<1>2. TypeInv /\ TodoInv /\ BindInv BY DEF IInv
<1>3. (Listed <=> Listed') BY DEF Listed
<1>4. t = "vf" => k \in {"bind", "unbind"} BY DEF Kinds
<1>5. /\ Pc("vf")' = "idle" => (open => Listed)
      /\ Binding' => open /\ (Listed <=> Pc("vf")' \notin {"lock", "add_binding"})
      /\ Unbinding' => /\ Listed <=> Pc("vf")' \notin {"unlock", "close", "release"}
                       /\ open <=> Pc("vf")' # "release"
  <2>1. CASE t = "vf"
    <3>1. /\ n # "idle" => (Binding' <=> k = "bind") /\ (Unbinding' <=> k = "unbind")
          /\ n = "idle" => ~Binding' /\ ~Unbinding'
      BY <2>1, <1>2, <1>4, VfGoes
    <3>2. (k = "bind" => Binding) /\ (k = "unbind" => Unbinding) BY <2>1 DEF Binding, Unbinding
    <3>3. CASE k = "bind"
      <4>1. open /\ (Listed <=> Pc("vf") \notin {"lock", "add_binding"})
        BY <3>2, <3>3, <1>2 DEF BindInv, Binding
      <4>2. Pc("vf")' = n BY <2>1, <1>1
      <4>3. ~Unbinding' BY <3>1, <3>3
      <4> QED BY <2>1, <3>3, <4>1, <4>2, <4>3
    <3>4. CASE k = "unbind"
      <4>1. (Listed <=> Pc("vf") \notin {"unlock", "close", "release"}) /\ (open <=> Pc("vf") # "release")
        BY <3>2, <3>4, <1>2 DEF BindInv, Unbinding
      <4>2. Pc("vf")' = n BY <2>1, <1>1
      <4>3. ~Binding' BY <3>1, <3>4
      <4> QED BY <2>1, <3>4, <4>1, <4>2, <4>3
    <3> QED BY <3>3, <3>4, <2>1, <1>4
  <2>2. CASE t # "vf"
    <3>1. Pc("vf")' = Pc("vf") /\ todo'["vf"] = todo["vf"] BY <2>2, <1>1 DEF Lockers
    <3>2. (Binding' <=> Binding) /\ (Unbinding' <=> Unbinding) BY <3>1 DEF Binding, Unbinding
    <3> QED BY <3>1, <3>2, <1>2 DEF BindInv, Binding, Unbinding
  <2> QED BY <2>1, <2>2
<1>6. Path("add", todo'["adapter"]) /\ Pc("adapter")' \in {"lock", "add_adapter"} => ~entry.adapter
  <2>1. CASE t = "adapter"
    <3>1. ASSUME n = "add_adapter" PROVE ~entry.adapter
      <4>1. Path(k, todo'[t]) /\ Head(todo'[t]) = "add_adapter" BY <3>1 DEF Goes
      <4>2. PICK s \in Seq(Ops) : s = todo'[t] BY <1>1 DEF Goes
      <4>3. \E m : Follows(k, "add_adapter", m) BY <4>1, <4>2, NoIdle
      <4>4. k = "add" BY <4>3 DEF Follows, Attaching, Stopping
      <4> QED BY <4>4, <3>1, <2>1, <1>2 DEF BindInv
    <3> QED BY <3>1, <2>1, <1>1
  <2>2. CASE t # "adapter"
    <3>1. Pc("adapter")' = Pc("adapter") /\ todo'["adapter"] = todo["adapter"]
      BY <2>2, <1>1 DEF Lockers
    <3> QED BY <3>1, <1>2 DEF BindInv
  <2> QED BY <2>1, <2>2
<1>7. /\ Listed => entry.binding = binding /\ open
      /\ open => binding # None
      /\ todo["status"] # << >> => open
  BY <1>2 DEF BindInv
<1>8. Path("add", todo["adapter"])' <=> Path("add", todo'["adapter"]) OBVIOUS
<1>9. entry'.adapter = entry.adapter OBVIOUS
<1> HIDE DEF Listed
<1> QED BY <1>1, <1>3, <1>5, <1>6, <1>7, <1>8, <1>9 DEF BindInv, Binding, Unbinding

LEMMA RefsKeep ==
  ASSUME IInv, NEW t \in Lockers, NEW k \in Kinds[t], NEW n, Goes(t, k, n), Pc(t) # "idle",
         refs' = refs, binding' = binding, open' = open, work' = work,
         t = "vf" => n # "release" /\ Pc(t) # "release",
         t = "work" => n # "idle"
  PROVE  RefsInv'
<1>1. /\ t \in Threads /\ Pc(t)' = n /\ (n = "idle" <=> todo'[t] = << >>)
      /\ \A u \in Lockers \ {t} : Pc(u)' = Pc(u) /\ todo'[u] = todo[u]
  BY Frame
<1>2. todo[t] # << >> BY <1>1, PcIdle
<1>3. Pc("vf")' = "release" <=> Pc("vf") = "release" BY <1>1 DEF Lockers
<1>4. todo'["work"] # << >> <=> todo["work"] # << >> BY <1>1, <1>2 DEF Lockers
<1> QED BY <1>3, <1>4 DEF IInv, RefsInv, One
-----------------------------------------------------------------------------
(* The mutex.                                                              *)
LEMMA LockStep ==
  ASSUME IInv, NEW t \in Lockers, Lock(t)
  PROVE  IInv'
<1>1. todo[t] # << >> /\ Pc(t) = "lock" /\ mutex = "none" /\ mutex' = t /\ Then(t, << >>)
  BY DEF Lock, At, Pc
<1>2. UNCHANGED << entry, objVars, bindVars, flowVars, work, using, boundVars, pastVars >> BY DEF Lock
<1>3. TypeInv /\ TodoInv /\ t \in Threads BY DEF IInv, Threads, Lockers
<1>4. PICK k \in Kinds[t] : \E n :
        Path(k, todo[t]) /\ Goes(t, k, n) /\ Follows(k, "lock", IF n = "idle" THEN "end" ELSE n)
  BY <1>1, <1>3, Advance
<1>5. PICK n : /\ Path(k, todo[t]) /\ Goes(t, k, n)
               /\ Follows(k, "lock", IF n = "idle" THEN "end" ELSE n)
  BY <1>4
<1>6. \/ k = "bind" /\ n = "add_binding"
      \/ k = "unbind" /\ n = "remove_binding"
      \/ k = "add" /\ n = "add_adapter"
      \/ k = "remove" /\ n = "remove_adapter"
      \/ k = "work" /\ n = "changed"
  BY <1>5 DEF Follows, Attaching, Stopping
<1>7. /\ TodoInv' /\ Pc(t)' = n
      /\ \A u \in Lockers \ {t} : Pc(u)' = Pc(u) /\ todo'[u] = todo[u]
      /\ todo'["status"] = todo["status"] /\ Pc("returner")' = Pc("returner")
      /\ todo'["user"] = todo["user"] /\ todo'["returner"] = todo["returner"]
      /\ todo' \in [Threads -> Seq(Ops)]
  BY <1>5, Frame
<1>8. \A u \in Lockers : Pc(u) \notin Inside BY <1>1 DEF IInv, MutexInv, Lockers
<1>9. TypeInv' BY <1>1, <1>2, <1>3, <1>7 DEF TypeInv, objVars, bindVars, flowVars, pastVars
<1>10. MutexInv' BY <1>1, <1>6, <1>7, <1>8 DEF MutexInv, Inside, Lockers
<1>11. BindInv' BY <1>1, <1>2, <1>5, <1>6, BindKeeps DEF objVars
<1>12. RefsInv' BY <1>1, <1>2, <1>5, <1>6, RefsKeep DEF objVars
<1>13. LinkInv' BY <1>2, <1>7 DEF IInv, LinkInv, Flowing, Listed, objVars, bindVars, flowVars, pastVars
<1>14. CalmInv' BY <1>1 DEF CalmInv, Lockers
<1>15. Even /\ BoundIff BY <1>1 DEF IInv, CalmInv
<1>16. Even' /\ BoundIff'
  BY <1>2, <1>15 DEF Even, BoundIff, Flowing, Listed, objVars, bindVars, flowVars
<1>17. StagesInv'
  <2>1. ASSUME NEW u \in Lockers PROVE StageInv(u)'
    <3>1. CASE u = t
      BY <3>1, <1>6, <1>7, <1>16 DEF StageInv, StopOps
    <3>2. CASE u # t
      <4>1. Pc(u)' \notin Inside BY <3>2, <1>7, <1>8
      <4> QED BY <4>1 DEF Inside, StageInv, EvenOps, BoundOps, StopOps
    <3> QED BY <3>1, <3>2
  <2> QED BY <2>1 DEF StagesInv
<1>18. UpInv'
  <2>1. \A u \in Lockers : Pc(u) \notin LateOps BY <1>8 DEF Inside, LateOps, StopOps
  <2>2. Pc("work") \in {"lock", "changed"} => Pc("work")' \in {"lock", "changed"}
    <3>1. CASE t = "work" BY <3>1, <1>6, <1>7 DEF Kinds
    <3>2. CASE t # "work" BY <3>2, <1>7 DEF Lockers
    <3> QED BY <3>1, <3>2
  <2> QED BY <2>1, <2>2, <1>2, <1>7 DEF IInv, UpInv, objVars, bindVars, pastVars
<1>19. UserInv'
  BY <1>2, <1>7 DEF IInv, UserInv, Clients, Listed, One, objVars, flowVars, pastVars
<1> QED BY <1>7, <1>9, <1>10, <1>11, <1>12, <1>13, <1>14, <1>17, <1>18, <1>19 DEF IInv

LEMMA UnlockStep ==
  ASSUME IInv, NEW t \in Lockers, Unlock(t)
  PROVE  IInv'
<1>1. todo[t] # << >> /\ Pc(t) = "unlock" /\ mutex' = "none" /\ Then(t, << >>)
  BY DEF Unlock, At, Pc
<1>2. UNCHANGED << entry, objVars, bindVars, flowVars, work, using, boundVars, pastVars >> BY DEF Unlock
<1>3. TypeInv /\ TodoInv /\ t \in Threads BY DEF IInv, Threads, Lockers
<1>4. PICK k \in Kinds[t] : \E n :
        Path(k, todo[t]) /\ Goes(t, k, n) /\ Follows(k, "unlock", IF n = "idle" THEN "end" ELSE n)
  BY <1>1, <1>3, Advance
<1>5. PICK n : /\ Path(k, todo[t]) /\ Goes(t, k, n)
               /\ Follows(k, "unlock", IF n = "idle" THEN "end" ELSE n)
  BY <1>4
<1>6. \/ k \in {"bind", "add", "remove"} /\ n \in {"idle", "end"}
      \/ k = "unbind" /\ n = "close"
      \/ k = "work" /\ n = "drop"
  BY <1>5 DEF Follows, Attaching, Stopping
<1>7. /\ TodoInv' /\ Pc(t)' = n
      /\ \A u \in Lockers \ {t} : Pc(u)' = Pc(u) /\ todo'[u] = todo[u]
      /\ todo'["status"] = todo["status"] /\ Pc("returner")' = Pc("returner")
      /\ todo'["user"] = todo["user"] /\ todo'["returner"] = todo["returner"]
      /\ todo' \in [Threads -> Seq(Ops)]
  BY <1>5, Frame
<1>8. mutex = t /\ \A u \in Lockers \ {t} : Pc(u) \notin Inside
  <2>1. Pc(t) \in Inside BY <1>1 DEF Inside
  <2> QED BY <2>1, Holds
<1>9. TypeInv' BY <1>1, <1>2, <1>3, <1>7 DEF TypeInv, objVars, bindVars, flowVars, pastVars
<1>10. \A u \in Lockers : Pc(u)' \notin Inside BY <1>6, <1>7, <1>8 DEF Inside
<1>a. MutexInv' BY <1>1, <1>10 DEF MutexInv, Lockers
<1>11. BindInv'
  BY <1>1, <1>2, <1>5, <1>6, BindKeeps DEF objVars
<1>12. RefsInv' BY <1>1, <1>2, <1>5, <1>6, RefsKeep DEF objVars, Kinds
<1>13. LinkInv' BY <1>2, <1>7 DEF IInv, LinkInv, Flowing, Listed, objVars, bindVars, flowVars, pastVars
<1>14. Even /\ BoundIff BY <1>1 DEF IInv, StagesInv, StageInv, EvenOps, BoundOps
<1>15. Even' /\ BoundIff'
  BY <1>2, <1>14 DEF Even, BoundIff, Flowing, Listed, objVars, bindVars, flowVars
<1>16. CalmInv' BY <1>15 DEF CalmInv
<1>17. StagesInv' BY <1>10 DEF StagesInv, Inside, StageInv, EvenOps, BoundOps, StopOps
<1>18. UpInv'
  <2>1. \A u \in Lockers : Pc(u) \notin LateOps BY <1>1, <1>8 DEF Inside, LateOps, StopOps
  <2>2. Pc("work") \in {"lock", "changed"} => Pc("work")' \in {"lock", "changed"}
    BY <1>1, <1>7 DEF Lockers
  <2> QED BY <2>1, <2>2, <1>2, <1>7 DEF IInv, UpInv, objVars, bindVars, pastVars
<1>19. UserInv'
  BY <1>2, <1>7 DEF IInv, UserInv, Clients, Listed, One, objVars, flowVars, pastVars
<1> QED BY <1>7, <1>9, <1>a, <1>11, <1>12, <1>13, <1>16, <1>17, <1>18, <1>19 DEF IInv
-----------------------------------------------------------------------------
LEMMA KindsAre ==
  ASSUME NEW t \in Lockers, NEW k \in Kinds[t]
  PROVE  /\ t = "vf" <=> k \in {"bind", "unbind"}
         /\ t = "adapter" <=> k \in {"add", "remove"}
         /\ t = "work" <=> k = "work"
<1>1. /\ Kinds["vf"] = {"bind", "unbind"} /\ Kinds["adapter"] = {"add", "remove"}
      /\ Kinds["work"] = {"work"}
  BY DEF Kinds
<1> QED BY <1>1 DEF Lockers

(* What the thread with the mutex does to the flows.                       *)
LEMMA StopFlowStep ==
  ASSUME IInv, NEW t \in Lockers, StopFlow(t)
  PROVE  IInv'
<1>1. PICK f \in FlowNames :
        \/ At(t, StopOf[f]) /\ flow' = [flow EXCEPT ![f] = FALSE]
        \/ At(t, WaitOf[f]) /\ out[f] = 0 /\ UNCHANGED flow
  BY DEF StopFlow
<1>2. UNCHANGED << entry, mutex, objVars, bindVars, out, m_Value, work, using, boundVars, pastVars >>
  BY DEF StopFlow
<1>3. todo[t] # << >> /\ Then(t, << >>) BY <1>1 DEF StopFlow, At
<1>4. PICK p : /\ Pc(t) = p
               /\ \/ p = "stop_tx" /\ flow' = [flow EXCEPT !["tx"] = FALSE]
                  \/ p = "stop_rx" /\ flow' = [flow EXCEPT !["rx"] = FALSE]
                  \/ p = "stop_ref" /\ flow' = [flow EXCEPT !["ref"] = FALSE]
                  \/ p = "wait_tx" /\ out["tx"] = 0 /\ flow' = flow
                  \/ p = "wait_rx" /\ out["rx"] = 0 /\ flow' = flow
                  \/ p = "wait_ref" /\ out["ref"] = 0 /\ flow' = flow
  <2>1. Pc(t) = Head(todo[t]) BY <1>3 DEF Pc
  <2>2. CASE f = "tx" BY <2>1, <2>2, <1>1 DEF At, StopOf, WaitOf
  <2>3. CASE f = "rx" BY <2>1, <2>3, <1>1 DEF At, StopOf, WaitOf
  <2>4. CASE f = "ref" BY <2>1, <2>4, <1>1 DEF At, StopOf, WaitOf
  <2> QED BY <2>2, <2>3, <2>4 DEF FlowNames
<1>5. TypeInv /\ TodoInv /\ t \in Threads BY DEF IInv, Threads, Lockers
<1>6. PICK k \in Kinds[t] : \E n :
        Path(k, todo[t]) /\ Goes(t, k, n) /\ Follows(k, p, IF n = "idle" THEN "end" ELSE n)
  BY <1>3, <1>4, <1>5, Advance
<1>7. PICK n : /\ Path(k, todo[t]) /\ Goes(t, k, n)
               /\ Follows(k, p, IF n = "idle" THEN "end" ELSE n)
  BY <1>6
<1>8. \/ p = "stop_tx" /\ n = "wait_tx"
      \/ p = "wait_tx" /\ n = "stop_rx"
      \/ p = "stop_rx" /\ n = "wait_rx"
      \/ p = "wait_rx" /\ ((k = "unbind" /\ n = "stop_ref") \/ (k = "remove" /\ n = "unstart"))
      \/ p = "stop_ref" /\ k = "unbind" /\ n = "wait_ref"
      \/ p = "wait_ref" /\ k = "unbind" /\ n = "unref"
  <2>1. CASE p = "stop_tx" BY <2>1, <1>7 DEF Follows, Attaching, Stopping
  <2>2. CASE p = "wait_tx" BY <2>2, <1>7 DEF Follows, Attaching, Stopping
  <2>3. CASE p = "stop_rx" BY <2>3, <1>7 DEF Follows, Attaching, Stopping
  <2>4. CASE p = "wait_rx"
    <3>1. Follows(k, "wait_rx", IF n = "idle" THEN "end" ELSE n) BY <2>4, <1>7
    <3>2. \/ k = "unbind" /\ (IF n = "idle" THEN "end" ELSE n) = "stop_ref"
          \/ k = "remove" /\ (IF n = "idle" THEN "end" ELSE n) = "unstart"
      BY <3>1 DEF Follows, Attaching, Stopping
    <3> QED BY <2>4, <3>2
  <2>5. CASE p = "stop_ref" BY <2>5, <1>7 DEF Follows, Attaching, Stopping
  <2>6. CASE p = "wait_ref" BY <2>6, <1>7 DEF Follows, Attaching, Stopping
  <2> QED BY <1>4, <2>1, <2>2, <2>3, <2>4, <2>5, <2>6
<1>9. (k = "unbind" /\ t = "vf") \/ (k = "remove" /\ t = "adapter")
  <2>1. k \in {"unbind", "remove"} BY <1>4, <1>7 DEF Follows, Attaching, Stopping
  <2> QED BY <2>1, <1>6, KindsAre
<1>10. /\ Pc(t)' = n /\ todo' \in [Threads -> Seq(Ops)]
       /\ \A u \in Lockers \ {t} : Pc(u)' = Pc(u) /\ todo'[u] = todo[u]
       /\ todo'["status"] = todo["status"] /\ Pc("returner")' = Pc("returner")
       /\ todo'["user"] = todo["user"] /\ todo'["returner"] = todo["returner"]
  BY <1>7, Frame
<1>11. p \in StopOps /\ n \in StopOps /\ p \in Inside /\ n \in Inside BY <1>8, <1>4 DEF StopOps, Inside
<1>12. mutex = t /\ StageInv(t) BY <1>4, <1>11, Holds DEF IInv, StagesInv
<1>13. /\ flow' \in [FlowNames -> BOOLEAN]
       /\ flow'["tx"] = (flow["tx"] /\ p # "stop_tx") /\ flow'["rx"] = (flow["rx"] /\ p # "stop_rx")
       /\ flow'["ref"] = (flow["ref"] /\ p # "stop_ref")
  BY <1>4, <1>5 DEF TypeInv, FlowNames
<1>14. TypeInv' BY <1>2, <1>5, <1>10, <1>13 DEF TypeInv, objVars, bindVars, pastVars
<1>15. LinkInv'
  <2>1. p = "stop_ref" => ~Flowing BY <1>4, <1>12 DEF StageInv
  <2>2. Flowing' => Flowing /\ p # "stop_ref" BY <1>2, <1>13, <2>1 DEF Flowing
  <2> QED BY <2>2, <1>2, <1>10, <1>13 DEF IInv, LinkInv, Listed, objVars, bindVars, pastVars
<1>16. StageInv(t)'
  <2>1. Pc(t)' = n BY <1>10
  <2>2. Listed /\ (t = "adapter" => ~entry.adapter) BY <1>4, <1>11, <1>12 DEF StageInv
  <2>3. n # "wait_tx" \/ ~flow'["tx"] BY <1>8, <1>13
  <2>4. n \in {"stop_rx", "wait_rx"} => ~flow'["tx"] /\ out["tx"] = 0
    BY <1>4, <1>8, <1>12, <1>13 DEF StageInv
  <2>5. n = "wait_rx" => ~flow'["rx"] BY <1>8, <1>13
  <2>6. n \in {"stop_ref", "unstart"} => ~Flowing'
    <3>1. n \in {"stop_ref", "unstart"} => ~flow["tx"] /\ out["tx"] = 0 /\ ~flow["rx"] /\ out["rx"] = 0
      BY <1>4, <1>8, <1>12 DEF StageInv
    <3>2. out' = out /\ (flow'["tx"] => flow["tx"]) /\ (flow'["rx"] => flow["rx"]) BY <1>2, <1>13
    <3> QED BY <3>1, <3>2 DEF Flowing
  <2>7. n \in {"wait_ref", "unref"} => ~Flowing' /\ ~flow'["ref"]
    <3>1. n \in {"wait_ref", "unref"} => ~Flowing BY <1>4, <1>8, <1>12 DEF StageInv
    <3>2. Flowing' => Flowing BY <1>2, <1>13 DEF Flowing
    <3>3. n \in {"wait_ref", "unref"} => ~flow'["ref"] BY <1>4, <1>8, <1>12, <1>13 DEF StageInv
    <3> QED BY <3>1, <3>2, <3>3
  <2>8. n = "unref" => out["ref"] = 0 BY <1>4, <1>8
  <2>9. n = "unstart" => t # "vf" BY <1>8, <1>9
  <2>10. n \in {"wait_tx", "stop_rx", "wait_rx", "stop_ref", "unstart", "wait_ref", "unref"} BY <1>8
  <2> HIDE DEF Flowing, Listed
  <2>11. Listed' = Listed /\ out' = out /\ entry' = entry BY <1>2 DEF Listed
  <2> QED BY <2>1, <2>2, <2>3, <2>4, <2>5, <2>6, <2>7, <2>8, <2>9, <2>10, <2>11
    DEF StageInv, EvenOps, BoundOps, StopOps
<1>17. TodoInv' /\ MutexInv' /\ CalmInv' /\ StagesInv'
  BY <1>2, <1>4, <1>7, <1>11, <1>16, HolderKeeps
<1>18. BindInv'
  BY <1>2, <1>4, <1>7, <1>8, <1>9, BindKeeps DEF objVars
<1>19. RefsInv'
  <2>1. Pc(t) # "idle" /\ (t = "vf" => n # "release" /\ Pc(t) # "release") /\ (t = "work" => n # "idle")
    BY <1>4, <1>8
  <2>2. refs' = refs /\ binding' = binding /\ open' = open /\ work' = work BY <1>2 DEF objVars
  <2> QED BY <1>7, <2>1, <2>2, RefsKeep
<1>20. UpInv'
  <2>1. Pc(t)' \in LateOps BY <1>10, <1>11 DEF LateOps
  <2> QED BY <2>1 DEF UpInv
<1>21. UserInv'
  BY <1>2, <1>10 DEF IInv, UserInv, Clients, Listed, One, objVars, flowVars, pastVars
<1> QED BY <1>14, <1>15, <1>17, <1>18, <1>19, <1>20, <1>21 DEF IInv
LEMMA AdvanceTo ==
  ASSUME TypeInv, TodoInv, NEW t \in Threads, todo[t] # << >>, Then(t, << >>),
         NEW k \in Kinds[t], Path(k, todo[t]), NEW m, m \notin {"end", "idle"},
         \A n : Follows(k, Pc(t), n) <=> n = m
  PROVE  Goes(t, k, m)
<1>1. PICK s \in Seq(Ops) : s = todo[t] BY DEF TypeInv
<1>2. PICK q \in Seq(Ops) : q = Tail(s) BY <1>1, PathTail
<1>3. << >> \o q = q BY <1>2
<1>4. todo' = [todo EXCEPT ![t] = q] BY <1>1, <1>2, <1>3 DEF Then
<1>5. /\ todo' \in [Threads -> Seq(Ops)] /\ todo'[t] = q
      /\ \A u \in Threads \ {t} : todo'[u] = todo[u]
  BY <1>2, <1>4 DEF TypeInv
<1>6. Pc(t) = Head(s) BY <1>1 DEF Pc
<1>7. q # << >>
  <2>1. SUFFICES ASSUME q = << >> PROVE FALSE OBVIOUS
  <2>2. Follows(k, Head(s), "end") BY <1>1, <1>2, <2>1, PathTail
  <2> QED BY <2>2, <1>6
<1>8. Path(k, q) /\ Follows(k, Head(s), Head(q)) BY <1>1, <1>2, <1>7, PathTail
<1>9. Head(q) = m BY <1>8, <1>6
<1> QED BY <1>5, <1>8, <1>9 DEF Goes
LEMMA InnerKeeps ==
  ASSUME IInv, NEW t \in Lockers, Pc(t) \in Inside, NEW k \in Kinds[t], NEW n \in Inside,
         Goes(t, k, n), mutex' = mutex, UNCHANGED objVars, work' = work, StageInv(t)'
  PROVE  TodoInv' /\ MutexInv' /\ CalmInv' /\ StagesInv' /\ RefsInv'
<1>1. Pc(t) # "idle" /\ Pc(t) # "release" /\ n # "release" /\ n # "idle" BY DEF Inside
<1>2. refs' = refs /\ binding' = binding /\ open' = open /\ work' = work BY DEF objVars
<1>3. RefsInv' BY <1>1, <1>2, RefsKeep
<1> QED BY <1>3, HolderKeeps

(* Pc of the thread that has gone on and of those that have not.           *)
Others(t) ==
  /\ \A u \in Lockers \ {t} : Pc(u)' = Pc(u) /\ todo'[u] = todo[u]
  /\ todo'["status"] = todo["status"] /\ Pc("returner")' = Pc("returner")
  /\ todo'["user"] = todo["user"] /\ todo'["returner"] = todo["returner"]

LEMMA FoundStep ==
  ASSUME IInv, NEW t \in Lockers, OnAdapterFound(t)
  PROVE  IInv'
<1>1. todo[t] # << >> /\ Pc(t) \in {"found", "look"} BY DEF OnAdapterFound, At, Pc
<1>2. /\ UNCHANGED << entry, mutex, objVars, m_Started, flowVars, work, using, boundVars, pastVars >>
      /\ Pc(t) = "found" => m_BoundAdapter' = compatible /\ Then(t, When(compatible, << "look" >>))
      /\ Pc(t) = "look" => Then(t, When(m_Operational, Attach)) /\ UNCHANGED m_BoundAdapter
  BY DEF OnAdapterFound, At, Pc
<1>3. TypeInv /\ TodoInv /\ t \in Threads BY DEF IInv, Threads, Lockers
<1>4. Pc(t) \in Inside BY <1>1 DEF Inside
<1>5. mutex = t /\ StageInv(t) BY <1>4, Holds DEF IInv, StagesInv
<1>6. PICK k \in Kinds[t] : Path(k, todo[t]) BY <1>1, <1>3 DEF TodoInv
<1>7. k \in {"bind", "add", "work"} /\ \A n : Follows(k, Pc(t), n) <=> n = "unlock"
  <2>1. PICK s \in Seq(Ops) : s = todo[t] BY <1>3 DEF TypeInv
  <2>2. \E n : Follows(k, Head(s), n) BY <2>1, <1>6, NoIdle
  <2>3. PICK p : p = Pc(t) /\ p \in {"found", "look"} /\ \E n : Follows(k, p, n)
    BY <2>1, <2>2, <1>1 DEF Pc
  <2>4. k \in {"bind", "add", "work"} BY <2>3 DEF Follows, Attaching, Stopping
  <2>5. \A n : Follows(k, p, n) <=> n = "unlock" BY <2>3, <2>4 DEF Follows, Attaching, Stopping
  <2> QED BY <2>3, <2>4, <2>5
<1>8. \A n : Follows(k, "look", n) <=> n = "unlock" BY <1>7 DEF Follows, Attaching, Stopping
<1>9. \A n : Follows(k, "started", n) <=> n = "unlock" BY <1>7 DEF Follows, Attaching, Stopping
<1>10. PICK n : /\ Goes(t, k, n)
                /\ \/ Pc(t) = "found" /\ compatible /\ n = "look"
                   \/ Pc(t) = "look" /\ m_Operational /\ n = "bind_sriov"
                   \/ Pc(t) = "found" /\ ~compatible /\ n = "unlock"
                   \/ Pc(t) = "look" /\ ~m_Operational /\ n = "unlock"
  <2>1. CASE Pc(t) = "found" /\ compatible
    <3>1. Then(t, << "look" >>) BY <2>1, <1>2 DEF When
    <3>2. "look" \in Ops BY DEF Ops
    <3>3. Chain(k, << "look" >>, "look", "look") BY <3>2, Single
    <3>4. Goes(t, k, "look") BY <3>1, <3>3, <1>3, <1>6, <1>7, <1>8, PushChain
    <3> QED BY <2>1, <3>4
  <2>2. CASE Pc(t) = "look" /\ m_Operational
    <3>1. Then(t, Attach) BY <2>2, <1>2 DEF When
    <3>2. Chain(k, Attach, "bind_sriov", "started") BY <1>7, AttachChain
    <3>3. Goes(t, k, "bind_sriov") BY <3>1, <3>2, <1>3, <1>6, <1>7, <1>9, PushChain
    <3> QED BY <2>2, <3>3
  <2>3. CASE (Pc(t) = "found" /\ ~compatible) \/ (Pc(t) = "look" /\ ~m_Operational)
    <3>1. Then(t, << >>) BY <2>3, <1>2 DEF When
    <3>2. Goes(t, k, "unlock") BY <3>1, <1>1, <1>3, <1>6, <1>7, AdvanceTo
    <3> QED BY <2>3, <3>2
  <2> QED BY <2>1, <2>2, <2>3, <1>1
<1>11. Pc(t)' = n /\ todo' \in [Threads -> Seq(Ops)] /\ Others(t) BY <1>10, Frame DEF Others
<1>12. TypeInv' BY <1>2, <1>3, <1>11, <1>10 DEF TypeInv, objVars, flowVars, pastVars
<1>13. entry.adapter /\ Listed /\ ~m_Started /\ Even
  <2>1. Even BY <1>1, <1>5 DEF StageInv, EvenOps
  <2>2. CASE Pc(t) = "found" BY <2>1, <2>2, <1>5 DEF StageInv, IInv, LinkInv
  <2>3. CASE Pc(t) = "look"
    <3>1. ~m_Started /\ m_BoundAdapter /\ BoundIff BY <2>3, <1>5 DEF StageInv, BoundOps
    <3> QED BY <3>1, <2>1 DEF BoundIff
  <2> QED BY <2>2, <2>3, <2>1, <1>1
<1>14. m_BoundAdapter' <=> compatible
  <2>1. CASE Pc(t) = "found" BY <2>1, <1>2
  <2>2. CASE Pc(t) = "look"
    <3>1. m_BoundAdapter /\ BoundIff BY <2>2, <1>5 DEF StageInv, BoundOps
    <3> QED BY <3>1, <2>2, <1>2 DEF BoundIff
  <2> QED BY <2>1, <2>2, <1>1
<1>15. Even' /\ BoundIff' /\ Listed' /\ ~m_Started' /\ entry'.adapter
  BY <1>2, <1>13, <1>14 DEF Even, BoundIff, Flowing, Listed, objVars, flowVars
<1>16. n \in {"look", "bind_sriov"} => compatible
  <2>1. Pc(t) = "look" => compatible BY <1>5 DEF StageInv, IInv, LinkInv
  <2> QED BY <2>1, <1>10
<1>17. StageInv(t)'
  <2>1. n \in {"look", "bind_sriov", "unlock"} BY <1>10
  <2> HIDE DEF Flowing, Listed, Even, BoundIff
  <2> QED BY <2>1, <1>11, <1>14, <1>15, <1>16, <1>2 DEF StageInv, StopOps, objVars
<1>18. n \in Inside BY <1>10 DEF Inside
<1>19. TodoInv' /\ MutexInv' /\ CalmInv' /\ StagesInv' /\ RefsInv'
  BY <1>2, <1>4, <1>10, <1>17, <1>18, InnerKeeps
<1>20. BindInv'
  <2>1. /\ n \notin {"lock", "add_binding", "add_adapter", "idle", "release"}
        /\ Pc(t) \notin {"lock", "add_binding"} /\ k # "unbind"
    BY <1>1, <1>7, <1>10
  <2>2. entry' = entry /\ binding' = binding /\ open' = open BY <1>2 DEF objVars
  <2> QED BY <2>1, <2>2, <1>6, <1>10, BindKeeps
<1>21. LinkInv'
  <2>1. ~Flowing' BY <1>15 DEF Even
  <2>2. Flowing <=> Flowing' BY <1>2 DEF Flowing, flowVars
  <2> HIDE DEF Flowing
  <2> QED BY <2>1, <2>2, <1>2, <1>11, <1>14, <1>15 DEF IInv, LinkInv, Others, flowVars, pastVars, objVars
<1>22. UpInv'
  <2>1. CASE n = "unlock"
    <3>1. ~m_BoundAdapter' \/ ~m_Operational' BY <2>1, <1>10, <1>14, <1>2 DEF objVars
    <3> QED BY <3>1 DEF UpInv
  <2>2. CASE n # "unlock"
    <3>1. Pc(t)' \in LateOps BY <2>2, <1>10, <1>11 DEF LateOps
    <3> QED BY <3>1 DEF UpInv
  <2> QED BY <2>1, <2>2
<1>23. UserInv'
  BY <1>2, <1>11 DEF IInv, UserInv, Others, Clients, Listed, One, objVars, flowVars, pastVars
<1> QED BY <1>12, <1>19, <1>20, <1>21, <1>22, <1>23 DEF IInv
(* A thread that is about to do p does one of the things p belongs to.     *)
LEMMA Doing ==
  ASSUME IInv, NEW t \in Lockers, todo[t] # << >>
  PROVE  \E k \in Kinds[t] : Path(k, todo[t]) /\ \E n : Follows(k, Pc(t), n)
<1>1. t \in Threads BY DEF Threads, Lockers
<1>2. PICK k \in Kinds[t] : Path(k, todo[t]) BY <1>1 DEF IInv, TodoInv
<1>3. PICK s \in Seq(Ops) : s = todo[t] BY <1>1 DEF IInv, TypeInv
<1>4. \E n : Follows(k, Head(s), n) BY <1>2, <1>3, NoIdle
<1> QED BY <1>2, <1>3, <1>4 DEF Pc

LEMMA AttachedStep ==
  ASSUME IInv, NEW t \in Lockers, OnAdapterAttached(t)
  PROVE  IInv'
<1>1. todo[t] # << >> /\ Pc(t) \in {"bind_sriov", "start", "started"} /\ Then(t, << >>)
  BY DEF OnAdapterAttached, At, Pc
<1>2. /\ UNCHANGED << entry, mutex, objVars, m_BoundAdapter, work, using, boundVars, pastVars >>
      /\ Pc(t) = "bind_sriov" =>
           /\ m_Value' = binding /\ UNCHANGED m_Started /\ flow' = [flow EXCEPT !["ref"] = TRUE]
           /\ out' \in {out, [out EXCEPT !["ref"] = IF @ < MaxOut THEN @ + 1 ELSE @]}
      /\ Pc(t) = "start" =>
           /\ flow' = [flow EXCEPT !["tx"] = TRUE, !["rx"] = TRUE]
           /\ UNCHANGED << out, m_Value, m_Started >>
      /\ Pc(t) = "started" => m_Started' = TRUE /\ UNCHANGED flowVars
  BY DEF OnAdapterAttached, At, Pc
<1>3. TypeInv /\ TodoInv /\ t \in Threads BY DEF IInv, Threads, Lockers
<1>4. Pc(t) \in Inside BY <1>1 DEF Inside
<1>5. mutex = t /\ StageInv(t) BY <1>4, Holds DEF IInv, StagesInv
<1>6. PICK k \in Kinds[t] : Path(k, todo[t]) /\ \E n : Follows(k, Pc(t), n) BY <1>1, Doing
<1>7. k \in {"bind", "add", "work"} BY <1>1, <1>6 DEF Follows, Attaching, Stopping
<1>8. PICK n : /\ Goes(t, k, n)
               /\ \/ Pc(t) = "bind_sriov" /\ n = "start"
                  \/ Pc(t) = "start" /\ n = "started"
                  \/ Pc(t) = "started" /\ n = "unlock"
  <2>1. CASE Pc(t) = "bind_sriov"
    <3>1. \A n : Follows(k, Pc(t), n) <=> n = "start"
      BY <2>1, <1>7 DEF Follows, Attaching, Stopping
    <3>2. Goes(t, k, "start") BY <3>1, <1>1, <1>3, <1>6, AdvanceTo
    <3> QED BY <2>1, <3>2
  <2>2. CASE Pc(t) = "start"
    <3>1. \A n : Follows(k, Pc(t), n) <=> n = "started"
      BY <2>2, <1>7 DEF Follows, Attaching, Stopping
    <3>2. Goes(t, k, "started") BY <3>1, <1>1, <1>3, <1>6, AdvanceTo
    <3> QED BY <2>2, <3>2
  <2>3. CASE Pc(t) = "started"
    <3>1. \A n : Follows(k, Pc(t), n) <=> n = "unlock"
      BY <2>3, <1>7 DEF Follows, Attaching, Stopping
    <3>2. Goes(t, k, "unlock") BY <3>1, <1>1, <1>3, <1>6, AdvanceTo
    <3> QED BY <2>3, <3>2
  <2> QED BY <2>1, <2>2, <2>3, <1>1
<1>9. Pc(t)' = n /\ todo' \in [Threads -> Seq(Ops)] /\ Others(t) BY <1>8, Frame DEF Others
<1>10. m_BoundAdapter /\ ~m_Started /\ BoundIff /\ Listed /\ binding # None
  <2>1. m_BoundAdapter /\ ~m_Started /\ BoundIff BY <1>1, <1>5 DEF StageInv, BoundOps
  <2>2. Listed BY <2>1 DEF BoundIff
  <2>3. binding # None BY <2>2 DEF IInv, BindInv
  <2> QED BY <2>1, <2>2, <2>3
<1>11. /\ flow' \in [FlowNames -> BOOLEAN] /\ out' \in [FlowNames -> Nat]
       /\ out'["tx"] = out["tx"] /\ out'["rx"] = out["rx"] /\ out'["ref"] >= out["ref"]
  <2>o. out \in [FlowNames -> Nat] /\ flow \in [FlowNames -> BOOLEAN] BY <1>3 DEF TypeInv
  <2>1. CASE Pc(t) = "bind_sriov"
    <3>1. PICK c \in Nat : c >= out["ref"] /\ out' = [out EXCEPT !["ref"] = c]
      <4>1. out["ref"] \in Nat /\ out = [out EXCEPT !["ref"] = out["ref"]] BY <2>o DEF FlowNames
      <4>2. PICK c : c = IF out["ref"] < MaxOut THEN out["ref"] + 1 ELSE out["ref"] OBVIOUS
      <4>3. c \in Nat /\ c >= out["ref"] BY <4>1, <4>2
      <4>4. out' = out \/ out' = [out EXCEPT !["ref"] = c] BY <2>1, <4>2, <1>2
      <4>5. out["ref"] \in Nat /\ out["ref"] >= out["ref"] BY <4>1
      <4> QED BY <4>1, <4>3, <4>4, <4>5
    <3>2. out' \in [FlowNames -> Nat] /\ out'["ref"] = c /\ out'["tx"] = out["tx"] /\ out'["rx"] = out["rx"]
      BY <2>o, <3>1 DEF FlowNames
    <3>3. flow' \in [FlowNames -> BOOLEAN]
      <4>1. flow' = [flow EXCEPT !["ref"] = TRUE] BY <2>1, <1>2
      <4> QED BY <4>1, <2>o
    <3> QED BY <3>1, <3>2, <3>3
  <2>2. CASE Pc(t) = "start"
    <3>1. out' = out /\ flow' = [[flow EXCEPT !["tx"] = TRUE] EXCEPT !["rx"] = TRUE] BY <2>2, <1>2
    <3>2. flow' \in [FlowNames -> BOOLEAN] BY <3>1, <2>o
    <3>3. out["ref"] \in Nat /\ out["ref"] >= out["ref"] BY <2>o DEF FlowNames
    <3>4. out' \in [FlowNames -> Nat] BY <3>1, <2>o
    <3>5. out'["ref"] = out["ref"] /\ out'["tx"] = out["tx"] /\ out'["rx"] = out["rx"] BY <3>1
    <3>6. out'["ref"] >= out["ref"] BY <3>3, <3>5
    <3> QED BY <3>2, <3>4, <3>5, <3>6
  <2>3. CASE Pc(t) = "started" BY <2>3, <1>2, <1>3 DEF TypeInv, FlowNames, flowVars
  <2> QED BY <2>1, <2>2, <2>3, <1>1
<1>12. m_Value' = binding /\ flow'["ref"]
  <2>1. CASE Pc(t) = "bind_sriov" BY <2>1, <1>2, <1>3 DEF TypeInv, FlowNames
  <2>2. CASE Pc(t) = "start" BY <2>2, <1>2, <1>3, <1>5 DEF StageInv, TypeInv, FlowNames
  <2>3. CASE Pc(t) = "started" BY <2>3, <1>2, <1>5 DEF StageInv, flowVars
  <2> QED BY <2>1, <2>2, <2>3, <1>1
<1>13. TypeInv'
  <2>1. UNCHANGED << entry, mutex, objVars, m_BoundAdapter, work, using, pastVars >>
    BY <1>2, Zenon
  <2>2. m_Value' \in Nat
    BY <1>3, <1>12 DEF TypeInv
  <2>3. m_Started' \in BOOLEAN
    BY <1>1, <1>2, <1>3 DEF TypeInv, flowVars
  <2> QED BY <2>1, <2>2, <2>3, <1>3, <1>9, <1>11 DEF TypeInv, objVars, pastVars
<1>14. LinkInv'
  <2>1. entry' = entry /\ m_BoundAdapter' = m_BoundAdapter /\ compatible' = compatible
        /\ lost' = lost /\ binding' = binding
    BY <1>2 DEF objVars, pastVars, LinkInv, BoundIff
  <2>2. m_BoundAdapter' /\ Listed' /\ compatible'
    BY <2>1, <1>10 DEF BoundIff, Listed
  <2>3. flow'["ref"] /\ m_Value' = binding'
    BY <2>1, <1>12
  <2>4. Pc("returner")' = "return" => out'["rx"] > 0
    BY <1>9, <1>11 DEF IInv, LinkInv, Others
  <2>5. ~lost'
    BY <2>1 DEF IInv, LinkInv
  <2> QED BY <2>2, <2>3, <2>4, <2>5, Zenon DEF LinkInv
<1>15. UserInv'
  <2>1. using' = using /\ orphaned' = orphaned /\ leaked' = leaked /\ entry' = entry /\ binding' = binding
    BY <1>2 DEF objVars, pastVars
  <2>2. out["ref"] \in Nat /\ out'["ref"] \in Nat BY <1>3, <1>11 DEF TypeInv, FlowNames
  <2>3. ~orphaned => \A u \in Clients : using[u] # None => m_Value' = using[u]
    <3>1. ~orphaned /\ m_Value # None => m_Value = binding BY DEF IInv, UserInv
    <3>2. ~orphaned => \A u \in Clients : using[u] # None => m_Value = using[u]
      BY DEF IInv, UserInv
    <3> QED BY <3>1, <3>2, <1>12
  <2>4. out'["ref"] >= One(todo["user"] # << >>) + One(todo["returner"] # << >>) + One(leaked)
    <3>1. out["ref"] >= One(todo["user"] # << >>) + One(todo["returner"] # << >>) + One(leaked)
      BY DEF IInv, UserInv
    <3> QED BY <3>1, <2>2, <1>11 DEF One
  <2>5. \A u \in Clients : using[u] # None <=> todo[u] # << >> BY DEF IInv, UserInv
  <2> QED BY <2>1, <2>3, <2>4, <2>5, <1>9, <1>10, <1>12 DEF UserInv, Others, Clients, Listed
<1>16. StageInv(t)'
  <2>1. Pc(t)' = n BY <1>9
  <2>2. CASE n = "start"
    <3>1. Even BY <2>2, <1>8, <1>5 DEF StageInv, EvenOps
    <3>2. ~Flowing' /\ ~m_Started' /\ flow'["tx"] = flow["tx"] /\ flow'["rx"] = flow["rx"]
      BY <3>1, <2>2, <1>2, <1>3, <1>8, <1>10, <1>11 DEF Even, Flowing, TypeInv, FlowNames
    <3>3. Even' BY <3>1, <3>2, <1>2, <2>2, <1>8 DEF Even
    <3>4. BoundIff' BY <1>2, <1>10 DEF BoundIff, Listed, objVars
    <3> HIDE DEF Even, BoundIff, Flowing
    <3> QED BY <2>1, <2>2, <3>2, <3>3, <3>4, <1>2, <1>10, <1>12 DEF StageInv, StopOps, objVars
  <2>3. CASE n = "started"
    <3>1. BoundIff' BY <1>2, <1>10 DEF BoundIff, Listed, objVars
    <3>2. flow'["tx"] /\ flow'["rx"] /\ ~m_Started'
      BY <2>3, <1>2, <1>3, <1>8, <1>10 DEF TypeInv, FlowNames
    <3> HIDE DEF Even, BoundIff, Flowing
    <3> QED BY <2>1, <2>3, <3>1, <3>2, <1>2, <1>10, <1>12 DEF StageInv, StopOps, EvenOps, objVars
  <2>4. CASE n = "unlock"
    <3>1. BoundIff' BY <1>2, <1>10 DEF BoundIff, Listed, objVars
    <3>2. flow'["tx"] /\ flow'["rx"] /\ m_Started'
      BY <2>4, <1>2, <1>5, <1>8 DEF StageInv, flowVars
    <3>3. Even' BY <3>2, <1>12, <1>2, <1>11 DEF Even, objVars
    <3> HIDE DEF Even, BoundIff, Flowing
    <3> QED BY <2>1, <2>4, <3>1, <3>3 DEF StageInv, StopOps
  <2> QED BY <2>2, <2>3, <2>4, <1>8
<1>17. n \in Inside BY <1>8 DEF Inside
<1>18. TodoInv' /\ MutexInv' /\ CalmInv' /\ StagesInv' /\ RefsInv'
  BY <1>2, <1>4, <1>8, <1>16, <1>17, InnerKeeps
<1>19. BindInv'
  <2>1. /\ n \notin {"lock", "add_binding", "add_adapter", "idle", "release"}
        /\ Pc(t) \notin {"lock", "add_binding"} /\ k # "unbind"
    BY <1>1, <1>7, <1>8
  <2>2. entry' = entry /\ binding' = binding /\ open' = open BY <1>2 DEF objVars
  <2> QED BY <2>1, <2>2, <1>6, <1>8, BindKeeps
<1>20. UpInv'
  <2>1. CASE n = "unlock"
    <3>1. m_Started' BY <2>1, <1>2, <1>8
    <3> QED BY <3>1 DEF UpInv
  <2>2. CASE n # "unlock"
    <3>1. Pc(t)' \in LateOps BY <2>2, <1>8, <1>9 DEF LateOps
    <3> QED BY <3>1 DEF UpInv
  <2> QED BY <2>1, <2>2
<1> QED BY <1>13, <1>14, <1>15, <1>18, <1>19, <1>20 DEF IInv
(* The thread that unbinds or binds the function comes to n.               *)
LEMMA VfKeeps ==
  ASSUME IInv, NEW k \in {"bind", "unbind"}, NEW n, Goes("vf", k, n),
         entry'.adapter = entry.adapter,
         Listed' => entry'.binding = binding' /\ open',
         open' => binding' # None,
         n = "idle" => (open' => Listed'),
         k = "bind" /\ n # "idle" => open' /\ (Listed' <=> n \notin {"lock", "add_binding"}),
         k = "unbind" /\ n # "idle" =>
           (Listed' <=> n \notin {"unlock", "close", "release"}) /\ (open' <=> n # "release"),
         todo["status"] # << >> => open'
  PROVE  BindInv'
<1>1. TypeInv /\ BindInv /\ "vf" \in Lockers /\ k \in Kinds["vf"] BY DEF IInv, Lockers, Kinds
<1>2. /\ Pc("vf")' = n
      /\ \A u \in Lockers \ {"vf"} : Pc(u)' = Pc(u) /\ todo'[u] = todo[u]
      /\ todo'["status"] = todo["status"]
  BY <1>1, Frame
<1>3. /\ n # "idle" => (Binding' <=> k = "bind") /\ (Unbinding' <=> k = "unbind")
      /\ n = "idle" => ~Binding' /\ ~Unbinding'
  BY <1>1, VfGoes
<1>4. Pc("adapter")' = Pc("adapter") /\ todo'["adapter"] = todo["adapter"] BY <1>2 DEF Lockers
<1>5. Path("add", todo'["adapter"]) /\ Pc("adapter")' \in {"lock", "add_adapter"} => ~entry'.adapter
  BY <1>1, <1>4 DEF BindInv
<1>6. /\ Pc("vf")' = "idle" => (open' => Listed')
      /\ Binding' => open' /\ (Listed' <=> Pc("vf")' \notin {"lock", "add_binding"})
  BY <1>2, <1>3
<1>7. Unbinding' => /\ Listed' <=> Pc("vf")' \notin {"unlock", "close", "release"}
                    /\ open' <=> Pc("vf")' # "release"
  BY <1>2, <1>3
<1> HIDE DEF Listed
<1> QED BY <1>2, <1>5, <1>6, <1>7 DEF BindInv, Binding, Unbinding

LEMMA HaltedStep ==
  ASSUME IInv, NEW t \in Lockers, OnAdapterHalted(t)
  PROVE  IInv'
<1>1. /\ todo[t] # << >> /\ Pc(t) = "halted"
      /\ Then(t, When(m_Started, FlowsOff) \o << "unstart", "unbound" >>)
  BY DEF OnAdapterHalted, At, Pc
<1>2. UNCHANGED << entry, mutex, objVars, bindVars, flowVars, work, using, boundVars, pastVars >>
  BY DEF OnAdapterHalted
<1>3. TypeInv /\ TodoInv /\ t \in Threads BY DEF IInv, Threads, Lockers
<1>4. Pc(t) \in Inside BY <1>1 DEF Inside
<1>5. mutex = t /\ StageInv(t) BY <1>4, Holds DEF IInv, StagesInv
<1>6. PICK k \in Kinds[t] : Path(k, todo[t]) /\ \E n : Follows(k, Pc(t), n) BY <1>1, Doing
<1>7. k = "remove" BY <1>1, <1>6 DEF Follows, Attaching, Stopping
<1>8. t = "adapter" BY <1>6, <1>7, KindsAre
<1>9. \A n : Follows(k, Pc(t), n) => Follows(k, "unbound", n)
  BY <1>1, <1>7 DEF Follows, Attaching, Stopping
<1>10. PICK n : /\ Goes(t, k, n)
                /\ (m_Started /\ n = "stop_tx") \/ (~m_Started /\ n = "unstart")
  <2>1. CASE m_Started
    <3>1. Then(t, FlowsOff \o << "unstart", "unbound" >>) BY <2>1, <1>1 DEF When
    <3>2. Chain(k, FlowsOff \o << "unstart", "unbound" >>, "stop_tx", "unbound") BY <1>7, HaltChain
    <3>3. Goes(t, k, "stop_tx") BY <3>1, <3>2, <1>3, <1>6, <1>9, PushChain
    <3> QED BY <2>1, <3>3
  <2>2. CASE ~m_Started
    <3>1. Then(t, << >> \o << "unstart", "unbound" >>) BY <2>2, <1>1 DEF When
    <3>2. Chain(k, << >> \o << "unstart", "unbound" >>, "unstart", "unbound") BY <1>7, HaltChain
    <3>3. Goes(t, k, "unstart") BY <3>1, <3>2, <1>3, <1>6, <1>9, PushChain
    <3> QED BY <2>2, <3>3
  <2> QED BY <2>1, <2>2
<1>11. Pc(t)' = n /\ todo' \in [Threads -> Seq(Ops)] /\ Others(t) BY <1>10, Frame DEF Others
<1>12. n \in StopOps /\ n \in Inside BY <1>10 DEF StopOps, Inside
<1>13. TypeInv' BY <1>2, <1>3, <1>11 DEF TypeInv, objVars, bindVars, flowVars, pastVars
<1>14. Even /\ Listed /\ ~entry.adapter BY <1>1, <1>5, <1>8 DEF StageInv, EvenOps
<1>15. /\ Even' /\ Listed' /\ ~entry'.adapter /\ m_Started' = m_Started
       /\ ~m_Started => ~Flowing'
  BY <1>2, <1>14 DEF Even, Listed, Flowing, objVars, bindVars, flowVars
<1>16. StageInv(t)'
  <2>1. CASE n = "stop_tx"
    <3> HIDE DEF Flowing, Listed, Even
    <3> QED BY <2>1, <1>11, <1>15, <1>8 DEF StageInv, EvenOps, BoundOps
  <2>2. CASE n = "unstart"
    <3>1. ~Flowing' BY <2>2, <1>10, <1>15
    <3> HIDE DEF Flowing, Listed, Even
    <3> QED BY <2>2, <3>1, <1>11, <1>15, <1>8 DEF StageInv, EvenOps, BoundOps
  <2> QED BY <2>1, <2>2, <1>10
<1>17. TodoInv' /\ MutexInv' /\ CalmInv' /\ StagesInv' /\ RefsInv'
  BY <1>2, <1>4, <1>10, <1>12, <1>16, InnerKeeps
<1>18. BindInv'
  <2>1. /\ n \notin {"lock", "add_binding", "add_adapter", "idle", "release"}
        /\ Pc(t) \notin {"lock", "add_binding"} /\ k # "unbind" /\ t # "vf"
    BY <1>1, <1>7, <1>8, <1>10
  <2>2. entry' = entry /\ binding' = binding /\ open' = open BY <1>2 DEF objVars
  <2> QED BY <2>1, <2>2, <1>6, <1>10, BindKeeps
<1>19. LinkInv'
  BY <1>2, <1>11 DEF IInv, LinkInv, Flowing, Listed, Others, objVars, bindVars, flowVars, pastVars
<1>20. UpInv'
  <2>1. Pc(t)' \in LateOps BY <1>11, <1>12 DEF LateOps
  <2> QED BY <2>1 DEF UpInv
<1>21. UserInv'
  BY <1>2, <1>11 DEF IInv, UserInv, Others, Clients, Listed, One, objVars, flowVars, pastVars
<1> QED BY <1>13, <1>17, <1>18, <1>19, <1>20, <1>21 DEF IInv

LEMMA DetachStep ==
  ASSUME IInv, NEW t \in Lockers, OnAdapterDetach(t)
  PROVE  IInv'
<1>1. /\ todo[t] # << >> /\ Pc(t) = "detach"
      /\ Then(t, When(m_Started, FlowsOff \o Stop("ref") \o << "unref", "unstart" >>)
                   \o << "unbound", "unlist" >>)
      /\ orphaned' = (orphaned \/ (~m_Started /\ m_Value = binding))
  BY DEF OnAdapterDetach, At, Pc
<1>2. UNCHANGED << entry, mutex, objVars, bindVars, flowVars, work, using, boundVars, unheard, leaked, lost >>
  BY DEF OnAdapterDetach
<1>3. TypeInv /\ TodoInv /\ t \in Threads BY DEF IInv, Threads, Lockers
<1>4. Pc(t) \in Inside BY <1>1 DEF Inside
<1>5. mutex = t /\ StageInv(t) BY <1>4, Holds DEF IInv, StagesInv
<1>6. PICK k \in Kinds[t] : Path(k, todo[t]) /\ \E n : Follows(k, Pc(t), n) BY <1>1, Doing
<1>7. k = "unbind" BY <1>1, <1>6 DEF Follows, Attaching, Stopping
<1>8. t = "vf" BY <1>6, <1>7, KindsAre
<1>9. \A n : Follows(k, Pc(t), n) => Follows(k, "unlist", n)
  BY <1>1, <1>7 DEF Follows, Attaching, Stopping
<1>10. PICK n : /\ Goes(t, k, n)
                /\ (m_Started /\ n = "stop_tx") \/ (~m_Started /\ n = "unbound")
  <2>1. CASE m_Started
    <3>1. Then(t, (FlowsOff \o Stop("ref") \o << "unref", "unstart" >>) \o << "unbound", "unlist" >>)
      BY <2>1, <1>1 DEF When
    <3>2. Chain(k, (FlowsOff \o Stop("ref") \o << "unref", "unstart" >>) \o << "unbound", "unlist" >>,
                "stop_tx", "unlist")
      BY <1>7, DetachChain
    <3>3. Goes(t, k, "stop_tx") BY <3>1, <3>2, <1>3, <1>6, <1>9, PushChain
    <3> QED BY <2>1, <3>3
  <2>2. CASE ~m_Started
    <3>1. Then(t, << >> \o << "unbound", "unlist" >>) BY <2>2, <1>1 DEF When
    <3>2. Chain(k, << >> \o << "unbound", "unlist" >>, "unbound", "unlist") BY <1>7, DetachChain
    <3>3. Goes(t, k, "unbound") BY <3>1, <3>2, <1>3, <1>6, <1>9, PushChain
    <3> QED BY <2>2, <3>3
  <2> QED BY <2>1, <2>2
<1>11. Pc(t)' = n /\ todo' \in [Threads -> Seq(Ops)] /\ Others(t) BY <1>10, Frame DEF Others
<1>12. n \in StopOps /\ n \in Inside BY <1>10 DEF StopOps, Inside
<1>o. orphaned' \in BOOLEAN /\ (orphaned => orphaned') BY <1>1, <1>3 DEF TypeInv
<1>13. TypeInv'
  BY <1>2, <1>3, <1>11, <1>o DEF TypeInv, objVars, bindVars, flowVars
<1>14. Even /\ Listed
  <2>1. Path("unbind", todo["vf"]) /\ Pc("vf") = "detach" BY <1>1, <1>6, <1>7, <1>8
  <2> QED BY <2>1, <1>1, <1>5, <1>8 DEF StageInv, EvenOps, IInv, BindInv
<1>15. /\ Even' /\ Listed' /\ m_Started' = m_Started /\ m_Value' = m_Value
       /\ ~m_Started => ~Flowing'
  BY <1>2, <1>14 DEF Even, Listed, Flowing, objVars, bindVars, flowVars
<1>16. StageInv(t)'
  <2>1. CASE n = "stop_tx"
    <3> HIDE DEF Flowing, Listed, Even
    <3> QED BY <2>1, <1>11, <1>15, <1>8 DEF StageInv, EvenOps, BoundOps
  <2>2. CASE n = "unbound"
    <3>1. ~Flowing' /\ ~m_Started' BY <2>2, <1>10, <1>15
    <3>2. ~orphaned' => m_Value' = None
      BY <2>2, <1>1, <1>10, <1>15 DEF IInv, UserInv
    <3> HIDE DEF Flowing, Listed, Even
    <3> QED BY <2>2, <3>1, <3>2, <1>11, <1>15, <1>8 DEF StageInv, EvenOps, BoundOps
  <2> QED BY <2>1, <2>2, <1>10
<1>17. TodoInv' /\ MutexInv' /\ CalmInv' /\ StagesInv' /\ RefsInv'
  BY <1>2, <1>4, <1>10, <1>12, <1>16, InnerKeeps
<1>18. BindInv'
  <2>1. /\ n \notin {"lock", "add_binding", "add_adapter", "idle", "release", "unlock", "close"}
        /\ Pc("vf") \notin {"release", "unlock", "close"}
    BY <1>1, <1>8, <1>10
  <2>2. entry' = entry /\ binding' = binding /\ open' = open BY <1>2 DEF objVars
  <2> QED BY <2>1, <2>2, <1>6, <1>7, <1>10, BindKeeps
<1>19. LinkInv'
  BY <1>2, <1>11 DEF IInv, LinkInv, Flowing, Listed, Others, objVars, bindVars, flowVars
<1>20. UpInv'
  <2>1. Pc(t)' \in LateOps BY <1>11, <1>12 DEF LateOps
  <2> QED BY <2>1 DEF UpInv
<1>21. UserInv'
  BY <1>2, <1>o, <1>11 DEF IInv, UserInv, Others, Clients, Listed, One, objVars, flowVars
<1> QED BY <1>13, <1>17, <1>18, <1>19, <1>20, <1>21 DEF IInv
(* What halting and detaching undo, one thing after the other.             *)
LEMMA UnrefStep ==
  ASSUME IInv, NEW t \in Lockers, At(t, "unref"), m_Value' = None, UNCHANGED << bindVars, entry >>,
         Then(t, << >>),
         UNCHANGED << mutex, objVars, flow, out, work, using, boundVars, pastVars >>
  PROVE  IInv'
<1>1. todo[t] # << >> /\ Pc(t) = "unref" BY DEF At, Pc
<1>3. TypeInv /\ TodoInv /\ t \in Threads BY DEF IInv, Threads, Lockers
<1>4. Pc(t) \in Inside BY <1>1 DEF Inside
<1>5. mutex = t /\ StageInv(t) BY <1>4, Holds DEF IInv, StagesInv
<1>6. PICK k \in Kinds[t] : Path(k, todo[t]) /\ \E n : Follows(k, Pc(t), n) BY <1>1, Doing
<1>7. k = "unbind" BY <1>1, <1>6 DEF Follows, Attaching, Stopping
<1>8. t = "vf" BY <1>6, <1>7, KindsAre
<1>9. \A n : Follows(k, Pc(t), n) <=> n = "unstart"
  BY <1>1, <1>7 DEF Follows, Attaching, Stopping
<1>10. PICK n : n = "unstart" /\ Goes(t, k, n) BY <1>1, <1>3, <1>6, <1>9, AdvanceTo
<1>11. Pc(t)' = n /\ todo' \in [Threads -> Seq(Ops)] /\ Others(t) BY <1>10, Frame DEF Others
<1>12. n \in Inside BY <1>10 DEF Inside
<1>13. TypeInv' BY <1>3, <1>11 DEF TypeInv, objVars, bindVars, pastVars, None
<1>14. ~Flowing /\ Listed /\ out["ref"] = 0 BY <1>1, <1>5 DEF StageInv, StopOps
<1>15. ~Flowing' /\ Listed' BY <1>14 DEF Flowing, Listed
<1>16. StageInv(t)'
  <2> HIDE DEF Flowing, Listed
  <2> QED BY <1>8, <1>10, <1>11, <1>15 DEF StageInv, EvenOps, BoundOps
<1>17. TodoInv' /\ MutexInv' /\ CalmInv' /\ StagesInv' /\ RefsInv'
  BY <1>4, <1>10, <1>12, <1>16, InnerKeeps
<1>18. BindInv'
  <2>1. Pc("vf") \notin {"release", "unlock", "close"} BY <1>1, <1>8
  <2>2. entry' = entry /\ binding' = binding /\ open' = open BY DEF objVars
  <2> QED BY <2>1, <2>2, <1>6, <1>7, <1>10, BindKeeps
<1>19. LinkInv'
  <2>1. Listed' = Listed BY DEF Listed
  <2> HIDE DEF Flowing, Listed
  <2> QED BY <2>1, <1>11, <1>15 DEF IInv, LinkInv, Others, objVars, bindVars, pastVars
<1>20. UpInv'
  <2>1. Pc(t)' \in LateOps BY <1>10, <1>11 DEF LateOps, StopOps
  <2> QED BY <2>1 DEF UpInv
<1>21. UserInv'
  <2>1. todo["user"] = << >> /\ todo["returner"] = << >> BY <1>14 DEF IInv, UserInv, One
  <2>2. \A u \in Clients : using[u] = None BY <2>1 DEF IInv, UserInv, Clients
  <2> QED BY <2>2, <1>11 DEF IInv, UserInv, Others, Clients, Listed, One, objVars, pastVars
<1> QED BY <1>13, <1>17, <1>18, <1>19, <1>20, <1>21 DEF IInv

LEMMA UnstartStep ==
  ASSUME IInv, NEW t \in Lockers, At(t, "unstart"), m_Started' = FALSE,
         UNCHANGED << m_BoundAdapter, m_Value, entry >>, Then(t, << >>),
         UNCHANGED << mutex, objVars, flow, out, work, using, boundVars, pastVars >>
  PROVE  IInv'
<1>1. todo[t] # << >> /\ Pc(t) = "unstart" BY DEF At, Pc
<1>3. TypeInv /\ TodoInv /\ t \in Threads BY DEF IInv, Threads, Lockers
<1>4. Pc(t) \in Inside BY <1>1 DEF Inside
<1>5. mutex = t /\ StageInv(t) BY <1>4, Holds DEF IInv, StagesInv
<1>6. PICK k \in Kinds[t] : Path(k, todo[t]) /\ \E n : Follows(k, Pc(t), n) BY <1>1, Doing
<1>7. k \in {"unbind", "remove"} BY <1>1, <1>6 DEF Follows, Attaching, Stopping
<1>9. \A n : Follows(k, Pc(t), n) <=> n = "unbound"
  BY <1>1, <1>7 DEF Follows, Attaching, Stopping
<1>10. PICK n : n = "unbound" /\ Goes(t, k, n) BY <1>1, <1>3, <1>6, <1>9, AdvanceTo
<1>11. Pc(t)' = n /\ todo' \in [Threads -> Seq(Ops)] /\ Others(t) BY <1>10, Frame DEF Others
<1>12. n \in Inside BY <1>10 DEF Inside
<1>13. TypeInv' BY <1>3, <1>11 DEF TypeInv, objVars, pastVars
<1>14. ~Flowing /\ Listed /\ (t = "adapter" => ~entry.adapter) BY <1>1, <1>5 DEF StageInv, StopOps
<1>15. ~Flowing' /\ Listed' /\ (t = "adapter" => ~entry'.adapter) BY <1>14 DEF Flowing, Listed
<1>m. t = "vf" => (~orphaned => m_Value = None) BY <1>1, <1>5 DEF StageInv
<1>n. orphaned' = orphaned /\ m_Value' = m_Value BY DEF pastVars
<1>16. StageInv(t)'
  <2> HIDE DEF Flowing, Listed
  <2> QED BY <1>10, <1>11, <1>15, <1>m, <1>n DEF StageInv, EvenOps, BoundOps
<1>17. TodoInv' /\ MutexInv' /\ CalmInv' /\ StagesInv' /\ RefsInv'
  BY <1>4, <1>10, <1>12, <1>16, InnerKeeps
<1>18. BindInv'
  <2>1. /\ Pc(t) \notin {"release", "unlock", "close", "lock", "add_binding", "add_adapter"}
        /\ n \notin {"release", "unlock", "close", "lock", "add_binding", "add_adapter", "idle"}
        /\ k # "bind"
    BY <1>1, <1>7, <1>10
  <2>2. entry' = entry /\ binding' = binding /\ open' = open BY DEF objVars
  <2> QED BY <2>1, <2>2, <1>6, <1>10, BindKeeps
<1>19. LinkInv'
  <2>1. Listed' = Listed BY DEF Listed
  <2> HIDE DEF Flowing, Listed
  <2> QED BY <2>1, <1>11, <1>15 DEF IInv, LinkInv, Others, objVars, pastVars
<1>20. UpInv'
  <2>1. Pc(t)' \in LateOps BY <1>10, <1>11 DEF LateOps, StopOps
  <2> QED BY <2>1 DEF UpInv
<1>21. UserInv'
  BY <1>11 DEF IInv, UserInv, Others, Clients, Listed, One, objVars, pastVars
<1> QED BY <1>13, <1>17, <1>18, <1>19, <1>20, <1>21 DEF IInv

LEMMA UnboundStep ==
  ASSUME IInv, NEW t \in Lockers, At(t, "unbound"), m_BoundAdapter' = FALSE,
         UNCHANGED << m_Started, m_Value, entry >>, Then(t, << >>),
         UNCHANGED << mutex, objVars, flow, out, work, using, boundVars, pastVars >>
  PROVE  IInv'
<1>1. todo[t] # << >> /\ Pc(t) = "unbound" BY DEF At, Pc
<1>3. TypeInv /\ TodoInv /\ t \in Threads BY DEF IInv, Threads, Lockers
<1>4. Pc(t) \in Inside BY <1>1 DEF Inside
<1>5. mutex = t /\ StageInv(t) BY <1>4, Holds DEF IInv, StagesInv
<1>6. PICK k \in Kinds[t] : Path(k, todo[t]) /\ \E n : Follows(k, Pc(t), n) BY <1>1, Doing
<1>7. k \in {"unbind", "remove"} BY <1>1, <1>6 DEF Follows, Attaching, Stopping
<1>8. (k = "unbind" /\ t = "vf") \/ (k = "remove" /\ t = "adapter") BY <1>6, <1>7, KindsAre
<1>10. PICK n : /\ Goes(t, k, n)
                /\ (k = "unbind" /\ n = "unlist") \/ (k = "remove" /\ n = "unlock")
  <2>1. CASE k = "unbind"
    <3>1. \A n : Follows(k, Pc(t), n) <=> n = "unlist" BY <2>1, <1>1 DEF Follows, Attaching, Stopping
    <3>2. Goes(t, k, "unlist") BY <3>1, <1>1, <1>3, <1>6, AdvanceTo
    <3> QED BY <2>1, <3>2
  <2>2. CASE k = "remove"
    <3>1. \A n : Follows(k, Pc(t), n) <=> n = "unlock" BY <2>2, <1>1 DEF Follows, Attaching, Stopping
    <3>2. Goes(t, k, "unlock") BY <3>1, <1>1, <1>3, <1>6, AdvanceTo
    <3> QED BY <2>2, <3>2
  <2> QED BY <2>1, <2>2, <1>7
<1>11. Pc(t)' = n /\ todo' \in [Threads -> Seq(Ops)] /\ Others(t) BY <1>10, Frame DEF Others
<1>12. n \in Inside BY <1>10 DEF Inside
<1>13. TypeInv' BY <1>3, <1>11 DEF TypeInv, objVars, pastVars
<1>14. /\ ~Flowing /\ Listed /\ ~m_Started
       /\ t = "adapter" => ~entry.adapter
       /\ t = "vf" => (~orphaned => m_Value = None)
  BY <1>1, <1>5 DEF StageInv, StopOps
<1>15. ~Flowing' /\ Listed' /\ (t = "adapter" => ~entry'.adapter) BY <1>14 DEF Flowing, Listed
<1>n. orphaned' = orphaned /\ m_Value' = m_Value /\ m_Started' = m_Started BY DEF pastVars
<1>16. StageInv(t)'
  <2>1. CASE n = "unlist"
    <3>1. t = "vf" BY <2>1, <1>8, <1>10
    <3> HIDE DEF Flowing, Listed
    <3> QED BY <2>1, <3>1, <1>11, <1>14, <1>15, <1>n DEF StageInv, EvenOps, BoundOps, StopOps
  <2>2. CASE n = "unlock"
    <3>1. t = "adapter" BY <2>2, <1>8, <1>10
    <3>2. flow["tx"] = FALSE /\ flow["rx"] = FALSE BY <1>3, <1>14 DEF Flowing, TypeInv, FlowNames
    <3>m. m_Started' = FALSE BY <1>14, <1>13, <1>n DEF TypeInv
    <3>3. Even' BY <3>2, <3>m, <1>15 DEF Even
    <3>4. BoundIff' BY <3>1, <1>15 DEF BoundIff
    <3> HIDE DEF Even, BoundIff
    <3> QED BY <2>2, <3>3, <3>4, <1>11 DEF StageInv, StopOps
  <2> QED BY <2>1, <2>2, <1>10
<1>17. TodoInv' /\ MutexInv' /\ CalmInv' /\ StagesInv' /\ RefsInv'
  BY <1>4, <1>10, <1>12, <1>16, InnerKeeps
<1>18. BindInv'
  <2>1. /\ Pc(t) \notin {"release", "unlock", "close", "lock", "add_binding", "add_adapter"}
        /\ n \notin {"release", "close", "lock", "add_binding", "add_adapter", "idle"}
        /\ k # "bind" /\ (t = "vf" => n = "unlist")
    BY <1>1, <1>7, <1>8, <1>10
  <2>2. entry' = entry /\ binding' = binding /\ open' = open BY DEF objVars
  <2> QED BY <2>1, <2>2, <1>6, <1>10, BindKeeps
<1>19. LinkInv'
  <2>1. Listed' = Listed BY DEF Listed
  <2> HIDE DEF Flowing, Listed
  <2> QED BY <2>1, <1>11, <1>14, <1>15, <1>n DEF IInv, LinkInv, Others, objVars, pastVars
<1>20. UpInv' BY DEF UpInv
<1>21. UserInv'
  BY <1>11 DEF IInv, UserInv, Others, Clients, Listed, One, objVars, pastVars
<1> QED BY <1>13, <1>17, <1>18, <1>19, <1>20, <1>21 DEF IInv

LEMMA UnlistStep ==
  ASSUME IInv, NEW t \in Lockers, At(t, "unlist"), entry' = [entry EXCEPT !.binding = None],
         UNCHANGED << bindVars, m_Value >>, Then(t, << >>),
         UNCHANGED << mutex, objVars, flow, out, work, using, boundVars, pastVars >>
  PROVE  IInv'
<1>1. todo[t] # << >> /\ Pc(t) = "unlist" BY DEF At, Pc
<1>3. TypeInv /\ TodoInv /\ t \in Threads BY DEF IInv, Threads, Lockers
<1>4. Pc(t) \in Inside BY <1>1 DEF Inside
<1>5. mutex = t /\ StageInv(t) BY <1>4, Holds DEF IInv, StagesInv
<1>6. PICK k \in Kinds[t] : Path(k, todo[t]) /\ \E n : Follows(k, Pc(t), n) BY <1>1, Doing
<1>7. k = "unbind" BY <1>1, <1>6 DEF Follows, Attaching, Stopping
<1>8. t = "vf" BY <1>6, <1>7, KindsAre
<1>9. \A n : Follows(k, Pc(t), n) <=> n = "unlock"
  BY <1>1, <1>7 DEF Follows, Attaching, Stopping
<1>10. PICK n : n = "unlock" /\ Goes(t, k, n) BY <1>1, <1>3, <1>6, <1>9, AdvanceTo
<1>11. Pc(t)' = n /\ todo' \in [Threads -> Seq(Ops)] /\ Others(t) BY <1>10, Frame DEF Others
<1>12. n \in Inside BY <1>10 DEF Inside
<1>e. /\ entry' \in [adapter : BOOLEAN, binding : Nat] /\ entry'.adapter = entry.adapter
      /\ entry'.binding = None
  BY <1>3 DEF TypeInv, None
<1>l. ~Listed' BY <1>e DEF Listed
<1>13. TypeInv' BY <1>3, <1>11, <1>e DEF TypeInv, objVars, bindVars, pastVars
<1>14. /\ ~Flowing /\ ~m_Started /\ ~m_BoundAdapter /\ (~orphaned => m_Value = None)
  BY <1>1, <1>5, <1>8 DEF StageInv
<1>15. /\ ~Flowing' /\ ~m_Started' /\ ~m_BoundAdapter' /\ (~orphaned' => m_Value' = None)
       /\ flow'["tx"] = FALSE /\ flow'["rx"] = FALSE
  BY <1>3, <1>14 DEF Flowing, TypeInv, FlowNames, bindVars, pastVars
<1>16. StageInv(t)'
  <2>m. m_Started' = FALSE BY <1>13, <1>15 DEF TypeInv
  <2>1. Even' BY <2>m, <1>15 DEF Even
  <2>2. BoundIff' BY <1>15, <1>l DEF BoundIff
  <2> HIDE DEF Even, BoundIff
  <2> QED BY <2>1, <2>2, <1>10, <1>11 DEF StageInv, StopOps
<1>17. TodoInv' /\ MutexInv' /\ CalmInv' /\ StagesInv' /\ RefsInv'
  BY <1>4, <1>10, <1>12, <1>16, InnerKeeps
<1>18. BindInv'
  <2>1. open' = open /\ binding' = binding /\ open /\ binding # None
    BY <1>1, <1>6, <1>7, <1>8 DEF IInv, BindInv, objVars
  <2> QED BY <2>1, <1>e, <1>l, <1>7, <1>8, <1>10, VfKeeps
<1>19. LinkInv'
  <2> HIDE DEF Flowing, Listed
  <2> QED BY <1>11, <1>15 DEF IInv, LinkInv, Others, pastVars
<1>20. UpInv' BY <1>15 DEF UpInv
<1>21. UserInv'
  <2>1. todo'["user"] = todo["user"] /\ todo'["returner"] = todo["returner"] BY <1>11 DEF Others
  <2>2. orphaned' = orphaned /\ leaked' = leaked BY DEF pastVars
  <2> QED BY <2>1, <2>2, <1>15 DEF IInv, UserInv, Clients, One
<1> QED BY <1>13, <1>17, <1>18, <1>19, <1>20, <1>21 DEF IInv

LEMMA UnsetStep ==
  ASSUME IInv, NEW t \in Lockers, Unset(t)
  PROVE  IInv'
BY UnrefStep, UnstartStep, UnboundStep, UnlistStep DEF Unset
-----------------------------------------------------------------------------
(* What the adapter is about to do at the start tells which it does.       *)
LEMMA AdapterKeeps ==
  ASSUME IInv, NEW k \in {"add", "remove"}, NEW n, Goes("adapter", k, n),
         entry'.binding = entry.binding, binding' = binding, open' = open,
         k = "add" /\ n \in {"lock", "add_adapter"} => ~entry'.adapter
  PROVE  BindInv'
<1>1. TypeInv /\ BindInv /\ "adapter" \in Lockers /\ k \in Kinds["adapter"] BY DEF IInv, Lockers, Kinds
<1>2. /\ Pc("adapter")' = n
      /\ \A u \in Lockers \ {"adapter"} : Pc(u)' = Pc(u) /\ todo'[u] = todo[u]
      /\ todo'["status"] = todo["status"] /\ todo' \in [Threads -> Seq(Ops)]
  BY <1>1, Frame
<1>3. Pc("vf")' = Pc("vf") /\ todo'["vf"] = todo["vf"] BY <1>2 DEF Lockers
<1>4. (Binding' <=> Binding) /\ (Unbinding' <=> Unbinding) BY <1>3 DEF Binding, Unbinding
<1>5. Path("add", todo'["adapter"]) /\ n \in {"lock", "add_adapter"} => k = "add"
  <2>1. SUFFICES ASSUME Path("add", todo'["adapter"]), n \in {"lock", "add_adapter"}, k = "remove"
                 PROVE  FALSE
    OBVIOUS
  <2>2. PICK s \in Seq(Ops) : s = todo'["adapter"] BY <1>2 DEF Threads
  <2>3. n # "idle" BY <2>1
  <2>4. Path("remove", s) /\ Head(s) = n BY <2>1, <2>2, <2>3 DEF Goes
  <2>5. Path("add", s) BY <2>1, <2>2
  <2>6. s # << >> /\ Head(s) = s[1] /\ Len(s) \in Nat \ {0} BY <2>5, LenZero DEF Path
  <2>7. PICK e : e = IF 1 < Len(s) THEN s[2] ELSE "end" OBVIOUS
  <2>8. Follows("add", n, e) /\ Follows("remove", n, e) BY <2>4, <2>5, <2>6, <2>7 DEF Path
  <2> QED BY <2>8, <2>1 DEF Follows, Attaching, Stopping
<1>6. Path("add", todo'["adapter"]) /\ Pc("adapter")' \in {"lock", "add_adapter"} => ~entry'.adapter
  BY <1>2, <1>5
<1>7. /\ Listed' <=> Listed
      /\ Listed => entry.binding = binding /\ open
      /\ open => binding # None
      /\ todo["status"] # << >> => open
  BY <1>1 DEF BindInv, Listed
<1>8. /\ Pc("vf") = "idle" => (open => Listed)
      /\ Binding => open /\ (Listed <=> Pc("vf") \notin {"lock", "add_binding"})
      /\ Unbinding => (Listed <=> Pc("vf") \notin {"unlock", "close", "release"})
                      /\ (open <=> Pc("vf") # "release")
  BY <1>1 DEF BindInv, Binding, Unbinding
<1> HIDE DEF Listed
<1> QED BY <1>2, <1>3, <1>4, <1>6, <1>7, <1>8 DEF BindInv, Binding, Unbinding

LEMMA AddBindingStep ==
  ASSUME IInv, AddBinding
  PROVE  IInv'
<1> DEFINE t == "vf"
<1>1. /\ todo[t] # << >> /\ Pc(t) = "add_binding" /\ t \in Lockers
      /\ entry' = [entry EXCEPT !.binding = binding]
      /\ Then(t, When(entry.adapter, << "found" >>))
  BY DEF AddBinding, At, Pc, Lockers
<1>2. UNCHANGED << mutex, objVars, bindVars, flowVars, work, using, boundVars, pastVars >>
  BY DEF AddBinding
<1>3. TypeInv /\ TodoInv /\ t \in Threads BY DEF IInv, Threads
<1>4. Pc(t) \in Inside BY <1>1 DEF Inside
<1>5. mutex = t /\ StageInv(t) BY <1>1, <1>4, Holds DEF IInv, StagesInv
<1>6. PICK k \in Kinds[t] : Path(k, todo[t]) /\ \E n : Follows(k, Pc(t), n) BY <1>1, Doing
<1>7. k = "bind" BY <1>1, <1>6 DEF Follows, Attaching, Stopping
<1>8. \A n : Follows(k, Pc(t), n) <=> n = "unlock"
  BY <1>1, <1>7 DEF Follows, Attaching, Stopping
<1>9. \A n : Follows(k, "found", n) <=> n = "unlock" BY <1>7 DEF Follows, Attaching, Stopping
<1>10. PICK n : /\ Goes(t, k, n)
                /\ (entry.adapter /\ n = "found") \/ (~entry.adapter /\ n = "unlock")
  <2>1. CASE entry.adapter
    <3>1. Then(t, << "found" >>) BY <2>1, <1>1 DEF When
    <3>2. "found" \in Ops BY DEF Ops
    <3>3. Chain(k, << "found" >>, "found", "found") BY <3>2, Single
    <3>4. Goes(t, k, "found") BY <3>1, <3>3, <1>3, <1>6, <1>8, <1>9, PushChain
    <3> QED BY <2>1, <3>4
  <2>2. CASE ~entry.adapter
    <3>1. Then(t, << >>) BY <2>2, <1>1 DEF When
    <3>2. Goes(t, k, "unlock") BY <3>1, <1>1, <1>3, <1>6, <1>8, AdvanceTo
    <3> QED BY <2>2, <3>2
  <2> QED BY <2>1, <2>2
<1>11. Pc(t)' = n /\ todo' \in [Threads -> Seq(Ops)] /\ Others(t) BY <1>1, <1>10, Frame DEF Others
<1>12. n \in Inside BY <1>10 DEF Inside
<1>e. /\ entry' \in [adapter : BOOLEAN, binding : Nat] /\ entry'.adapter = entry.adapter
      /\ entry'.binding = binding
  BY <1>1, <1>3 DEF TypeInv
<1>13. TypeInv' BY <1>2, <1>3, <1>11, <1>e DEF TypeInv, objVars, bindVars, flowVars, pastVars
<1>b. open /\ ~Listed /\ binding # None
  BY <1>1, <1>6, <1>7 DEF IInv, BindInv
<1>c. open' /\ Listed' /\ binding' = binding /\ open' = open BY <1>2, <1>b, <1>e DEF Listed, objVars
<1>14. ~m_BoundAdapter /\ ~m_Started /\ ~Flowing BY <1>b DEF IInv, LinkInv
<1>15. /\ ~m_BoundAdapter' /\ ~m_Started' /\ ~Flowing' /\ flow' = flow
  BY <1>2, <1>14 DEF Flowing, bindVars, flowVars
<1>16. StageInv(t)'
  <2>1. Even
    BY <1>1, <1>5 DEF StageInv, EvenOps
  <2>2. Even' BY <2>1, <1>2, <1>15 DEF Even, bindVars
  <2>3. n = "unlock" => BoundIff' BY <1>10, <1>15, <1>e DEF BoundIff
  <2>4. n = "found" => entry'.adapter BY <1>10, <1>e
  <2>5. n \in {"found", "unlock"} BY <1>10
  <2> HIDE DEF Even, BoundIff, Listed
  <2> QED BY <2>2, <2>3, <2>4, <2>5, <1>c, <1>11, <1>15 DEF StageInv, StopOps, BoundOps
<1>17. TodoInv' /\ MutexInv' /\ CalmInv' /\ StagesInv' /\ RefsInv'
  BY <1>1, <1>2, <1>4, <1>10, <1>12, <1>16, InnerKeeps
<1>18. BindInv'
  <2>1. n \notin {"idle", "lock", "add_binding"} BY <1>10
  <2> HIDE DEF Listed
  <2> QED BY <2>1, <1>b, <1>c, <1>e, <1>7, <1>10, VfKeeps
<1>19. LinkInv'
  <2> HIDE DEF Flowing, Listed
  <2> QED BY <1>2, <1>11, <1>15 DEF IInv, LinkInv, Others, pastVars, flowVars
<1>20. UpInv' BY <1>15 DEF UpInv
<1>21. UserInv'
  <2>1. todo'["user"] = todo["user"] /\ todo'["returner"] = todo["returner"] BY <1>11 DEF Others
  <2>2. orphaned' = orphaned /\ leaked' = leaked /\ m_Value' = m_Value /\ out' = out /\ using' = using
    BY <1>2 DEF pastVars, flowVars
  <2>3. orphaned \/ m_Value = None BY <1>b DEF IInv, UserInv
  <2> QED BY <2>1, <2>2, <2>3 DEF IInv, UserInv, Clients, One
<1> QED BY <1>13, <1>17, <1>18, <1>19, <1>20, <1>21 DEF IInv

LEMMA RemoveBindingStep ==
  ASSUME IInv, RemoveBinding
  PROVE  IInv'
<1> DEFINE t == "vf"
<1>1. /\ todo[t] # << >> /\ Pc(t) = "remove_binding" /\ t \in Lockers
      /\ entry.adapter => Then(t, << "detach" >>) /\ UNCHANGED << entry, orphaned >>
      /\ ~entry.adapter => /\ entry' = [entry EXCEPT !.binding = None] /\ Then(t, << >>)
                           /\ orphaned' = (orphaned \/ m_Value = binding)
  BY DEF RemoveBinding, At, Pc, Lockers
<1>2. UNCHANGED << mutex, objVars, bindVars, flowVars, work, using, boundVars, unheard, leaked, lost >>
  BY DEF RemoveBinding
<1>3. TypeInv /\ TodoInv /\ t \in Threads BY DEF IInv, Threads
<1>4. Pc(t) \in Inside BY <1>1 DEF Inside
<1>5. mutex = t /\ StageInv(t) BY <1>1, <1>4, Holds DEF IInv, StagesInv
<1>6. PICK k \in Kinds[t] : Path(k, todo[t]) /\ \E n : Follows(k, Pc(t), n) BY <1>1, Doing
<1>7. k = "unbind" BY <1>1, <1>6 DEF Follows, Attaching, Stopping
<1>8. \A n : Follows(k, Pc(t), n) <=> n = "unlock"
  BY <1>1, <1>7 DEF Follows, Attaching, Stopping
<1>9. \A n : Follows(k, "detach", n) <=> n = "unlock" BY <1>7 DEF Follows, Attaching, Stopping
<1>10. PICK n : /\ Goes(t, k, n)
                /\ (entry.adapter /\ n = "detach") \/ (~entry.adapter /\ n = "unlock")
  <2>1. CASE entry.adapter
    <3>1. Then(t, << "detach" >>) BY <2>1, <1>1
    <3>2. "detach" \in Ops BY DEF Ops
    <3>3. Chain(k, << "detach" >>, "detach", "detach") BY <3>2, Single
    <3>4. Goes(t, k, "detach") BY <3>1, <3>3, <1>3, <1>6, <1>8, <1>9, PushChain
    <3> QED BY <2>1, <3>4
  <2>2. CASE ~entry.adapter
    <3>1. Then(t, << >>) BY <2>2, <1>1
    <3>2. Goes(t, k, "unlock") BY <3>1, <1>1, <1>3, <1>6, <1>8, AdvanceTo
    <3> QED BY <2>2, <3>2
  <2> QED BY <2>1, <2>2
<1>11. Pc(t)' = n /\ todo' \in [Threads -> Seq(Ops)] /\ Others(t) BY <1>1, <1>10, Frame DEF Others
<1>12. n \in Inside BY <1>10 DEF Inside
<1>e. /\ entry' \in [adapter : BOOLEAN, binding : Nat] /\ entry'.adapter = entry.adapter
      /\ entry.adapter => entry'.binding = entry.binding
      /\ ~entry.adapter => entry'.binding = None
      /\ orphaned' \in BOOLEAN /\ (orphaned => orphaned')
  <2>1. CASE entry.adapter BY <2>1, <1>1, <1>3 DEF TypeInv
  <2>2. CASE ~entry.adapter BY <2>2, <1>1, <1>3 DEF TypeInv, None
  <2> QED BY <2>1, <2>2
<1>13. TypeInv' BY <1>2, <1>3, <1>11, <1>e DEF TypeInv, objVars, bindVars, flowVars
<1>b. /\ open /\ Listed /\ binding # None /\ entry.binding = binding /\ Even /\ BoundIff
  BY <1>1, <1>5, <1>6, <1>7 DEF IInv, BindInv, StageInv, EvenOps, BoundOps
<1>c. /\ open' /\ binding' = binding /\ Even' /\ m_BoundAdapter' = m_BoundAdapter
      /\ m_Started' = m_Started /\ compatible' = compatible /\ Flowing' = Flowing
  BY <1>2, <1>b DEF Even, Flowing, objVars, bindVars, flowVars
<1>d. /\ entry.adapter => Listed'
      /\ ~entry.adapter => ~Listed' /\ ~m_BoundAdapter /\ ~m_Started /\ ~Flowing
  BY <1>b, <1>e DEF Listed, BoundIff, IInv, LinkInv
<1>f. BoundIff' BY <1>b, <1>c, <1>d, <1>e DEF BoundIff
<1>16. StageInv(t)'
  <2>1. n \in {"detach", "unlock"} /\ (n = "detach" => entry'.adapter) BY <1>10, <1>e
  <2> HIDE DEF Even, BoundIff, Listed
  <2> QED BY <2>1, <1>c, <1>f, <1>11 DEF StageInv, StopOps, BoundOps
<1>17. TodoInv' /\ MutexInv' /\ CalmInv' /\ StagesInv' /\ RefsInv'
  BY <1>1, <1>2, <1>4, <1>10, <1>12, <1>16, InnerKeeps
<1>18. BindInv'
  <2>1. n \notin {"idle", "lock", "add_binding", "close", "release"} BY <1>10
  <2>2. Listed' <=> n # "unlock" BY <1>10, <1>d
  <2>3. Listed' => entry'.binding = binding' BY <1>b, <1>c, <1>d, <1>e
  <2> HIDE DEF Listed
  <2> QED BY <2>1, <2>2, <2>3, <1>b, <1>c, <1>e, <1>7, <1>10, VfKeeps
<1>19. LinkInv'
  <2>1. lost' = lost /\ out' = out /\ m_Value' = m_Value /\ flow' = flow BY <1>2 DEF flowVars
  <2> HIDE DEF Flowing, Listed
  <2> QED BY <2>1, <1>11, <1>c, <1>d DEF IInv, LinkInv, Others
<1>20. UpInv'
  <2>1. Pc(t) \notin LateOps BY <1>1 DEF LateOps, StopOps
  <2>2. \A u \in Lockers : Pc(u) \in LateOps => Pc(u)' \in LateOps BY <2>1, <1>11 DEF Others
  <2>3. Pc("work")' = Pc("work") /\ todo'["status"] = todo["status"] BY <1>11 DEF Others, Lockers
  <2> QED BY <2>2, <2>3, <1>2, <1>c DEF IInv, UpInv, objVars
<1>21. UserInv'
  <2>1. todo'["user"] = todo["user"] /\ todo'["returner"] = todo["returner"] BY <1>11 DEF Others
  <2>2. leaked' = leaked /\ m_Value' = m_Value /\ out' = out /\ using' = using
    BY <1>2 DEF flowVars
  <2>3. ~orphaned' /\ m_Value # None => m_Value = binding /\ Listed'
    <3>1. CASE entry.adapter BY <3>1, <1>1, <1>d DEF IInv, UserInv
    <3>2. CASE ~entry.adapter BY <3>2, <1>1 DEF IInv, UserInv
    <3> QED BY <3>1, <3>2
  <2>4. \A u \in Clients : using[u] # None <=> todo'[u] # << >> BY <2>1 DEF IInv, UserInv, Clients
  <2> HIDE DEF Listed
  <2> QED BY <2>1, <2>2, <2>3, <2>4, <1>c, <1>e DEF IInv, UserInv
<1> QED BY <1>13, <1>17, <1>18, <1>19, <1>20, <1>21 DEF IInv

LEMMA AddAdapterStep ==
  ASSUME IInv, AddAdapter
  PROVE  IInv'
<1> DEFINE t == "adapter"
<1>1. /\ todo[t] # << >> /\ Pc(t) = "add_adapter" /\ t \in Lockers
      /\ entry' = [entry EXCEPT !.adapter = TRUE]
      /\ Then(t, When(Listed, << "found" >>))
  BY DEF AddAdapter, At, Pc, Lockers, Listed
<1>2. UNCHANGED << mutex, objVars, bindVars, flowVars, work, using, boundVars, pastVars >>
  BY DEF AddAdapter
<1>3. TypeInv /\ TodoInv /\ t \in Threads BY DEF IInv, Threads
<1>4. Pc(t) \in Inside BY <1>1 DEF Inside
<1>5. mutex = t /\ StageInv(t) BY <1>1, <1>4, Holds DEF IInv, StagesInv
<1>6. PICK k \in Kinds[t] : Path(k, todo[t]) /\ \E n : Follows(k, Pc(t), n) BY <1>1, Doing
<1>7. k = "add" BY <1>1, <1>6 DEF Follows, Attaching, Stopping
<1>8. \A n : Follows(k, Pc(t), n) <=> n = "unlock"
  BY <1>1, <1>7 DEF Follows, Attaching, Stopping
<1>9. \A n : Follows(k, "found", n) <=> n = "unlock" BY <1>7 DEF Follows, Attaching, Stopping
<1>10. PICK n : /\ Goes(t, k, n)
                /\ (Listed /\ n = "found") \/ (~Listed /\ n = "unlock")
  <2>1. CASE Listed
    <3>1. Then(t, << "found" >>) BY <2>1, <1>1 DEF When
    <3>2. "found" \in Ops BY DEF Ops
    <3>3. Chain(k, << "found" >>, "found", "found") BY <3>2, Single
    <3>4. Goes(t, k, "found") BY <3>1, <3>3, <1>3, <1>6, <1>8, <1>9, PushChain
    <3> QED BY <2>1, <3>4
  <2>2. CASE ~Listed
    <3>1. Then(t, << >>) BY <2>2, <1>1 DEF When
    <3>2. Goes(t, k, "unlock") BY <3>1, <1>1, <1>3, <1>6, <1>8, AdvanceTo
    <3> QED BY <2>2, <3>2
  <2> QED BY <2>1, <2>2
<1>11. Pc(t)' = n /\ todo' \in [Threads -> Seq(Ops)] /\ Others(t) BY <1>1, <1>10, Frame DEF Others
<1>12. n \in Inside BY <1>10 DEF Inside
<1>e. /\ entry' \in [adapter : BOOLEAN, binding : Nat] /\ entry'.adapter /\ entry'.binding = entry.binding
  BY <1>1, <1>3 DEF TypeInv
<1>13. TypeInv' BY <1>2, <1>3, <1>11, <1>e DEF TypeInv, objVars, bindVars, flowVars, pastVars
<1>b. ~entry.adapter /\ BoundIff /\ Even
  BY <1>1, <1>5, <1>6, <1>7 DEF IInv, BindInv, StageInv, EvenOps, BoundOps
<1>c. Listed' = Listed BY <1>e DEF Listed
<1>14. ~m_BoundAdapter /\ ~m_Started /\ ~Flowing BY <1>b DEF IInv, LinkInv, BoundIff
<1>15. /\ ~m_BoundAdapter' /\ ~m_Started' /\ ~Flowing' /\ Even'
  BY <1>2, <1>b, <1>14 DEF Flowing, Even, bindVars, flowVars, objVars
<1>16. StageInv(t)'
  <2>1. n = "unlock" => BoundIff' BY <1>10, <1>15, <1>c DEF BoundIff
  <2>2. n = "found" => Listed' BY <1>10, <1>c
  <2>3. n \in {"found", "unlock"} BY <1>10
  <2> HIDE DEF Even, BoundIff, Listed
  <2> QED BY <2>1, <2>2, <2>3, <1>e, <1>11, <1>15 DEF StageInv, StopOps, BoundOps
<1>17. TodoInv' /\ MutexInv' /\ CalmInv' /\ StagesInv' /\ RefsInv'
  BY <1>1, <1>2, <1>4, <1>10, <1>12, <1>16, InnerKeeps
<1>18. BindInv'
  <2>1. n \notin {"lock", "add_adapter"} BY <1>10
  <2>2. binding' = binding /\ open' = open BY <1>2 DEF objVars
  <2> QED BY <2>1, <2>2, <1>e, <1>7, <1>10, AdapterKeeps
<1>19. LinkInv'
  <2> HIDE DEF Flowing, Listed
  <2> QED BY <1>2, <1>11, <1>15 DEF IInv, LinkInv, Others, pastVars, flowVars
<1>20. UpInv' BY <1>15 DEF UpInv
<1>21. UserInv'
  <2>1. todo'["user"] = todo["user"] /\ todo'["returner"] = todo["returner"] BY <1>11 DEF Others
  <2> HIDE DEF Listed
  <2> QED BY <2>1, <1>2, <1>c DEF IInv, UserInv, Clients, One, pastVars, flowVars, objVars
<1> QED BY <1>13, <1>17, <1>18, <1>19, <1>20, <1>21 DEF IInv

LEMMA RemoveAdapterStep ==
  ASSUME IInv, RemoveAdapter
  PROVE  IInv'
<1> DEFINE t == "adapter"
<1>1. /\ todo[t] # << >> /\ Pc(t) = "remove_adapter" /\ t \in Lockers
      /\ entry' = [entry EXCEPT !.adapter = FALSE]
      /\ Then(t, When(Listed, << "halted" >>))
  BY DEF RemoveAdapter, At, Pc, Lockers, Listed
<1>2. UNCHANGED << mutex, objVars, bindVars, flowVars, work, using, boundVars, pastVars >>
  BY DEF RemoveAdapter
<1>3. TypeInv /\ TodoInv /\ t \in Threads BY DEF IInv, Threads
<1>4. Pc(t) \in Inside BY <1>1 DEF Inside
<1>5. mutex = t /\ StageInv(t) BY <1>1, <1>4, Holds DEF IInv, StagesInv
<1>6. PICK k \in Kinds[t] : Path(k, todo[t]) /\ \E n : Follows(k, Pc(t), n) BY <1>1, Doing
<1>7. k = "remove" BY <1>1, <1>6 DEF Follows, Attaching, Stopping
<1>8. \A n : Follows(k, Pc(t), n) <=> n = "unlock"
  BY <1>1, <1>7 DEF Follows, Attaching, Stopping
<1>9. \A n : Follows(k, "halted", n) <=> n = "unlock" BY <1>7 DEF Follows, Attaching, Stopping
<1>10. PICK n : /\ Goes(t, k, n)
                /\ (Listed /\ n = "halted") \/ (~Listed /\ n = "unlock")
  <2>1. CASE Listed
    <3>1. Then(t, << "halted" >>) BY <2>1, <1>1 DEF When
    <3>2. "halted" \in Ops BY DEF Ops
    <3>3. Chain(k, << "halted" >>, "halted", "halted") BY <3>2, Single
    <3>4. Goes(t, k, "halted") BY <3>1, <3>3, <1>3, <1>6, <1>8, <1>9, PushChain
    <3> QED BY <2>1, <3>4
  <2>2. CASE ~Listed
    <3>1. Then(t, << >>) BY <2>2, <1>1 DEF When
    <3>2. Goes(t, k, "unlock") BY <3>1, <1>1, <1>3, <1>6, <1>8, AdvanceTo
    <3> QED BY <2>2, <3>2
  <2> QED BY <2>1, <2>2
<1>11. Pc(t)' = n /\ todo' \in [Threads -> Seq(Ops)] /\ Others(t) BY <1>1, <1>10, Frame DEF Others
<1>12. n \in Inside BY <1>10 DEF Inside
<1>e. /\ entry' \in [adapter : BOOLEAN, binding : Nat] /\ ~entry'.adapter /\ entry'.binding = entry.binding
  BY <1>1, <1>3 DEF TypeInv
<1>13. TypeInv' BY <1>2, <1>3, <1>11, <1>e DEF TypeInv, objVars, bindVars, flowVars, pastVars
<1>b. Even BY <1>1, <1>5 DEF StageInv, EvenOps
<1>c. Listed' = Listed BY <1>e DEF Listed
<1>14. ~Listed => ~m_BoundAdapter /\ ~m_BoundAdapter' BY <1>2 DEF IInv, LinkInv, bindVars
<1>15. Even' /\ Flowing' = Flowing BY <1>2, <1>b DEF Flowing, Even, bindVars, flowVars, objVars
<1>16. StageInv(t)'
  <2>1. n = "unlock" => BoundIff' BY <1>10, <1>14, <1>c, <1>e DEF BoundIff
  <2>2. n = "halted" => Listed' BY <1>10, <1>c
  <2>3. n \in {"halted", "unlock"} BY <1>10
  <2> HIDE DEF Even, BoundIff, Listed
  <2> QED BY <2>1, <2>2, <2>3, <1>e, <1>11, <1>15 DEF StageInv, StopOps, BoundOps
<1>17. TodoInv' /\ MutexInv' /\ CalmInv' /\ StagesInv' /\ RefsInv'
  BY <1>1, <1>2, <1>4, <1>10, <1>12, <1>16, InnerKeeps
<1>18. BindInv'
  <2>2. binding' = binding /\ open' = open BY <1>2 DEF objVars
  <2> QED BY <2>2, <1>e, <1>7, <1>10, AdapterKeeps
<1>19. LinkInv'
  <2> HIDE DEF Flowing, Listed
  <2> QED BY <1>2, <1>11, <1>15, <1>c DEF IInv, LinkInv, Others, pastVars, flowVars, bindVars, objVars
<1>20. UpInv'
  <2>1. CASE n = "halted"
    <3>1. Pc(t)' \in LateOps BY <2>1, <1>11 DEF LateOps
    <3> QED BY <3>1, <1>1 DEF UpInv
  <2>2. CASE n = "unlock" BY <2>2, <1>10, <1>14 DEF UpInv
  <2> QED BY <2>1, <2>2, <1>10
<1>21. UserInv'
  <2>1. todo'["user"] = todo["user"] /\ todo'["returner"] = todo["returner"] BY <1>11 DEF Others
  <2> HIDE DEF Listed
  <2> QED BY <2>1, <1>2, <1>c DEF IInv, UserInv, Clients, One, pastVars, flowVars, objVars
<1> QED BY <1>13, <1>17, <1>18, <1>19, <1>20, <1>21 DEF IInv

LEMMA ChangedStep ==
  ASSUME IInv, OnOpStateChange
  PROVE  IInv'
<1> DEFINE t == "work"
<1>1. /\ todo[t] # << >> /\ Pc(t) = "changed" /\ t \in Lockers
      /\ Then(t, When(~m_Started /\ m_BoundAdapter, Attach))
  BY DEF OnOpStateChange, At, Pc, Lockers
<1>2. UNCHANGED << entry, mutex, objVars, bindVars, flowVars, work, using, boundVars, pastVars >>
  BY DEF OnOpStateChange
<1>3. TypeInv /\ TodoInv /\ t \in Threads BY DEF IInv, Threads
<1>4. Pc(t) \in Inside BY <1>1 DEF Inside
<1>5. mutex = t /\ StageInv(t) BY <1>1, <1>4, Holds DEF IInv, StagesInv
<1>6. PICK k \in Kinds[t] : Path(k, todo[t]) /\ \E n : Follows(k, Pc(t), n) BY <1>1, Doing
<1>7. k = "work" BY <1>6 DEF Kinds
<1>8. \A n : Follows(k, Pc(t), n) <=> n = "unlock"
  BY <1>1, <1>7 DEF Follows, Attaching, Stopping
<1>9. \A n : Follows(k, "started", n) <=> n = "unlock" BY <1>7 DEF Follows, Attaching, Stopping
<1>10. PICK n : /\ Goes(t, k, n)
                /\ \/ ~m_Started /\ m_BoundAdapter /\ n = "bind_sriov"
                   \/ (m_Started \/ ~m_BoundAdapter) /\ n = "unlock"
  <2>1. CASE ~m_Started /\ m_BoundAdapter
    <3>1. Then(t, Attach) BY <2>1, <1>1 DEF When
    <3>2. Chain(k, Attach, "bind_sriov", "started") BY <1>7, AttachChain
    <3>3. Goes(t, k, "bind_sriov") BY <3>1, <3>2, <1>3, <1>6, <1>8, <1>9, PushChain
    <3> QED BY <2>1, <3>3
  <2>2. CASE ~(~m_Started /\ m_BoundAdapter)
    <3>1. Then(t, << >>) BY <2>2, <1>1 DEF When
    <3>2. Goes(t, k, "unlock") BY <3>1, <1>1, <1>3, <1>6, <1>8, AdvanceTo
    <3> QED BY <2>2, <3>2
  <2> QED BY <2>1, <2>2
<1>11. Pc(t)' = n /\ todo' \in [Threads -> Seq(Ops)] /\ Others(t) BY <1>1, <1>10, Frame DEF Others
<1>12. n \in Inside BY <1>10 DEF Inside
<1>13. TypeInv' BY <1>2, <1>3, <1>11 DEF TypeInv, objVars, bindVars, flowVars, pastVars
<1>b. Even /\ BoundIff BY <1>1, <1>5 DEF StageInv, EvenOps, BoundOps
<1>15. Even' /\ BoundIff' /\ m_Started' = m_Started /\ m_BoundAdapter' = m_BoundAdapter
  BY <1>2, <1>b DEF Flowing, Even, BoundIff, Listed, bindVars, flowVars, objVars
<1>16. StageInv(t)'
  <2>1. \/ n = "bind_sriov" /\ m_BoundAdapter' /\ ~m_Started'
        \/ n = "unlock"
    BY <1>10, <1>15
  <2> HIDE DEF Even, BoundIff, Listed
  <2> QED BY <2>1, <1>11, <1>15 DEF StageInv, StopOps
<1>17. TodoInv' /\ MutexInv' /\ CalmInv' /\ StagesInv' /\ RefsInv'
  BY <1>1, <1>2, <1>4, <1>10, <1>12, <1>16, InnerKeeps
<1>18. BindInv'
  <2>1. entry' = entry /\ binding' = binding /\ open' = open /\ n # "lock" /\ n # "add_adapter"
    BY <1>2, <1>10 DEF objVars
  <2> QED BY <2>1, <1>1, <1>6, <1>7, <1>10, BindKeeps
<1>19. LinkInv'
  BY <1>2, <1>11 DEF IInv, LinkInv, Flowing, Listed, Others, objVars, bindVars, flowVars, pastVars
<1>20. UpInv'
  <2>1. CASE n = "bind_sriov"
    <3>1. Pc(t)' \in LateOps BY <2>1, <1>11 DEF LateOps
    <3> QED BY <3>1, <1>1 DEF UpInv
  <2>2. CASE n = "unlock" BY <2>2, <1>10, <1>15 DEF UpInv
  <2> QED BY <2>1, <2>2, <1>10
<1>21. UserInv'
  BY <1>2, <1>11 DEF IInv, UserInv, Others, Clients, Listed, One, objVars, flowVars, pastVars
<1> QED BY <1>13, <1>17, <1>18, <1>19, <1>20, <1>21 DEF IInv
-----------------------------------------------------------------------------
(* What is begun outside the mutex.                                        *)
LEMMA BeginOne ==
  ASSUME TypeInv, NEW t \in Threads, NEW k, NEW a \in Ops, Follows(k, a, "end"),
         todo' = [todo EXCEPT ![t] = << a >>]
  PROVE  Goes(t, k, a)
<1>1. << a >> \in Seq(Ops) /\ << a >> # << >> /\ Len(<< a >>) = 1 /\ << a >>[1] = a OBVIOUS
<1>2. \A i \in 1 .. 1 : i = 1 /\ ~(i < 1) OBVIOUS
<1>3. Path(k, << a >>) BY <1>1, <1>2 DEF Path
<1>4. Goes(t, k, << a >>[1]) BY <1>1, <1>3, Begin
<1> QED BY <1>1, <1>4

LEMMA BeginThree ==
  ASSUME TypeInv, NEW t \in Threads, NEW k, NEW a \in Ops, NEW b \in Ops, NEW c \in Ops,
         Follows(k, a, b), Follows(k, b, c), Follows(k, c, "end"),
         todo' = [todo EXCEPT ![t] = << a, b, c >>]
  PROVE  Goes(t, k, a)
<1>1. << a, b, c >> \in Seq(Ops) /\ << a, b, c >> # << >> /\ Len(<< a, b, c >>) = 3 OBVIOUS
<1>2. << a, b, c >>[1] = a /\ << a, b, c >>[2] = b /\ << a, b, c >>[3] = c OBVIOUS
<1>3. \A i \in 1 .. 3 : \/ i = 1 /\ i < 3 /\ i + 1 = 2
                        \/ i = 2 /\ i < 3 /\ i + 1 = 3
                        \/ i = 3 /\ ~(i < 3)
  OBVIOUS
<1>4. Path(k, << a, b, c >>) BY <1>1, <1>2, <1>3 DEF Path
<1>5. Goes(t, k, << a, b, c >>[1]) BY <1>1, <1>4, Begin
<1> QED BY <1>2, <1>5

LEMMA BeginFour ==
  ASSUME TypeInv, NEW t \in Threads, NEW k, NEW a \in Ops, NEW b \in Ops, NEW c \in Ops, NEW d \in Ops,
         Follows(k, a, b), Follows(k, b, c), Follows(k, c, d), Follows(k, d, "end"),
         todo' = [todo EXCEPT ![t] = << a, b, c, d >>]
  PROVE  Goes(t, k, a)
<1>1. << a, b, c, d >> \in Seq(Ops) /\ << a, b, c, d >> # << >> /\ Len(<< a, b, c, d >>) = 4 OBVIOUS
<1>2. /\ << a, b, c, d >>[1] = a /\ << a, b, c, d >>[2] = b /\ << a, b, c, d >>[3] = c
      /\ << a, b, c, d >>[4] = d
  OBVIOUS
<1>3. \A i \in 1 .. 4 : \/ i = 1 /\ i < 4 /\ i + 1 = 2
                        \/ i = 2 /\ i < 4 /\ i + 1 = 3
                        \/ i = 3 /\ i < 4 /\ i + 1 = 4
                        \/ i = 4 /\ ~(i < 4)
  OBVIOUS
<1>4. Path(k, << a, b, c, d >>) BY <1>1, <1>2, <1>3 DEF Path
<1>5. Goes(t, k, << a, b, c, d >>[1]) BY <1>1, <1>4, Begin
<1> QED BY <1>2, <1>5

LEMMA BeginFive ==
  ASSUME TypeInv, NEW t \in Threads, NEW k, NEW a \in Ops, NEW b \in Ops, NEW c \in Ops, NEW d \in Ops,
         NEW e \in Ops,
         Follows(k, a, b), Follows(k, b, c), Follows(k, c, d), Follows(k, d, e), Follows(k, e, "end"),
         todo' = [todo EXCEPT ![t] = << a, b, c, d, e >>]
  PROVE  Goes(t, k, a)
<1>1. << a, b, c, d, e >> \in Seq(Ops) /\ << a, b, c, d, e >> # << >> /\ Len(<< a, b, c, d, e >>) = 5
  OBVIOUS
<1>2. /\ << a, b, c, d, e >>[1] = a /\ << a, b, c, d, e >>[2] = b /\ << a, b, c, d, e >>[3] = c
      /\ << a, b, c, d, e >>[4] = d /\ << a, b, c, d, e >>[5] = e
  OBVIOUS
<1>3. \A i \in 1 .. 5 : \/ i = 1 /\ i < 5 /\ i + 1 = 2
                        \/ i = 2 /\ i < 5 /\ i + 1 = 3
                        \/ i = 3 /\ i < 5 /\ i + 1 = 4
                        \/ i = 4 /\ i < 5 /\ i + 1 = 5
                        \/ i = 5 /\ ~(i < 5)
  OBVIOUS
<1>4. Path(k, << a, b, c, d, e >>) BY <1>1, <1>2, <1>3 DEF Path
<1>5. Goes(t, k, << a, b, c, d, e >>[1]) BY <1>1, <1>4, Begin
<1> QED BY <1>2, <1>5

(* A thread outside the mutex goes on outside it, and what those inside    *)
(* look at stays as it is: the binding unless it is not listed.            *)
LEMMA OuterKeeps ==
  ASSUME IInv,
         \A u \in Lockers : Pc(u)' = Pc(u) \/ (Pc(u) \notin Inside /\ Pc(u)' \notin Inside),
         todo'["user"] = todo["user"], todo'["returner"] = todo["returner"],
         UNCHANGED << entry, mutex, bindVars, flowVars, using, orphaned, leaked, lost >>,
         Listed => binding' = binding /\ compatible' = compatible
  PROVE  MutexInv' /\ CalmInv' /\ StagesInv' /\ LinkInv' /\ UserInv'
<1>1. MutexInv' BY DEF IInv, MutexInv
<1>2. /\ Listed' = Listed /\ Flowing' = Flowing /\ m_BoundAdapter' = m_BoundAdapter
      /\ m_Started' = m_Started /\ m_Value' = m_Value /\ flow' = flow /\ out' = out
  BY DEF Listed, Flowing, bindVars, flowVars
<1>3. /\ m_BoundAdapter => Listed /\ binding' = binding
      /\ m_Started => m_BoundAdapter
  BY DEF IInv, LinkInv
<1>4. Even => Even' BY <1>2, <1>3 DEF Even
<1>5. BoundIff => BoundIff'
  <2>1. CASE Listed BY <2>1, <1>2 DEF BoundIff
  <2>2. CASE ~Listed BY <2>2, <1>2 DEF BoundIff
  <2> QED BY <2>1, <2>2
<1>6. CalmInv'
  <2> HIDE DEF Even, BoundIff
  <2> QED BY <1>4, <1>5 DEF IInv, CalmInv
<1>7. StagesInv'
  <2>1. SUFFICES ASSUME NEW u \in Lockers PROVE StageInv(u)' BY DEF StagesInv
  <2>2. CASE Pc(u)' = Pc(u)
    <3>1. StageInv(u) BY DEF IInv, StagesInv
    <3>2. orphaned' = orphaned /\ entry' = entry OBVIOUS
    <3> HIDE DEF Even, BoundIff, Listed, Flowing
    <3> QED BY <2>2, <3>1, <3>2, <1>2, <1>3, <1>4, <1>5 DEF StageInv
  <2>3. CASE Pc(u)' \notin Inside BY <2>3 DEF Inside, StageInv, EvenOps, BoundOps, StopOps
  <2> QED BY <2>2, <2>3
<1>8. Pc("returner")' = Pc("returner") BY DEF Pc
<1>9. LinkInv'
  <2>1. m_BoundAdapter => compatible' BY <1>3 DEF IInv, LinkInv
  <2>2. Flowing => m_BoundAdapter /\ flow["ref"] /\ m_Value = binding BY DEF IInv, LinkInv
  <2>3. Flowing => m_Value = binding' BY <2>2, <1>3
  <2>4. Pc("returner") = "return" => out["rx"] > 0 BY DEF IInv, LinkInv
  <2>5. ~lost' BY DEF IInv, LinkInv
  <2> HIDE DEF Flowing, Listed
  <2> QED BY <2>1, <2>2, <2>3, <2>4, <2>5, <1>2, <1>3, <1>8 DEF LinkInv
<1>10. UserInv' BY <1>2 DEF IInv, UserInv, Clients, One
<1> QED BY <1>1, <1>6, <1>7, <1>9, <1>10

(* ...and a function that is to be noticed still is.                       *)
LEMMA UpKeeps ==
  ASSUME IInv,
         \A u \in Lockers : Pc(u)' = Pc(u) \/ (Pc(u) \notin Inside /\ Pc(u)' \notin Inside),
         Pc("work") \in {"lock", "changed"} => Pc("work")' \in {"lock", "changed"},
         todo["status"] # << >> => todo'["status"] # << >>,
         UNCHANGED << bindVars, work, m_Operational, unheard >>
  PROVE  UpInv'
<1>1. \A u \in Lockers : Pc(u) \in LateOps => Pc(u)' \in LateOps
  BY DEF LateOps, StopOps, Inside
<1> QED BY <1>1 DEF IInv, UpInv, bindVars

LEMMA CloseStep ==
  ASSUME IInv, Close
  PROVE  IInv'
<1> DEFINE t == "vf"
<1>1. /\ todo[t] # << >> /\ Pc(t) = "close" /\ t \in Lockers /\ open' = FALSE /\ Then(t, << >>)
      /\ todo["status"] = << >>
  BY DEF Close, At, Pc, Lockers, Free
<1>2. UNCHANGED << entry, mutex, binding, bindings, refs, compatible, m_Operational, bindVars, flowVars,
                   work, using, boundVars, pastVars >>
  BY DEF Close
<1>3. TypeInv /\ TodoInv /\ t \in Threads BY DEF IInv, Threads
<1>6. PICK k \in Kinds[t] : Path(k, todo[t]) /\ \E n : Follows(k, Pc(t), n) BY <1>1, Doing
<1>7. k = "unbind" BY <1>1, <1>6 DEF Follows, Attaching, Stopping
<1>8. \A n : Follows(k, Pc(t), n) <=> n = "release"
  BY <1>1, <1>7 DEF Follows, Attaching, Stopping
<1>10. PICK n : n = "release" /\ Goes(t, k, n) BY <1>1, <1>3, <1>6, <1>8, AdvanceTo
<1>11. /\ Pc(t)' = n /\ todo' \in [Threads -> Seq(Ops)] /\ Others(t) /\ TodoInv'
  BY <1>1, <1>10, Frame DEF Others
<1>12. Pc(t) \notin Inside /\ n \notin Inside BY <1>1, <1>10 DEF Inside
<1>13. TypeInv' BY <1>1, <1>2, <1>3, <1>11 DEF TypeInv, bindVars, flowVars, pastVars
<1>14. /\ \A u \in Lockers : Pc(u)' = Pc(u) \/ (Pc(u) \notin Inside /\ Pc(u)' \notin Inside)
       /\ todo'["user"] = todo["user"] /\ todo'["returner"] = todo["returner"]
       /\ todo'["status"] = todo["status"] /\ Pc("work")' = Pc("work") /\ todo'["work"] = todo["work"]
  BY <1>11, <1>12 DEF Others, Lockers
<1>15. MutexInv' /\ CalmInv' /\ StagesInv' /\ LinkInv' /\ UserInv'
  BY <1>2, <1>14, OuterKeeps DEF pastVars
<1>16. UpInv' BY <1>2, <1>14, UpKeeps DEF pastVars
<1>17. ~Listed /\ open /\ ~Listed'
  <2>1. ~Listed /\ open BY <1>1, <1>6, <1>7 DEF IInv, BindInv
  <2> QED BY <2>1, <1>2 DEF Listed
<1>18. BindInv'
  <2> HIDE DEF Listed
  <2> QED BY <1>1, <1>2, <1>7, <1>10, <1>17, VfKeeps
<1>19. RefsInv' BY <1>1, <1>2, <1>10, <1>11, <1>14, <1>17 DEF IInv, RefsInv, One
<1> QED BY <1>11, <1>13, <1>15, <1>16, <1>18, <1>19 DEF IInv

LEMMA ReleaseStep ==
  ASSUME IInv, Release
  PROVE  IInv'
<1> DEFINE t == "vf"
<1>1. /\ todo[t] # << >> /\ Pc(t) = "release" /\ t \in Lockers /\ Then(t, << >>)
      /\ refs' = refs - 1 /\ binding' = IF refs = 1 THEN None ELSE binding
  BY DEF Release, Drop, At, Pc, Lockers
<1>2. UNCHANGED << entry, mutex, bindings, open, compatible, m_Operational, bindVars, flowVars, work,
                  using, boundVars, pastVars >>
  BY DEF Release
<1>3. TypeInv /\ TodoInv /\ t \in Threads BY DEF IInv, Threads
<1>6. PICK k \in Kinds[t] : \E n :
        Path(k, todo[t]) /\ Goes(t, k, n) /\ Follows(k, "release", IF n = "idle" THEN "end" ELSE n)
  BY <1>1, <1>3, Advance
<1>9. PICK n : Path(k, todo[t]) /\ Goes(t, k, n) /\ Follows(k, "release", IF n = "idle" THEN "end" ELSE n)
  BY <1>6
<1>7. k = "unbind" /\ n \in {"idle", "end"} BY <1>9 DEF Follows, Attaching, Stopping
<1>11. /\ Pc(t)' = n /\ todo' \in [Threads -> Seq(Ops)] /\ Others(t) /\ TodoInv'
  BY <1>1, <1>9, Frame DEF Others
<1>10. n = "idle"
  <2>1. SUFFICES ASSUME n # "idle" PROVE FALSE OBVIOUS
  <2>2. Path(k, todo'[t]) /\ Head(todo'[t]) = n BY <2>1, <1>9 DEF Goes
  <2>3. PICK s \in Seq(Ops) : s = todo'[t] BY <1>3, <1>11
  <2>4. \E m : Follows(k, n, m) BY <2>2, <2>3, NoIdle
  <2> QED BY <2>4, <2>1, <1>7 DEF Follows, Attaching, Stopping
<1>12. Pc(t) \notin Inside /\ n \notin Inside BY <1>1, <1>10 DEF Inside
<1>17. ~Listed /\ ~open /\ ~Listed' /\ ~open'
  <2>1. ~Listed /\ ~open BY <1>1, <1>9, <1>7 DEF IInv, BindInv
  <2> QED BY <2>1, <1>2 DEF Listed
<1>20. refs \in Nat /\ work \in Nat /\ refs = 1 + work + One(todo["work"] # << >>)
  BY <1>1, <1>3 DEF IInv, RefsInv, One, TypeInv
<1>21. refs' \in Nat /\ binding' \in Nat BY <1>1, <1>3, <1>20 DEF TypeInv, One, None
<1>13. TypeInv' BY <1>2, <1>3, <1>11, <1>21 DEF TypeInv, bindVars, flowVars, pastVars
<1>14. /\ \A u \in Lockers : Pc(u)' = Pc(u) \/ (Pc(u) \notin Inside /\ Pc(u)' \notin Inside)
       /\ todo'["user"] = todo["user"] /\ todo'["returner"] = todo["returner"]
       /\ todo'["status"] = todo["status"] /\ Pc("work")' = Pc("work") /\ todo'["work"] = todo["work"]
  BY <1>11, <1>12 DEF Others, Lockers
<1>15. MutexInv' /\ CalmInv' /\ StagesInv' /\ LinkInv' /\ UserInv'
  BY <1>2, <1>14, <1>17, OuterKeeps DEF pastVars
<1>16. UpInv' BY <1>2, <1>14, UpKeeps DEF pastVars
<1>18. BindInv'
  <2>1. todo["status"] = << >> BY <1>17 DEF IInv, BindInv
  <2> HIDE DEF Listed
  <2> QED BY <2>1, <1>2, <1>7, <1>9, <1>10, <1>17, VfKeeps
<1>19. RefsInv'
  <2>1. refs' = work + One(todo["work"] # << >>) BY <1>1, <1>20 DEF One
  <2>2. binding' # None <=> refs' > 0
    <3>1. binding # None BY <1>20 DEF IInv, RefsInv, One
    <3> QED BY <3>1, <1>1, <1>20 DEF One
  <2>3. Pc(t)' # "release" BY <1>10, <1>11
  <2> QED BY <2>1, <2>2, <2>3, <1>2, <1>14, <1>17, <1>20 DEF RefsInv, One
<1> QED BY <1>11, <1>13, <1>15, <1>16, <1>18, <1>19 DEF IInv

LEMMA Same ==
  ASSUME IInv, bindings' \in Nat,
         UNCHANGED << entry, mutex, binding, refs, open, compatible, m_Operational, bindVars, flowVars,
                      work, todo, using, pastVars >>
  PROVE  IInv'
<1>1. \A u : Pc(u)' = Pc(u) BY DEF Pc
<1>2. TypeInv' /\ TodoInv' BY DEF IInv, TypeInv, TodoInv, bindVars, flowVars, pastVars
<1>3. MutexInv' /\ RefsInv' BY <1>1 DEF IInv, MutexInv, RefsInv, One
<1>4. BindInv' BY <1>1 DEF IInv, BindInv, Listed
<1>5. MutexInv' /\ CalmInv' /\ StagesInv' /\ LinkInv' /\ UserInv'
  BY <1>1, OuterKeeps DEF pastVars
<1>6. UpInv' BY <1>1, UpKeeps DEF pastVars
<1> QED BY <1>2, <1>3, <1>4, <1>5, <1>6 DEF IInv

LEMMA BindStep ==
  ASSUME IInv, Bind
  PROVE  IInv'
<1> DEFINE t == "vf"
<1>1. /\ todo[t] = << >> /\ ~open /\ binding = None /\ bindings' = bindings + 1 /\ t \in Lockers
      /\ UNCHANGED << entry, mutex, bindVars, flowVars, work, using, boundVars, pastVars >>
  BY DEF Bind, Free, Lockers
<1>3. TypeInv /\ TodoInv /\ t \in Threads /\ bindings' \in Nat BY <1>1 DEF IInv, Threads, TypeInv
<1>4. CASE UNCHANGED << binding, refs, open, compatible, m_Operational, todo >>
  BY <1>1, <1>3, <1>4, Same
<1>5. CASE /\ binding' = bindings + 1 /\ refs' = 1 /\ open' = TRUE /\ m_Operational' = FALSE
           /\ compatible' \in {TRUE, ~MayFail}
           /\ todo' = [todo EXCEPT !["vf"] = << "lock", "add_binding", "unlock" >>]
  <2>1. "bind" \in Kinds[t] BY DEF Kinds
  <2>2. Goes(t, "bind", "lock")
    <3>1. "lock" \in Ops /\ "add_binding" \in Ops /\ "unlock" \in Ops BY DEF Ops
    <3>2. /\ Follows("bind", "lock", "add_binding") /\ Follows("bind", "add_binding", "unlock")
          /\ Follows("bind", "unlock", "end")
      BY DEF Follows
    <3> QED BY <3>1, <3>2, <1>3, <1>5, BeginThree
  <2>3. /\ Pc(t)' = "lock" /\ todo' \in [Threads -> Seq(Ops)] /\ Others(t) /\ TodoInv'
    BY <1>1, <2>1, <2>2, Frame DEF Others
  <2>4. Pc(t) = "idle" BY <1>1 DEF Pc
  <2>5. compatible' \in BOOLEAN
    <3>1. CASE MayFail BY <3>1, <1>5
    <3>2. CASE ~MayFail BY <3>2, <1>5
    <3> QED BY <3>1, <3>2
  <2>6. TypeInv' BY <1>1, <1>3, <1>5, <2>3, <2>5 DEF TypeInv, bindVars, flowVars, pastVars
  <2>7. /\ \A u \in Lockers : Pc(u)' = Pc(u) \/ (Pc(u) \notin Inside /\ Pc(u)' \notin Inside)
        /\ todo'["user"] = todo["user"] /\ todo'["returner"] = todo["returner"]
        /\ todo'["status"] = todo["status"] /\ Pc("work")' = Pc("work") /\ todo'["work"] = todo["work"]
    BY <2>3, <2>4 DEF Others, Lockers, Inside
  <2>8. ~Listed /\ ~Listed' /\ ~m_BoundAdapter'
    <3>1. ~Listed BY <1>1 DEF IInv, BindInv
    <3> QED BY <3>1, <1>1 DEF Listed, IInv, LinkInv, bindVars
  <2>9. MutexInv' /\ CalmInv' /\ StagesInv' /\ LinkInv' /\ UserInv'
    BY <1>1, <2>7, <2>8, OuterKeeps DEF pastVars
  <2>10. UpInv' BY <2>8 DEF UpInv
  <2>11. BindInv'
    <3>1. binding' # None BY <1>5, <1>3 DEF IInv, TypeInv, None
    <3> HIDE DEF Listed
    <3> QED BY <3>1, <1>1, <1>5, <2>2, <2>8, VfKeeps
  <2>12. RefsInv'
    <3>1. binding' # None BY <1>5, <1>3 DEF IInv, TypeInv, None
    <3>2. work = 0 /\ todo["work"] = << >>
      <4>1. refs = 0 BY <1>1, <1>3 DEF IInv, RefsInv, TypeInv
      <4> QED BY <4>1, <1>3 DEF IInv, RefsInv, One, TypeInv
    <3> QED BY <3>1, <3>2, <1>1, <1>5, <2>7 DEF RefsInv, One
  <2> QED BY <2>3, <2>6, <2>9, <2>10, <2>11, <2>12 DEF IInv
<1> QED BY <1>4, <1>5 DEF Bind

LEMMA UnbindStep ==
  ASSUME IInv, Unbind
  PROVE  IInv'
<1> DEFINE t == "vf"
<1>1. /\ todo[t] = << >> /\ open /\ t \in Lockers
      /\ todo' = [todo EXCEPT !["vf"] = << "lock", "remove_binding", "unlock", "close", "release" >>]
      /\ UNCHANGED << entry, mutex, objVars, bindVars, flowVars, work, using, boundVars, pastVars >>
  BY DEF Unbind, Free, Lockers
<1>3. TypeInv /\ TodoInv /\ t \in Threads BY DEF IInv, Threads
<1>4. "unbind" \in Kinds[t] BY DEF Kinds
<1>5. Goes(t, "unbind", "lock")
  <2>1. "lock" \in Ops /\ "remove_binding" \in Ops /\ "unlock" \in Ops /\ "close" \in Ops /\ "release" \in Ops
    BY DEF Ops
  <2>2. /\ Follows("unbind", "lock", "remove_binding") /\ Follows("unbind", "remove_binding", "unlock")
        /\ Follows("unbind", "unlock", "close") /\ Follows("unbind", "close", "release")
        /\ Follows("unbind", "release", "end")
    BY DEF Follows
  <2> QED BY <2>1, <2>2, <1>1, <1>3, BeginFive
<1>6. /\ Pc(t)' = "lock" /\ todo' \in [Threads -> Seq(Ops)] /\ Others(t) /\ TodoInv'
  BY <1>1, <1>4, <1>5, Frame DEF Others
<1>7. Pc(t) = "idle" BY <1>1 DEF Pc
<1>8. TypeInv' BY <1>1, <1>3, <1>6 DEF TypeInv, objVars, bindVars, flowVars, pastVars
<1>9. /\ \A u \in Lockers : Pc(u)' = Pc(u) \/ (Pc(u) \notin Inside /\ Pc(u)' \notin Inside)
      /\ todo'["user"] = todo["user"] /\ todo'["returner"] = todo["returner"]
      /\ todo'["status"] = todo["status"] /\ Pc("work")' = Pc("work") /\ todo'["work"] = todo["work"]
  BY <1>6, <1>7 DEF Others, Lockers, Inside
<1>10. MutexInv' /\ CalmInv' /\ StagesInv' /\ LinkInv' /\ UserInv'
  BY <1>1, <1>9, OuterKeeps DEF pastVars, objVars
<1>11. UpInv' BY <1>1, <1>9, UpKeeps DEF pastVars, objVars
<1>12. BindInv'
  <2>1. Listed /\ Listed' /\ entry.binding = binding /\ binding # None
    BY <1>1, <1>7 DEF IInv, BindInv, Listed
  <2> HIDE DEF Listed
  <2> QED BY <2>1, <1>1, <1>5, VfKeeps DEF objVars
<1>13. RefsInv' BY <1>1, <1>6, <1>7, <1>9 DEF IInv, RefsInv, One, objVars
<1> QED BY <1>6, <1>8, <1>10, <1>11, <1>12, <1>13 DEF IInv

LEMMA RegisterStep ==
  ASSUME IInv, RegisterAdapter
  PROVE  IInv'
<1> DEFINE t == "adapter"
<1>1. /\ todo[t] = << >> /\ t \in Lockers
      /\ UNCHANGED << entry, mutex, objVars, bindVars, flowVars, work, using, changes, pastVars >>
  BY DEF RegisterAdapter, Free, Lockers
<1>2. PICK m : /\ m = IF entry.adapter THEN "remove_adapter" ELSE "add_adapter"
               /\ todo' = [todo EXCEPT !["adapter"] = << "lock", m, "unlock" >>]
  BY DEF RegisterAdapter
<1>3. TypeInv /\ TodoInv /\ t \in Threads BY DEF IInv, Threads
<1>4. PICK k \in Kinds[t] : (k = "remove" /\ entry.adapter) \/ (k = "add" /\ ~entry.adapter)
  BY DEF Kinds
<1>5. Goes(t, k, "lock")
  <2>1. "lock" \in Ops /\ m \in Ops /\ "unlock" \in Ops BY <1>2 DEF Ops
  <2>2. Follows(k, "lock", m) /\ Follows(k, m, "unlock") /\ Follows(k, "unlock", "end")
    BY <1>2, <1>4 DEF Follows
  <2> QED BY <2>1, <2>2, <1>2, <1>3, BeginThree
<1>6. /\ Pc(t)' = "lock" /\ todo' \in [Threads -> Seq(Ops)] /\ Others(t) /\ TodoInv'
  BY <1>1, <1>5, Frame DEF Others
<1>7. Pc(t) = "idle" BY <1>1 DEF Pc
<1>8. TypeInv' BY <1>1, <1>3, <1>6 DEF TypeInv, objVars, bindVars, flowVars, pastVars
<1>9. /\ \A u \in Lockers : Pc(u)' = Pc(u) \/ (Pc(u) \notin Inside /\ Pc(u)' \notin Inside)
      /\ todo'["user"] = todo["user"] /\ todo'["returner"] = todo["returner"]
      /\ todo'["status"] = todo["status"] /\ Pc("work")' = Pc("work") /\ todo'["work"] = todo["work"]
      /\ Pc("vf")' = Pc("vf")
  BY <1>6, <1>7 DEF Others, Lockers, Inside
<1>10. MutexInv' /\ CalmInv' /\ StagesInv' /\ LinkInv' /\ UserInv'
  BY <1>1, <1>9, OuterKeeps DEF pastVars, objVars
<1>11. UpInv' BY <1>1, <1>9, UpKeeps DEF pastVars, objVars
<1>12. BindInv' BY <1>1, <1>4, <1>5, AdapterKeeps DEF objVars
<1>13. RefsInv' BY <1>1, <1>9 DEF IInv, RefsInv, One, objVars
<1> QED BY <1>6, <1>8, <1>10, <1>11, <1>12, <1>13 DEF IInv

LEMMA FiredStep ==
  ASSUME IInv, Fired
  PROVE  IInv'
<1> DEFINE t == "work"
<1>1. /\ todo[t] = << >> /\ work > 0 /\ work' = work - 1 /\ t \in Lockers
      /\ todo' = [todo EXCEPT !["work"] = << "lock", "changed", "unlock", "drop" >>]
      /\ UNCHANGED << entry, mutex, objVars, bindVars, flowVars, using, boundVars, pastVars >>
  BY DEF Fired, Free, Lockers
<1>3. TypeInv /\ TodoInv /\ t \in Threads /\ work' \in Nat BY <1>1 DEF IInv, Threads, TypeInv
<1>4. "work" \in Kinds[t] BY DEF Kinds
<1>5. Goes(t, "work", "lock")
  <2>1. "lock" \in Ops /\ "changed" \in Ops /\ "unlock" \in Ops /\ "drop" \in Ops
    BY DEF Ops
  <2>2. /\ Follows("work", "lock", "changed") /\ Follows("work", "changed", "unlock")
        /\ Follows("work", "unlock", "drop") /\ Follows("work", "drop", "end")
    BY DEF Follows
  <2> QED BY <2>1, <2>2, <1>1, <1>3, BeginFour
<1>6. /\ Pc(t)' = "lock" /\ todo' \in [Threads -> Seq(Ops)] /\ Others(t) /\ TodoInv' /\ todo'[t] # << >>
  BY <1>1, <1>4, <1>5, Frame DEF Others
<1>7. Pc(t) = "idle" BY <1>1 DEF Pc
<1>8. TypeInv' BY <1>1, <1>3, <1>6 DEF TypeInv, objVars, bindVars, flowVars, pastVars
<1>9. /\ \A u \in Lockers : Pc(u)' = Pc(u) \/ (Pc(u) \notin Inside /\ Pc(u)' \notin Inside)
      /\ todo'["user"] = todo["user"] /\ todo'["returner"] = todo["returner"]
      /\ todo'["status"] = todo["status"] /\ Pc("vf")' = Pc("vf") /\ todo'["vf"] = todo["vf"]
      /\ Pc("adapter")' = Pc("adapter") /\ todo'["adapter"] = todo["adapter"]
  BY <1>6, <1>7 DEF Others, Lockers, Inside
<1>10. MutexInv' /\ CalmInv' /\ StagesInv' /\ LinkInv' /\ UserInv'
  BY <1>1, <1>9, OuterKeeps DEF pastVars, objVars
<1>11. UpInv' BY <1>6 DEF UpInv
<1>12. BindInv' BY <1>1, <1>9 DEF IInv, BindInv, Listed, objVars
<1>13. RefsInv'
  <2>1. refs \in Nat /\ refs = One(open \/ Pc("vf") = "release") + work + 0
    BY <1>1, <1>3 DEF IInv, RefsInv, One, TypeInv
  <2>2. One(open \/ Pc("vf") = "release") \in Nat BY DEF One
  <2>3. refs = One(open \/ Pc("vf") = "release") + work' + 1 BY <2>1, <2>2, <1>1, <1>3 DEF TypeInv
  <2>4. refs' = refs /\ binding' = binding /\ open' = open BY <1>1 DEF objVars
  <2>5. One(todo'["work"] # << >>) = 1 BY <1>6 DEF One
  <2>6. One((open \/ Pc("vf") = "release"))' = One(open \/ Pc("vf") = "release")
    BY <2>4, <1>9 DEF One
  <2>7. binding # None <=> refs > 0 BY DEF IInv, RefsInv
  <2> HIDE DEF One
  <2> QED BY <2>3, <2>4, <2>5, <2>6, <2>7 DEF RefsInv
<1> QED BY <1>6, <1>8, <1>10, <1>11, <1>12, <1>13 DEF IInv

LEMMA WorkDoneStep ==
  ASSUME IInv, WorkDone
  PROVE  IInv'
<1> DEFINE t == "work"
<1>1. /\ todo[t] # << >> /\ Pc(t) = "drop" /\ t \in Lockers /\ Then(t, << >>)
      /\ refs' = refs - 1 /\ binding' = IF refs = 1 THEN None ELSE binding
  BY DEF WorkDone, Drop, At, Pc, Lockers
<1>2. UNCHANGED << entry, mutex, bindings, open, compatible, m_Operational, bindVars, flowVars, work,
                  using, boundVars, pastVars >>
  BY DEF WorkDone
<1>3. TypeInv /\ TodoInv /\ t \in Threads BY DEF IInv, Threads
<1>6. PICK k \in Kinds[t] : \E n :
        Path(k, todo[t]) /\ Goes(t, k, n) /\ Follows(k, "drop", IF n = "idle" THEN "end" ELSE n)
  BY <1>1, <1>3, Advance
<1>9. PICK n : Path(k, todo[t]) /\ Goes(t, k, n) /\ Follows(k, "drop", IF n = "idle" THEN "end" ELSE n)
  BY <1>6
<1>7. k = "work" /\ n \in {"idle", "end"} BY <1>9 DEF Follows, Attaching, Stopping
<1>11. /\ Pc(t)' = n /\ todo' \in [Threads -> Seq(Ops)] /\ Others(t) /\ TodoInv'
       /\ n = "idle" <=> todo'[t] = << >>
  BY <1>1, <1>9, Frame DEF Others
<1>10. n = "idle"
  <2>1. SUFFICES ASSUME n # "idle" PROVE FALSE OBVIOUS
  <2>2. Path(k, todo'[t]) /\ Head(todo'[t]) = n BY <2>1, <1>9 DEF Goes
  <2>3. PICK s \in Seq(Ops) : s = todo'[t] BY <1>3, <1>11
  <2>4. \E m : Follows(k, n, m) BY <2>2, <2>3, NoIdle
  <2> QED BY <2>4, <2>1, <1>7 DEF Follows, Attaching, Stopping
<1>12. Pc(t) \notin Inside /\ n \notin Inside BY <1>1, <1>10 DEF Inside
<1>20. /\ refs \in Nat /\ work \in Nat /\ refs = One(open \/ Pc("vf") = "release") + work + 1
       /\ One(open \/ Pc("vf") = "release") \in {0, 1}
  BY <1>1, <1>3 DEF IInv, RefsInv, One, TypeInv
<1>21. refs' \in Nat /\ binding' \in Nat BY <1>1, <1>3, <1>20 DEF TypeInv, None
<1>13. TypeInv' BY <1>2, <1>3, <1>11, <1>21 DEF TypeInv, bindVars, flowVars, pastVars
<1>14. /\ \A u \in Lockers : Pc(u)' = Pc(u) \/ (Pc(u) \notin Inside /\ Pc(u)' \notin Inside)
       /\ todo'["user"] = todo["user"] /\ todo'["returner"] = todo["returner"]
       /\ todo'["status"] = todo["status"] /\ Pc("vf")' = Pc("vf") /\ todo'["vf"] = todo["vf"]
       /\ Pc("adapter")' = Pc("adapter") /\ todo'["adapter"] = todo["adapter"]
  BY <1>11, <1>12 DEF Others, Lockers
<1>17. /\ Listed => open
       /\ open => refs # 1 /\ binding' = binding /\ binding # None
       /\ open' = open /\ (Listed' <=> Listed)
  <2>1. (Listed => open) /\ (open => binding # None) BY DEF IInv, BindInv
  <2>2. open => refs # 1 BY <1>20 DEF One
  <2> QED BY <2>1, <2>2, <1>1, <1>2 DEF Listed
<1>15. MutexInv' /\ CalmInv' /\ StagesInv' /\ LinkInv' /\ UserInv'
  BY <1>2, <1>14, <1>17, OuterKeeps DEF pastVars
<1>16. UpInv'
  <2>1. Pc("work") \notin {"lock", "changed"} BY <1>1
  <2> QED BY <2>1, <1>2, <1>14, UpKeeps DEF pastVars
<1>18. BindInv'
  <2>1. entry' = entry BY <1>2
  <2> HIDE DEF Listed
  <2> QED BY <2>1, <1>14, <1>17 DEF IInv, BindInv
<1>19. RefsInv'
  <2>1. refs' = One(open \/ Pc("vf") = "release") + work + 0 BY <1>1, <1>20
  <2>2. binding' # None <=> refs' > 0
    <3>1. binding # None BY <1>20 DEF IInv, RefsInv
    <3> QED BY <3>1, <1>1, <1>20
  <2>3. One(todo'["work"] # << >>) = 0 BY <1>10, <1>11 DEF One
  <2>4. One((open \/ Pc("vf") = "release"))' = One(open \/ Pc("vf") = "release")
    BY <1>17, <1>14 DEF One
  <2>5. work' = work BY <1>2
  <2> HIDE DEF One
  <2> QED BY <2>1, <2>2, <2>3, <2>4, <2>5 DEF RefsInv
<1> QED BY <1>11, <1>13, <1>15, <1>16, <1>18, <1>19 DEF IInv

LEMMA StatusStep ==
  ASSUME IInv, StatusIndication
  PROVE  IInv'
<1> DEFINE t == "status"
<1>1. /\ todo[t] = << >> /\ open /\ m_Operational' = ~m_Operational
      /\ todo' = [todo EXCEPT !["status"] = << "tell" >>]
      /\ UNCHANGED << entry, mutex, binding, bindings, refs, open, compatible, bindVars, flowVars, work,
                      using, powers, pastVars >>
  BY DEF StatusIndication, Free
<1>3. TypeInv /\ TodoInv /\ t \in Threads BY DEF IInv, Threads
<1>4. "tell" \in Kinds[t] BY DEF Kinds
<1>5. Goes(t, "tell", "tell")
  <2>1. "tell" \in Ops BY DEF Ops
  <2>2. Follows("tell", "tell", "end") BY DEF Follows
  <2> QED BY <2>1, <2>2, <1>1, <1>3, BeginOne
<1>6. TodoInv' /\ \A u \in Threads \ {t} : Pc(u)' = Pc(u) BY <1>3, <1>4, <1>5, GoesOn
<1>7. /\ todo' \in [Threads -> Seq(Ops)] /\ todo'[t] # << >>
      /\ \A u \in Threads \ {t} : todo'[u] = todo[u]
  BY <1>5 DEF Goes, Path
<1>8. TypeInv' BY <1>1, <1>3, <1>7 DEF TypeInv, bindVars, flowVars, pastVars
<1>9. /\ \A u \in Lockers : Pc(u)' = Pc(u) /\ todo'[u] = todo[u]
      /\ todo'["user"] = todo["user"] /\ todo'["returner"] = todo["returner"]
  BY <1>6, <1>7 DEF Lockers, Threads, Clients
<1>10. MutexInv' /\ CalmInv' /\ StagesInv' /\ LinkInv' /\ UserInv'
  BY <1>1, <1>9, OuterKeeps DEF pastVars
<1>11. UpInv' BY <1>7 DEF UpInv
<1>12. BindInv' BY <1>1, <1>9 DEF IInv, BindInv, Listed, Lockers
<1>13. RefsInv' BY <1>1, <1>9 DEF IInv, RefsInv, One, Lockers
<1> QED BY <1>6, <1>8, <1>10, <1>11, <1>12, <1>13 DEF IInv

LEMMA TellStep ==
  ASSUME IInv, Tell
  PROVE  IInv'
<1> DEFINE t == "status"
<1>1. /\ todo[t] # << >> /\ Then(t, << >>)
      /\ UNCHANGED << entry, mutex, binding, bindings, open, compatible, m_Operational, bindVars,
                      flowVars, using, boundVars, orphaned, leaked, lost >>
  BY DEF Tell, At
<1>2. \/ /\ m_BoundAdapter /\ m_Operational /\ work' = work + 1 /\ refs' = refs + 1 /\ unheard' = unheard
      \/ /\ m_BoundAdapter /\ m_Operational /\ unheard' = TRUE /\ work' = work /\ refs' = refs
      \/ /\ ~(m_BoundAdapter /\ m_Operational) /\ work' = work /\ refs' = refs /\ unheard' = unheard
  BY DEF Tell
<1>3. TypeInv /\ TodoInv /\ t \in Threads BY DEF IInv, Threads
<1>4. PICK k \in Kinds[t] : \E n :
        Path(k, todo[t]) /\ Goes(t, k, n) /\ Follows(k, Pc(t), IF n = "idle" THEN "end" ELSE n)
  BY <1>1, <1>3, Advance
<1>5. PICK n : Goes(t, k, n) BY <1>4
<1>6. TodoInv' /\ \A u \in Threads \ {t} : Pc(u)' = Pc(u) BY <1>3, <1>5, GoesOn
<1>7. /\ todo' \in [Threads -> Seq(Ops)]
      /\ \A u \in Threads \ {t} : todo'[u] = todo[u]
  BY <1>5 DEF Goes
<1>8. TypeInv'
  <2>1. work \in Nat /\ refs \in Nat /\ unheard \in BOOLEAN BY <1>3 DEF TypeInv
  <2>2. (work' = work \/ work' = work + 1) /\ (refs' = refs \/ refs' = refs + 1) BY <1>2
  <2>3. work' \in Nat /\ refs' \in Nat BY <2>1, <2>2
  <2>4. unheard' = unheard \/ unheard' = TRUE BY <1>2
  <2>5. unheard' \in BOOLEAN BY <2>1, <2>4
  <2> QED BY <2>3, <2>5, <1>1, <1>3, <1>7 DEF TypeInv, bindVars, flowVars
<1>9. /\ \A u \in Lockers : Pc(u)' = Pc(u) /\ todo'[u] = todo[u]
      /\ todo'["user"] = todo["user"] /\ todo'["returner"] = todo["returner"]
  BY <1>6, <1>7 DEF Lockers, Threads, Clients
<1>10. MutexInv' /\ CalmInv' /\ StagesInv' /\ LinkInv' /\ UserInv'
  BY <1>1, <1>9, OuterKeeps
<1>11. UpInv'
  <2>1. m_BoundAdapter' = m_BoundAdapter /\ m_Operational' = m_Operational BY <1>1 DEF bindVars
  <2>2. CASE m_BoundAdapter /\ m_Operational /\ work' = work + 1
    <3>1. work' > 0 BY <2>2, <1>3 DEF TypeInv
    <3> QED BY <3>1 DEF UpInv
  <2>3. CASE unheard' = TRUE BY <2>3 DEF UpInv
  <2>4. CASE ~(m_BoundAdapter /\ m_Operational) BY <2>1, <2>4 DEF UpInv
  <2> QED BY <2>2, <2>3, <2>4, <1>2
<1>12. BindInv'
  <2>1. open BY <1>1 DEF IInv, BindInv
  <2> QED BY <2>1, <1>1, <1>9 DEF IInv, BindInv, Listed, Lockers
<1>13. RefsInv'
  <2>1. One((open \/ Pc("vf") = "release"))' = One(open \/ Pc("vf") = "release")
    BY <1>1, <1>9 DEF One, Lockers
  <2>2. One(todo'["work"] # << >>) = One(todo["work"] # << >>) BY <1>9 DEF Lockers
  <2>3. m_BoundAdapter => binding # None BY DEF IInv, LinkInv, BindInv
  <2>4. /\ One(open \/ Pc("vf") = "release") \in Nat /\ One(todo["work"] # << >>) \in Nat
        /\ work \in Nat /\ refs \in Nat
    BY <1>3 DEF One, TypeInv
  <2>5. /\ refs = One(open \/ Pc("vf") = "release") + work + One(todo["work"] # << >>)
        /\ binding # None <=> refs > 0
    BY DEF IInv, RefsInv
  <2>6. refs' = One(open \/ Pc("vf") = "release") + work' + One(todo["work"] # << >>)
    <3> HIDE DEF One
    <3> QED BY <2>4, <2>5, <1>2
  <2>7. binding' # None <=> refs' > 0
    <3>1. binding' = binding BY <1>1
    <3> QED BY <3>1, <2>3, <2>4, <2>5, <1>2
  <2> HIDE DEF One
  <2> QED BY <2>1, <2>2, <2>6, <2>7 DEF RefsInv
<1> QED BY <1>6, <1>8, <1>10, <1>11, <1>12, <1>13 DEF IInv
-----------------------------------------------------------------------------
(* Sends, returns and OIDs come and go: those who bind and unbind see no   *)
(* more of it than that nothing gets into a flow that is stopped.          *)
LEMMA ClientKeeps ==
  ASSUME IInv,
         \A u \in Lockers : todo'[u] = todo[u], todo'["status"] = todo["status"],
         UNCHANGED << entry, mutex, objVars, bindVars, flow, m_Value, work, orphaned, unheard >>,
         \A f \in FlowNames : out[f] = 0 /\ ~flow[f] => out'[f] = 0,
         out' \in [FlowNames -> Nat]
  PROVE  /\ MutexInv' /\ BindInv' /\ RefsInv' /\ CalmInv' /\ StagesInv' /\ UpInv'
         /\ Listed' = Listed /\ (Flowing' => Flowing)
<1>1. TypeInv BY DEF IInv
<1>2. \A u \in Lockers : Pc(u)' = Pc(u) BY DEF Pc
<1>3. Pc("vf")' = Pc("vf") /\ Pc("adapter")' = Pc("adapter") /\ Pc("work")' = Pc("work")
  BY <1>2 DEF Lockers
<1>4. todo'["vf"] = todo["vf"] /\ todo'["adapter"] = todo["adapter"] /\ todo'["work"] = todo["work"]
  BY DEF Lockers
<1>5. Listed' = Listed BY DEF Listed
<1>6. /\ out["tx"] = 0 /\ ~flow["tx"] => out'["tx"] = 0
      /\ out["rx"] = 0 /\ ~flow["rx"] => out'["rx"] = 0
      /\ out["ref"] = 0 /\ ~flow["ref"] => out'["ref"] = 0
      /\ out["tx"] \in Nat /\ out["rx"] \in Nat /\ out["ref"] \in Nat
  BY <1>1 DEF FlowNames, TypeInv
<1>7. Flowing' => Flowing BY <1>6 DEF Flowing
<1>8. MutexInv' BY <1>2 DEF IInv, MutexInv
<1>9. BindInv' BY <1>3, <1>4, <1>5 DEF IInv, BindInv, objVars
<1>10. RefsInv' BY <1>3, <1>4 DEF IInv, RefsInv, One, objVars
<1>11. Even => Even' BY <1>7 DEF Even, objVars, bindVars
<1>12. BoundIff => BoundIff' BY <1>5 DEF BoundIff, objVars, bindVars
<1>13. CalmInv'
  <2> HIDE DEF Even, BoundIff
  <2> QED BY <1>11, <1>12 DEF IInv, CalmInv
<1>14. StagesInv'
  <2>1. SUFFICES ASSUME NEW u \in Lockers PROVE StageInv(u)' BY DEF StagesInv
  <2>2. Pc(u)' = Pc(u) /\ StageInv(u) BY <1>2 DEF IInv, StagesInv
  <2>3. /\ orphaned' = orphaned /\ entry' = entry /\ m_Started' = m_Started
        /\ m_BoundAdapter' = m_BoundAdapter /\ binding' = binding /\ flow' = flow /\ m_Value' = m_Value
    BY DEF objVars, bindVars
  <2>4. /\ Pc(u) \in {"stop_rx", "wait_rx"} => out'["tx"] = 0
        /\ Pc(u) = "unref" => out'["ref"] = 0
    BY <2>2, <1>6 DEF StageInv
  <2> HIDE DEF Even, BoundIff, Listed, Flowing
  <2> QED BY <2>2, <2>3, <2>4, <1>5, <1>7, <1>11, <1>12 DEF StageInv
<1>15. UpInv'
  <2>1. \A u \in Lockers : Pc(u)' = Pc(u) \/ (Pc(u) \notin Inside /\ Pc(u)' \notin Inside) BY <1>2
  <2>2. UNCHANGED << bindVars, work, m_Operational, unheard >> BY DEF objVars
  <2>3. Pc("work") \in {"lock", "changed"} => Pc("work")' \in {"lock", "changed"} BY <1>3
  <2>4. todo["status"] # << >> => todo'["status"] # << >> OBVIOUS
  <2> QED BY <2>1, <2>2, <2>3, <2>4, UpKeeps
<1> QED BY <1>5, <1>7, <1>8, <1>9, <1>10, <1>13, <1>14, <1>15

(* What a user of the binding leaves of the rest of the invariant.         *)
LEMMA LinkKeeps ==
  ASSUME IInv, Listed' = Listed, Flowing' => Flowing,
         UNCHANGED << objVars, bindVars, flow, m_Value >>,
         lost' = lost, Pc("returner")' = "return" => out'["rx"] > 0
  PROVE  LinkInv'
<1> HIDE DEF Flowing, Listed
<1> QED BY DEF IInv, LinkInv, objVars, bindVars

LEMMA OnlyOut ==
  ASSUME IInv,
         UNCHANGED << entry, mutex, objVars, bindVars, flow, m_Value, work, todo, using, pastVars >>,
         \A f \in FlowNames : out[f] = 0 /\ ~flow[f] => out'[f] = 0,
         out' \in [FlowNames -> Nat],
         Pc("returner") = "return" => out'["rx"] > 0,
         out'["ref"] >= One(todo["user"] # << >>) + One(todo["returner"] # << >>) + One(leaked)
  PROVE  IInv'
<1>1. /\ MutexInv' /\ BindInv' /\ RefsInv' /\ CalmInv' /\ StagesInv' /\ UpInv'
      /\ Listed' = Listed /\ (Flowing' => Flowing)
  BY ClientKeeps DEF pastVars
<1>2. LinkInv'
  <2>1. Pc("returner")' = Pc("returner") BY DEF Pc
  <2> QED BY <2>1, <1>1, LinkKeeps DEF pastVars
<1>3. TypeInv' /\ TodoInv' BY DEF IInv, TypeInv, TodoInv, objVars, bindVars, pastVars
<1>4. UserInv'
  <2> HIDE DEF Listed
  <2> QED BY <1>1 DEF IInv, UserInv, objVars, pastVars, One
<1> QED BY <1>1, <1>2, <1>3, <1>4 DEF IInv

LEMMA ReceiveStep ==
  ASSUME IInv, OnReceive
  PROVE  IInv'
<1>1. /\ flow["rx"] /\ out' = [out EXCEPT !["rx"] = out["rx"] + 1]
      /\ UNCHANGED << entry, mutex, objVars, bindVars, flow, m_Value, work, todo, using, pastVars >>
  BY DEF OnReceive
<1>2. out \in [FlowNames -> Nat] /\ out["rx"] \in Nat BY DEF IInv, TypeInv, FlowNames
<1>3. /\ out' \in [FlowNames -> Nat] /\ out'["rx"] = out["rx"] + 1 /\ out'["tx"] = out["tx"]
      /\ out'["ref"] = out["ref"]
  BY <1>1, <1>2 DEF FlowNames
<1>4. \A f \in FlowNames : out[f] = 0 /\ ~flow[f] => out'[f] = 0 BY <1>1, <1>3 DEF FlowNames
<1>5. Pc("returner") = "return" => out'["rx"] > 0 BY <1>2, <1>3
<1>6. out'["ref"] >= One(todo["user"] # << >>) + One(todo["returner"] # << >>) + One(leaked)
  BY <1>3 DEF IInv, UserInv
<1> QED BY <1>1, <1>3, <1>4, <1>5, <1>6, OnlyOut

LEMMA CompletionStep ==
  ASSUME IInv, OnSendCompletion
  PROVE  IInv'
<1>1. /\ out["tx"] > 0 /\ out' = [out EXCEPT !["tx"] = out["tx"] - 1]
      /\ UNCHANGED << entry, mutex, objVars, bindVars, flow, m_Value, work, todo, using, pastVars >>
  BY DEF OnSendCompletion
<1>2. out \in [FlowNames -> Nat] /\ out["tx"] \in Nat BY DEF IInv, TypeInv, FlowNames
<1>a. out["tx"] - 1 \in Nat BY <1>1, <1>2
<1>3. /\ out' \in [FlowNames -> Nat] /\ out'["rx"] = out["rx"] /\ out'["tx"] = out["tx"] - 1
      /\ out'["ref"] = out["ref"]
  BY <1>1, <1>2, <1>a DEF FlowNames
<1>4. \A f \in FlowNames : out[f] = 0 /\ ~flow[f] => out'[f] = 0 BY <1>1, <1>3 DEF FlowNames
<1>5. Pc("returner") = "return" => out'["rx"] > 0 BY <1>3 DEF IInv, LinkInv
<1>6. out'["ref"] >= One(todo["user"] # << >>) + One(todo["returner"] # << >>) + One(leaked)
  BY <1>3 DEF IInv, UserInv
<1> QED BY <1>1, <1>3, <1>4, <1>5, <1>6, OnlyOut

(* The OIDs that are with the function: those whose users have gone.       *)
LEMMA UsersCounted ==
  Cardinality({u \in Clients : todo[u] # << >>}) = One(todo["user"] # << >>) + One(todo["returner"] # << >>)
<1>1. /\ IsFiniteSet({}) /\ Cardinality({}) = 0 BY FS_EmptySet
<1>2. /\ IsFiniteSet({"user"}) /\ Cardinality({"user"}) = 1
      /\ Cardinality({"returner"}) = 1
  BY FS_Singleton
<1>3. Cardinality({"user"} \cup {"returner"}) = 1 + 1
  <2>1. "returner" \notin {"user"} OBVIOUS
  <2> QED BY <2>1, <1>2, FS_AddElement
<1>4. PICK S : S = {u \in Clients : todo[u] # << >>} OBVIOUS
<1>5. Cardinality(S) = One(todo["user"] # << >>) + One(todo["returner"] # << >>)
  <2>1. CASE todo["user"] = << >> /\ todo["returner"] = << >>
    <3>1. Cardinality(S) = 0
      <4>1. S = {} BY <1>4, <2>1 DEF Clients
      <4> QED BY <4>1, <1>1
    <3> QED BY <3>1, <2>1 DEF One
  <2>2. CASE todo["user"] # << >> /\ todo["returner"] = << >>
    <3>1. Cardinality(S) = 1
      <4>1. S = {"user"} BY <1>4, <2>2 DEF Clients
      <4> QED BY <4>1, <1>2
    <3> QED BY <3>1, <2>2 DEF One
  <2>3. CASE todo["user"] = << >> /\ todo["returner"] # << >>
    <3>1. Cardinality(S) = 1
      <4>1. S = {"returner"} BY <1>4, <2>3 DEF Clients
      <4> QED BY <4>1, <1>2
    <3> QED BY <3>1, <2>3 DEF One
  <2>4. CASE todo["user"] # << >> /\ todo["returner"] # << >>
    <3>1. Cardinality(S) = 1 + 1
      <4>1. S = {"user"} \cup {"returner"} BY <1>4, <2>4 DEF Clients
      <4> QED BY <4>1, <1>3
    <3> QED BY <3>1, <2>4 DEF One
  <2> QED BY <2>1, <2>2, <2>3, <2>4
<1> QED BY <1>4, <1>5, Zenon

LEMMA OidStep ==
  ASSUME IInv, OidComplete
  PROVE  IInv'
<1>1. /\ out["ref"] > Cardinality({u \in Clients : todo[u] # << >>}) + One(leaked)
      /\ out' = [out EXCEPT !["ref"] = out["ref"] - 1]
      /\ UNCHANGED << entry, mutex, objVars, bindVars, flow, m_Value, work, todo, using, pastVars >>
  BY DEF OidComplete, One
<1>2. out \in [FlowNames -> Nat] /\ out["ref"] \in Nat BY DEF IInv, TypeInv, FlowNames
<1>3. /\ One(todo["user"] # << >>) \in Nat /\ One(todo["returner"] # << >>) \in Nat /\ One(leaked) \in Nat
  BY DEF One
<1>4. out["ref"] > One(todo["user"] # << >>) + One(todo["returner"] # << >>) + One(leaked)
  BY <1>1, UsersCounted
<1>5. /\ out["ref"] - 1 \in Nat /\ out["ref"] # 0
      /\ out["ref"] - 1 >= One(todo["user"] # << >>) + One(todo["returner"] # << >>) + One(leaked)
  <2> HIDE DEF One
  <2> QED BY <1>2, <1>3, <1>4
<1>6. /\ out' \in [FlowNames -> Nat] /\ out'["rx"] = out["rx"] /\ out'["tx"] = out["tx"]
      /\ out'["ref"] = out["ref"] - 1
  BY <1>1, <1>2, <1>5 DEF FlowNames
<1>7. \A f \in FlowNames : out[f] = 0 /\ ~flow[f] => out'[f] = 0 BY <1>5, <1>6 DEF FlowNames
<1>8. Pc("returner") = "return" => out'["rx"] > 0 BY <1>6 DEF IInv, LinkInv
<1>9. out'["ref"] >= One(todo["user"] # << >>) + One(todo["returner"] # << >>) + One(leaked)
  BY <1>5, <1>6
<1> QED BY <1>1, <1>6, <1>7, <1>8, <1>9, OnlyOut

(* A step of a user leaves the others' lists.                              *)
LEMMA ClientGoes ==
  ASSUME IInv, NEW u \in Clients, NEW k \in Kinds[u], NEW n, Goes(u, k, n)
  PROVE  /\ TodoInv' /\ todo' \in [Threads -> Seq(Ops)] /\ Pc(u)' = n
         /\ \A t \in Lockers : todo'[t] = todo[t]
         /\ todo'["status"] = todo["status"]
         /\ \A v \in Clients \ {u} : todo'[v] = todo[v] /\ Pc(v)' = Pc(v)
<1>1. u \in Threads /\ Lockers \cup {"status"} \cup (Clients \ {u}) \subseteq Threads \ {u}
  BY DEF Threads, Lockers, Clients
<1>2. TodoInv' /\ Pc(u)' = n /\ \A v \in Threads \ {u} : Pc(v)' = Pc(v) BY <1>1, GoesOn DEF IInv
<1>3. todo' \in [Threads -> Seq(Ops)] /\ \A v \in Threads \ {u} : todo'[v] = todo[v] BY DEF Goes
<1> QED BY <1>1, <1>2, <1>3

LEMMA ReferenceStep ==
  ASSUME IInv, NEW u \in Clients, NEW what, Reference(u, what),
         u = "user" => what \in {"send", "oid"}, u = "returner" => what = "return"
  PROVE  IInv'
<1>1. /\ todo[u] = << >> /\ (what = "return" => out["rx"] > 0)
      /\ UNCHANGED << entry, mutex, objVars, bindVars, flow, m_Value, work, boundVars, orphaned, unheard, leaked >>
  BY DEF Reference, Free
<1>2. TypeInv /\ TodoInv /\ u \in Threads BY DEF IInv, Threads
<1>3. CASE ~(flow["ref"] /\ m_Value # None)
  <2>1. lost' = (lost \/ what = "return") /\ UNCHANGED << out, using, todo >> BY <1>3 DEF Reference
  <2>2. what # "return"
    <3>1. SUFFICES ASSUME what = "return" PROVE FALSE OBVIOUS
    <3>2. Flowing BY <3>1, <1>1 DEF Flowing
    <3>3. m_BoundAdapter /\ flow["ref"] /\ m_Value = binding BY <3>2 DEF IInv, LinkInv
    <3>4. binding # None BY <3>3 DEF IInv, LinkInv, BindInv
    <3> QED BY <3>3, <3>4, <1>3
  <2>3. lost \in BOOLEAN BY <1>2 DEF TypeInv
  <2>4. lost' = lost BY <2>1, <2>2, <2>3
  <2>5. bindings' \in Nat BY <1>1, <1>2 DEF TypeInv, objVars
  <2> QED BY <1>1, <2>1, <2>4, <2>5, Same DEF objVars, flowVars, pastVars
<1>4. CASE flow["ref"] /\ m_Value # None
  <2>1. /\ out' = [out EXCEPT !["ref"] = out["ref"] + 1] /\ using' = [using EXCEPT ![u] = m_Value]
        /\ todo' = [todo EXCEPT ![u] = << what >>] /\ lost' = lost
    BY <1>4 DEF Reference
  <2>2. PICK k \in Kinds[u] : Follows(k, what, "end") /\ what \in Ops
    <3>1. CASE u = "user" BY <3>1 DEF Kinds, Follows, Ops
    <3>2. CASE u = "returner" BY <3>2 DEF Kinds, Follows, Ops
    <3> QED BY <3>1, <3>2 DEF Clients
  <2>3. Goes(u, k, what) BY <2>1, <2>2, <1>2, BeginOne
  <2>4. /\ TodoInv' /\ todo' \in [Threads -> Seq(Ops)] /\ Pc(u)' = what
        /\ \A t \in Lockers : todo'[t] = todo[t]
        /\ todo'["status"] = todo["status"]
        /\ \A v \in Clients \ {u} : todo'[v] = todo[v] /\ Pc(v)' = Pc(v)
    BY <2>3, ClientGoes
  <2>5. todo'[u] # << >> BY <2>1, <1>2 DEF TypeInv
  <2>6. out \in [FlowNames -> Nat] /\ out["ref"] \in Nat BY <1>2 DEF TypeInv, FlowNames
  <2>7. /\ out' \in [FlowNames -> Nat] /\ out'["rx"] = out["rx"] /\ out'["tx"] = out["tx"]
        /\ out'["ref"] = out["ref"] + 1
    BY <2>1, <2>6 DEF FlowNames
  <2>8. \A f \in FlowNames : out[f] = 0 /\ ~flow[f] => out'[f] = 0 BY <2>7, <1>4 DEF FlowNames
  <2>9. /\ MutexInv' /\ BindInv' /\ RefsInv' /\ CalmInv' /\ StagesInv' /\ UpInv'
        /\ Listed' = Listed /\ (Flowing' => Flowing)
    BY <1>1, <2>4, <2>7, <2>8, ClientKeeps
  <2>10. LinkInv'
    <3>1. Pc("returner")' = "return" => out'["rx"] > 0
      <4>1. CASE u = "returner" BY <4>1, <1>1, <2>7
      <4>2. CASE u = "user"
        <5>1. Pc("returner")' = Pc("returner") BY <4>2, <2>4 DEF Clients
        <5> QED BY <5>1, <2>7 DEF IInv, LinkInv
      <4> QED BY <4>1, <4>2 DEF Clients
    <3> QED BY <3>1, <1>1, <2>1, <2>9, LinkKeeps
  <2>11. /\ using' \in [Clients -> Nat] /\ using'[u] = m_Value
         /\ \A v \in Clients \ {u} : using'[v] = using[v]
    BY <2>1, <1>2 DEF TypeInv
  <2>12. TypeInv' BY <1>1, <1>2, <2>1, <2>4, <2>7, <2>11 DEF TypeInv, objVars, bindVars
  <2>13. UserInv'
    <3>1. \A v \in Clients : using'[v] # None <=> todo'[v] # << >>
      BY <1>4, <2>4, <2>5, <2>11 DEF IInv, UserInv
    <3>2. out'["ref"] >= One(todo'["user"] # << >>) + One(todo'["returner"] # << >>) + One(leaked')
      <4>1. out["ref"] >= One(todo["user"] # << >>) + One(todo["returner"] # << >>) + One(leaked)
        BY DEF IInv, UserInv
      <4>2. leaked' = leaked BY <1>1
      <4>3. CASE u = "user"
        <5>1. todo'["returner"] = todo["returner"] BY <4>3, <2>4 DEF Clients
        <5> QED BY <4>1, <4>2, <4>3, <5>1, <1>1, <2>6, <2>7 DEF One
      <4>4. CASE u = "returner"
        <5>1. todo'["user"] = todo["user"] BY <4>4, <2>4 DEF Clients
        <5> QED BY <4>1, <4>2, <4>4, <5>1, <1>1, <2>6, <2>7 DEF One
      <4> QED BY <4>3, <4>4 DEF Clients
    <3>3. ~orphaned => \A v \in Clients : using'[v] # None => m_Value = using'[v]
      BY <2>11 DEF IInv, UserInv
    <3>4. m_Value' = m_Value /\ binding' = binding /\ orphaned' = orphaned BY <1>1 DEF objVars
    <3> HIDE DEF Listed, One
    <3> QED BY <3>1, <3>2, <3>3, <3>4, <2>9 DEF IInv, UserInv
  <2> QED BY <2>4, <2>9, <2>10, <2>12, <2>13 DEF IInv
<1> QED BY <1>3, <1>4

LEMMA UseStep ==
  ASSUME IInv, NEW u \in Clients, Use(u)
  PROVE  IInv'
<1>1. /\ todo[u] # << >> /\ using' = [using EXCEPT ![u] = None] /\ Then(u, << >>)
      /\ UNCHANGED << entry, mutex, objVars, bindVars, flow, m_Value, work, boundVars, orphaned, unheard, lost >>
  BY DEF Use, At
<1>2. TypeInv /\ TodoInv /\ u \in Threads BY DEF IInv, Threads
<1>3. PICK k \in Kinds[u] : \E n :
        Path(k, todo[u]) /\ Goes(u, k, n) /\ Follows(k, Pc(u), IF n = "idle" THEN "end" ELSE n)
  BY <1>1, <1>2, Advance
<1>4. PICK n : Path(k, todo[u]) /\ Goes(u, k, n) /\ Follows(k, Pc(u), IF n = "idle" THEN "end" ELSE n)
  BY <1>3
<1>5. (u = "user" /\ k = "use") \/ (u = "returner" /\ k = "return") BY <1>3 DEF Kinds, Clients
<1>6. /\ u = "user" => Pc(u) \in {"send", "oid"}
      /\ u = "returner" => Pc(u) = "return"
      /\ n \in {"idle", "end"}
  BY <1>4, <1>5 DEF Follows
<1>7. n = "idle"
  <2>1. SUFFICES ASSUME n # "idle" PROVE FALSE OBVIOUS
  <2>2. Path(k, todo'[u]) /\ Head(todo'[u]) = n BY <2>1, <1>4 DEF Goes
  <2>3. PICK s \in Seq(Ops) : s = todo'[u] BY <1>2, <1>4 DEF Goes
  <2>4. \E m : Follows(k, n, m) BY <2>2, <2>3, NoIdle
  <2> QED BY <2>4, <2>1, <1>5, <1>6 DEF Follows
<1>8. todo'[u] = << >> BY <1>4, <1>7 DEF Goes
<1>9. /\ TodoInv' /\ todo' \in [Threads -> Seq(Ops)] /\ Pc(u)' = n
      /\ \A t \in Lockers : todo'[t] = todo[t]
      /\ todo'["status"] = todo["status"]
      /\ \A v \in Clients \ {u} : todo'[v] = todo[v] /\ Pc(v)' = Pc(v)
  BY <1>4, ClientGoes
<1>10. out \in [FlowNames -> Nat] /\ out["tx"] \in Nat /\ out["rx"] \in Nat /\ out["ref"] \in Nat
  BY <1>2 DEF TypeInv, FlowNames
<1>11. out["ref"] >= One(todo["user"] # << >>) + One(todo["returner"] # << >>) + One(leaked)
  BY DEF IInv, UserInv
<1>12. out["ref"] > 0
  <2>1. CASE u = "user" BY <2>1, <1>1, <1>10, <1>11 DEF One
  <2>2. CASE u = "returner" BY <2>2, <1>1, <1>10, <1>11 DEF One
  <2> QED BY <2>1, <2>2 DEF Clients
<1>13. /\ out' \in [FlowNames -> Nat] /\ leaked' \in BOOLEAN
       /\ \A f \in FlowNames : out[f] = 0 /\ ~flow[f] => out'[f] = 0
       /\ (out'["ref"] = out["ref"] /\ u = "user") \/ (out'["ref"] = out["ref"] - 1 /\ leaked' = leaked)
       /\ u = "user" => out'["rx"] = out["rx"]
  <2>0. Pc(u) = Head(todo[u]) BY <1>1 DEF Pc
  <2>1. CASE Pc(u) = "send"
    <3>1. PICK c : c = IF flow["tx"] /\ out["tx"] < MaxOut THEN out["tx"] + 1 ELSE out["tx"] OBVIOUS
    <3>2. c \in Nat /\ out["ref"] - 1 \in Nat /\ (out["tx"] = 0 /\ ~flow["tx"] => c = 0)
      BY <3>1, <1>10, <1>12
    <3>3. leaked' = leaked /\ out' = [[out EXCEPT !["tx"] = c] EXCEPT !["ref"] = out["ref"] - 1]
      BY <2>0, <2>1, <3>1 DEF Use, At
    <3>4. /\ out' \in [FlowNames -> Nat] /\ out'["rx"] = out["rx"] /\ out'["tx"] = c
          /\ out'["ref"] = out["ref"] - 1
      BY <1>10, <3>2, <3>3 DEF FlowNames
    <3>5. \A f \in FlowNames : out[f] = 0 /\ ~flow[f] => out'[f] = 0
      BY <1>10, <1>12, <3>2, <3>4 DEF FlowNames
    <3>6. leaked' \in BOOLEAN BY <3>3, <1>2 DEF TypeInv
    <3> QED BY <3>3, <3>4, <3>5, <3>6
  <2>2. CASE Pc(u) = "return"
    <3>1. u = "returner" BY <2>2, <1>6 DEF Clients
    <3>2. out["rx"] > 0 BY <2>2, <3>1 DEF IInv, LinkInv
    <3>3. leaked' = leaked
          /\ out' = [[out EXCEPT !["rx"] = out["rx"] - 1] EXCEPT !["ref"] = out["ref"] - 1]
      BY <2>0, <2>2 DEF Use, At
    <3>4. out["rx"] - 1 \in Nat /\ out["ref"] - 1 \in Nat BY <1>10, <1>12, <3>2
    <3>5. /\ out' \in [FlowNames -> Nat] /\ out'["tx"] = out["tx"] /\ out'["ref"] = out["ref"] - 1
          /\ out'["rx"] = out["rx"] - 1
      BY <1>10, <3>3, <3>4 DEF FlowNames
    <3>6. \A f \in FlowNames : out[f] = 0 /\ ~flow[f] => out'[f] = 0
      BY <1>10, <1>12, <3>2, <3>5 DEF FlowNames
    <3>7. leaked' \in BOOLEAN BY <3>3, <1>2 DEF TypeInv
    <3> QED BY <3>1, <3>3, <3>5, <3>6, <3>7
  <2>3. CASE Pc(u) = "oid"
    <3>1. u = "user" BY <2>3, <1>6 DEF Clients
    <3>2. out' = out /\ leaked' \in {leaked, leaked \/ MayFail} BY <2>0, <2>3 DEF Use, At
    <3>3. leaked' \in BOOLEAN
      <4>1. leaked \in BOOLEAN BY <1>2 DEF TypeInv
      <4>2. CASE MayFail BY <4>1, <4>2, <3>2
      <4>3. CASE ~MayFail BY <4>1, <4>3, <3>2
      <4> QED BY <4>2, <4>3
    <3> QED BY <3>1, <3>2, <3>3, <1>10
  <2> QED BY <2>1, <2>2, <2>3, <1>6 DEF Clients
<1>14. /\ MutexInv' /\ BindInv' /\ RefsInv' /\ CalmInv' /\ StagesInv' /\ UpInv'
       /\ Listed' = Listed /\ (Flowing' => Flowing)
  BY <1>1, <1>9, <1>13, ClientKeeps
<1>15. LinkInv'
  <2>1. Pc("returner")' = "return" => out'["rx"] > 0
    <3>1. CASE u = "returner" BY <3>1, <1>7, <1>9
    <3>2. CASE u = "user"
      <4>1. Pc("returner")' = Pc("returner") BY <3>2, <1>9 DEF Clients
      <4> QED BY <4>1, <3>2, <1>13 DEF IInv, LinkInv
    <3> QED BY <3>1, <3>2 DEF Clients
  <2> QED BY <2>1, <1>1, <1>14, LinkKeeps
<1>16. /\ using' \in [Clients -> Nat] /\ using'[u] = None
       /\ \A v \in Clients \ {u} : using'[v] = using[v]
  BY <1>1, <1>2 DEF TypeInv, None
<1>17. TypeInv' BY <1>1, <1>2, <1>9, <1>13, <1>16 DEF TypeInv, objVars, bindVars
<1>18. UserInv'
  <2>1. \A v \in Clients : using'[v] # None <=> todo'[v] # << >>
    BY <1>8, <1>9, <1>16 DEF IInv, UserInv
  <2>2. out'["ref"] >= One(todo'["user"] # << >>) + One(todo'["returner"] # << >>) + One(leaked')
    <3>1. CASE u = "user"
      <4>1. todo'["returner"] = todo["returner"] BY <3>1, <1>9 DEF Clients
      <4>2. One(todo["user"] # << >>) = 1 /\ One(todo'["user"] # << >>) = 0 BY <3>1, <1>1, <1>8 DEF One
      <4>3. /\ One(leaked) \in Nat /\ One(leaked') \in Nat /\ One(leaked') <= 1
            /\ One(todo["returner"] # << >>) \in Nat
        BY DEF One
      <4>4. out["ref"] >= 1 + One(todo["returner"] # << >>) + One(leaked) BY <4>2, <1>11
      <4>5. CASE out'["ref"] = out["ref"]
        <5> HIDE DEF One
        <5> QED BY <4>1, <4>2, <4>3, <4>4, <4>5, <1>10
      <4>6. CASE out'["ref"] = out["ref"] - 1 /\ leaked' = leaked
        <5> HIDE DEF One
        <5> QED BY <4>1, <4>2, <4>3, <4>4, <4>6, <1>10
      <4> QED BY <4>5, <4>6, <1>13
    <3>2. CASE u = "returner"
      <4>1. todo'["user"] = todo["user"] BY <3>2, <1>9 DEF Clients
      <4>2. One(todo["returner"] # << >>) = 1 /\ One(todo'["returner"] # << >>) = 0
        BY <3>2, <1>1, <1>8 DEF One
      <4>3. One(leaked) \in Nat /\ One(todo["user"] # << >>) \in Nat BY DEF One
      <4>4. out["ref"] >= One(todo["user"] # << >>) + 1 + One(leaked) BY <4>2, <1>11
      <4>5. out'["ref"] = out["ref"] - 1 /\ leaked' = leaked BY <3>2, <1>13
      <4> HIDE DEF One
      <4> QED BY <4>1, <4>2, <4>3, <4>4, <4>5, <1>10
    <3> QED BY <3>1, <3>2 DEF Clients
  <2>3. ~orphaned => \A v \in Clients : using'[v] # None => m_Value = using'[v]
    BY <1>16 DEF IInv, UserInv
  <2>4. m_Value' = m_Value /\ binding' = binding /\ orphaned' = orphaned BY <1>1 DEF objVars
  <2> HIDE DEF Listed, One
  <2> QED BY <2>1, <2>2, <2>3, <2>4, <1>14 DEF IInv, UserInv
<1> QED BY <1>9, <1>14, <1>15, <1>17, <1>18 DEF IInv
-----------------------------------------------------------------------------
LEMMA InitHolds == Init => IInv
<1> SUFFICES ASSUME Init PROVE IInv OBVIOUS
<1>1. \A t \in Threads : todo[t] = << >> /\ Pc(t) = "idle" BY DEF Init, Pc
<1>2. /\ todo["vf"] = << >> /\ todo["adapter"] = << >> /\ todo["work"] = << >> /\ todo["status"] = << >>
      /\ Pc("vf") = "idle" /\ Pc("returner") = "idle" /\ todo["user"] = << >> /\ todo["returner"] = << >>
  BY <1>1 DEF Threads, Clients
<1>3. \A t \in Lockers : Pc(t) = "idle" BY <1>1 DEF Threads, Lockers
<1>4. /\ flow["tx"] = FALSE /\ flow["rx"] = FALSE /\ out["tx"] = 0 /\ out["rx"] = 0 /\ out["ref"] = 0
      /\ ~Listed /\ ~Flowing
  BY DEF Init, FlowNames, Listed, Flowing
<1>5. TypeInv
  <2>1. << >> \in Seq(Ops) OBVIOUS
  <2> QED BY <2>1 DEF Init, TypeInv, None
<1>6. TodoInv BY <1>1 DEF TodoInv
<1>7. MutexInv BY <1>3 DEF Init, MutexInv, Inside, Lockers
<1>8. BindInv
  <2>1. \A k : ~Path(k, << >>) BY DEF Path
  <2> QED BY <2>1, <1>2, <1>4 DEF Init, BindInv
<1>9. RefsInv BY <1>2 DEF Init, RefsInv, One
<1>10. LinkInv BY <1>2, <1>4 DEF Init, LinkInv
<1>11. CalmInv
  <2>1. Even BY <1>4 DEF Init, Even
  <2>2. BoundIff BY <1>4 DEF Init, BoundIff
  <2> QED BY <2>1, <2>2 DEF CalmInv
<1>12. StagesInv BY <1>3 DEF StagesInv, StageInv, EvenOps, BoundOps, StopOps
<1>13. UpInv BY DEF Init, UpInv
<1>14. UserInv BY <1>2, <1>4 DEF Init, UserInv, One, Clients
<1> QED BY <1>5, <1>6, <1>7, <1>8, <1>9, <1>10, <1>11, <1>12, <1>13, <1>14 DEF IInv

LEMMA NextKeeps == IInv /\ [Next]_vars => IInv'
<1> SUFFICES ASSUME IInv, [Next]_vars PROVE IInv' OBVIOUS
<1>1. \A t \in Lockers : BindingStep(t) => IInv'
  BY LockStep, UnlockStep, StopFlowStep, FoundStep, AttachedStep, HaltedStep, DetachStep, UnsetStep
  DEF BindingStep
<1>2. "vf" \in Lockers /\ "adapter" \in Lockers /\ "work" \in Lockers BY DEF Lockers
<1>3. CASE VfStep
  BY <1>1, <1>2, <1>3, AddBindingStep, RemoveBindingStep, CloseStep, ReleaseStep DEF VfStep
<1>4. CASE Bind \/ Unbind BY <1>4, BindStep, UnbindStep
<1>5. CASE AdapterStep BY <1>1, <1>2, <1>5, AddAdapterStep, RemoveAdapterStep DEF AdapterStep
<1>6. CASE RegisterAdapter BY <1>6, RegisterStep
<1>7. CASE WorkStep BY <1>1, <1>2, <1>7, FiredStep, ChangedStep, WorkDoneStep DEF WorkStep
<1>8. CASE StatusIndication \/ Tell BY <1>8, StatusStep, TellStep
<1>9. CASE Reference("user", "send") \/ Reference("user", "oid") \/ Return
  <2>1. "user" \in Clients /\ "returner" \in Clients BY DEF Clients
  <2>2. CASE Reference("user", "send") BY <2>1, <2>2, ReferenceStep
  <2>3. CASE Reference("user", "oid") BY <2>1, <2>3, ReferenceStep
  <2>4. CASE Return
    <3>1. Reference("returner", "return") BY <2>4 DEF Return
    <3> QED BY <2>1, <3>1, ReferenceStep
  <2> QED BY <1>9, <2>2, <2>3, <2>4
<1>10. CASE \E u \in Clients : Use(u) BY <1>10, UseStep
<1>11. CASE OnReceive \/ OnSendCompletion \/ OidComplete
  BY <1>11, ReceiveStep, CompletionStep, OidStep
<1>12. CASE UNCHANGED vars
  <2>1. bindings' \in Nat BY <1>12 DEF IInv, TypeInv, vars, objVars
  <2> QED BY <1>12, <2>1, Same DEF vars, objVars, bindVars, flowVars, pastVars
<1> QED BY <1>3, <1>4, <1>5, <1>6, <1>7, <1>8, <1>9, <1>10, <1>11, <1>12 DEF Next

LEMMA IsSound == IInv => ProtocolSound
<1> SUFFICES ASSUME IInv PROVE ProtocolSound OBVIOUS
<1>1. TypeInv BY DEF IInv
<1>2. (Listed => open /\ binding # None) /\ (m_BoundAdapter => Listed)
  BY DEF IInv, BindInv, LinkInv
<1>3. ReferencedIsThere
  <2>1. ASSUME ~orphaned, NEW u \in Clients, using[u] # None PROVE binding = using[u] /\ open
    <3>1. m_Value = using[u] BY <2>1 DEF IInv, UserInv
    <3>2. m_Value = binding /\ Listed BY <2>1, <3>1 DEF IInv, UserInv
    <3> QED BY <3>1, <3>2, <1>2
  <2>2. ~orphaned /\ m_Value # None => m_Value = binding BY DEF IInv, UserInv
  <2> QED BY <2>1, <2>2 DEF ReferencedIsThere
<1>4. OutIsBound BY <1>2 DEF OutIsBound, IInv, LinkInv, Flowing
<1>5. UpIsStarted
  <2>1. ASSUME Free("vf"), Free("adapter"), Free("work"), Free("status"), work = 0, ~unheard,
               m_Operational, open, entry.adapter, compatible
        PROVE  m_Started
    <3>1. Pc("vf") = "idle" /\ Pc("adapter") = "idle" /\ Pc("work") = "idle" BY <2>1 DEF Free, Pc
    <3>2. Listed BY <2>1, <3>1 DEF IInv, BindInv
    <3>3. \A t \in Lockers : Pc(t) = "idle" BY <3>1 DEF Lockers
    <3>4. mutex = "none"
      <4>1. \A t \in Lockers : mutex # t BY <3>3 DEF IInv, MutexInv, Inside
      <4> QED BY <4>1, <1>1 DEF TypeInv
    <3>5. m_BoundAdapter BY <3>2, <3>4, <2>1 DEF IInv, CalmInv, BoundIff
    <3>6. \A t \in Lockers : Pc(t) \notin LateOps BY <3>3 DEF LateOps, StopOps
    <3>7. /\ ~(work > 0) /\ ~unheard /\ todo["status"] = << >>
          /\ Pc("work") \notin {"lock", "changed"}
      BY <2>1, <3>1 DEF Free
    <3> QED BY <3>5, <3>6, <3>7, <2>1 DEF IInv, UpInv
  <2>2. ASSUME mutex = "none"
        PROVE  /\ (flow["tx"] <=> m_Started) /\ (flow["rx"] <=> m_Started)
               /\ m_Started => m_BoundAdapter /\ m_Value = binding /\ entry.adapter
    <3>1. Even /\ BoundIff BY <2>2 DEF IInv, CalmInv
    <3>2. m_Started => m_BoundAdapter BY DEF IInv, LinkInv
    <3>3. m_Started => m_Value = binding /\ entry.adapter BY <3>1, <3>2 DEF Even, BoundIff
    <3> QED BY <3>1, <3>2, <3>3 DEF Even
  <2> QED BY <2>1, <2>2 DEF UpIsStarted
<1>6. KeptWhileUsed
  <2>1. open => binding # None BY DEF IInv, BindInv
  <2>2. work > 0 \/ todo["work"] # << >> => refs > 0
    <3>1. /\ refs = One(open \/ Pc("vf") = "release") + work + One(todo["work"] # << >>)
          /\ work \in Nat /\ refs \in Nat
          /\ One(open \/ Pc("vf") = "release") \in Nat
      BY <1>1 DEF IInv, RefsInv, TypeInv, One
    <3>2. One(todo["work"] # << >>) \in Nat /\ (todo["work"] # << >> => One(todo["work"] # << >>) = 1)
      BY DEF One
    <3> HIDE DEF One
    <3> QED BY <3>1, <3>2
  <2>3. binding # None <=> refs > 0 BY DEF IInv, RefsInv
  <2> QED BY <2>1, <2>2, <2>3 DEF KeptWhileUsed, At
<1> QED BY <1>3, <1>4, <1>5, <1>6 DEF ProtocolSound

(* A binding somebody references is there, packets are with the function   *)
(* only while it is open and bound, and a function that is up is in use:   *)
(* for any number of bindings, changes and packets.                        *)
THEOREM ProtocolIsSound == Spec => []ProtocolSound
<1>1. Init => IInv BY InitHolds
<1>2. IInv /\ [Next]_vars => IInv' BY NextKeeps
<1>3. IInv => ProtocolSound BY IsSound
<1> QED BY <1>1, <1>2, <1>3, PTL DEF Spec
=============================================================================
