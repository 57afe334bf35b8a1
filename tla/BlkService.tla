----------------------------- MODULE BlkService -----------------------------
(***************************************************************************)
(* What the virtio_blk driver promises the file system that calls          *)
(* DSK_IOControl: a request is refused without touching the disk, or each  *)
(* of its sectors is carried out exactly once between the call and the     *)
(* return, and the status returned tells which.                            *)
(***************************************************************************)
EXTENDS Integers, Sequences

CONSTANTS
  Threads,    (* callers of DSK_IOControl                                  *)
  Requests,   (* the SG_REQs they may pass: records with a field secs, one *)
              (* entry per sector, and a field write                       *)
  NoRequest,  (* a request of no sector: a thread that has not called yet  *)
  ReadOnly    (* the disk offers VIRTIO_BLK_F_RO                           *)

VARIABLES
  call,     (* call[t]: "out", "in" a call, or "back" with a result        *)
  request,  (* request[t]: the request of the current call                 *)
  done,     (* done[t][k]: "todo", "ok" or "err" for its k-th sector       *)
  result    (* result[t]: sr_status, pending until t comes back            *)

bvars == << call, request, done, result >>

Refusals == {"ERROR_INVALID_PARAMETER", "ERROR_SECTOR_NOT_FOUND",
             "ERROR_WRITE_PROTECT", "ERROR_GEN_FAILURE"}
Fault(r) == IF r.write THEN "ERROR_WRITE_FAULT" ELSE "ERROR_READ_FAULT"

Untouched(r) == [k \in DOMAIN r.secs |-> "todo"]

Init ==
  /\ call = [t \in Threads |-> "out"]
  /\ request = [t \in Threads |-> NoRequest]
  /\ done = [t \in Threads |-> Untouched(request[t])]
  /\ result = [t \in Threads |-> "ERROR_IO_PENDING"]

Call(t, r) ==
  /\ call[t] = "out"
  /\ call' = [call EXCEPT ![t] = "in"]
  /\ request' = [request EXCEPT ![t] = r]
  /\ done' = [done EXCEPT ![t] = Untouched(r)]
  /\ UNCHANGED result

(* A request refused on the spot.                                          *)
Refuse(t, r, s) ==
  /\ call[t] = "out"
  /\ s \in Refusals
  /\ call' = [call EXCEPT ![t] = "back"]
  /\ request' = [request EXCEPT ![t] = r]
  /\ done' = [done EXCEPT ![t] = Untouched(r)]
  /\ result' = [result EXCEPT ![t] = s]

(* The disk carries out one sector of a request that is being served.      *)
Perform(t, k, res) ==
  /\ call[t] = "in"
  /\ done[t][k] = "todo"
  /\ request[t].write => ~ReadOnly
  /\ done' = [done EXCEPT ![t][k] = res]
  /\ UNCHANGED << call, request, result >>

Outcome(t) == {done[t][k] : k \in DOMAIN done[t]}

(* ERROR_GEN_FAILURE is also what a call returns when the pages could not  *)
(* be unlocked after the work was done.                                    *)
MayReturn(t, s) ==
  \/ s = "ERROR_SUCCESS" /\ Outcome(t) \subseteq {"ok"}
  \/ s = Fault(request[t]) /\ Outcome(t) \subseteq {"ok", "err"} /\ "err" \in Outcome(t)
  \/ s \in Refusals /\ Outcome(t) \subseteq {"todo"}
  \/ s = "ERROR_GEN_FAILURE" /\ "todo" \notin Outcome(t)

Return(t, s) ==
  /\ call[t] = "in"
  /\ MayReturn(t, s)
  /\ call' = [call EXCEPT ![t] = "back"]
  /\ result' = [result EXCEPT ![t] = s]
  /\ UNCHANGED << request, done >>

(* The caller takes the result, and the request is forgotten.              *)
Take(t) ==
  /\ call[t] = "back"
  /\ call' = [call EXCEPT ![t] = "out"]
  /\ request' = [request EXCEPT ![t] = NoRequest]
  /\ done' = [done EXCEPT ![t] = Untouched(NoRequest)]
  /\ result' = [result EXCEPT ![t] = "ERROR_IO_PENDING"]

Statuses == Refusals \cup {"ERROR_SUCCESS", "ERROR_READ_FAULT", "ERROR_WRITE_FAULT"}

Next ==
  \E t \in Threads :
    \/ \E r \in Requests : Call(t, r) \/ \E s \in Refusals : Refuse(t, r, s)
    \/ \E k \in DOMAIN done[t], res \in {"ok", "err"} : Perform(t, k, res)
    \/ \E s \in Statuses : Return(t, s)
    \/ Take(t)

Spec == Init /\ [][Next]_bvars
=============================================================================
