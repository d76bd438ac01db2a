---------------------------- MODULE BlockDevice ----------------------------
(***************************************************************************)
(* What every layer of the read path promises to the layer above it: a     *)
(* read is exact (block_device.hpp, "Exact read").  It answers with all of *)
(* the requested bytes as they stand on the medium, or it fails; and it    *)
(* fails only for a range outside the device or with an unreadable byte    *)
(* within Reach of it.  Reach is what look-ahead and page fills add to a   *)
(* request; a device without caches has Reach(q) = Range(q).               *)
(*                                                                         *)
(* A byte's value is its address: the medium never changes, so this is as  *)
(* much as an answer can get wrong.                                        *)
(***************************************************************************)
EXTENDS Naturals, Sequences

CONSTANTS
  Readers,     \* threads that read the device
  Size,        \* size_bytes()
  Requests,    \* the requests they make: records [off, len]
  Reach(_)     \* bytes whose failure may fail the request

VARIABLES
  bad,         \* unreadable bytes of the medium
  request,     \* per reader: the request it is waiting for
  answer       \* per reader: Idle, Waiting, or the answer

deviceVars == <<bad, request, answer>>

Idle       == [state |-> "idle"]
Waiting    == [state |-> "waiting"]
Failed     == [state |-> "failed"]
Read(data) == [state |-> "read", data |-> data]

InDevice(q) == q.off <= Size /\ q.len <= Size - q.off
Content(q)  == [i \in 1 .. q.len |-> q.off + i - 1]

Ask(r, q) ==
  /\ answer[r] = Idle
  /\ request' = [request EXCEPT ![r] = q]
  /\ answer' = [answer EXCEPT ![r] = Waiting]
  /\ UNCHANGED bad

Succeed(r) ==
  /\ answer[r] = Waiting
  /\ InDevice(request[r])
  /\ answer' = [answer EXCEPT ![r] = Read(Content(request[r]))]
  /\ UNCHANGED <<bad, request>>

Fail(r) ==
  /\ answer[r] = Waiting
  /\ ~ InDevice(request[r]) \/ Reach(request[r]) \cap bad # {}
  /\ answer' = [answer EXCEPT ![r] = Failed]
  /\ UNCHANGED <<bad, request>>

Take(r) ==
  /\ answer[r] \notin {Idle, Waiting}
  /\ answer' = [answer EXCEPT ![r] = Idle]
  /\ UNCHANGED <<bad, request>>

DeviceInit ==
  /\ bad \subseteq 0 .. (Size - 1)
  /\ request \in [Readers -> Requests]
  /\ answer = [r \in Readers |-> Idle]

DeviceNext ==
  \E r \in Readers :
    \/ \E q \in Requests : Ask(r, q)
    \/ Succeed(r)
    \/ Fail(r)
    \/ Take(r)

DeviceSpec == DeviceInit /\ [][DeviceNext]_deviceVars
=============================================================================
