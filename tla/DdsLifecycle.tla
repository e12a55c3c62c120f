---------------------------- MODULE DdsLifecycle ----------------------------
(***************************************************************************)
(* What an exporter who submits a statement once may rely on when no       *)
(* answer of TRACES NT is lost and no worker dies: the statement is built, *)
(* is registered at most once, and gets one final verdict that agrees with *)
(* the register.  A statement that is submitted again before its verdict   *)
(* is contested, and nothing more is promised of it; the others keep their *)
(* promise.  DdsSubmission implements this under those conditions.         *)
(***************************************************************************)

CONSTANTS Dds, Refs, None

VARIABLES
  stage,     (* How far each statement is.                                 *)
  number,    (* The reference number recorded on each statement.           *)
  register   (* The EU register: statements with their reference numbers.  *)

vars == <<stage, number, register>>

Init ==
  /\ stage = [d \in Dds |-> "absent"]
  /\ number = [d \in Dds |-> None]
  /\ register = {}

Registered(d) == \E r \in Refs : [dds |-> d, ref |-> r] \in register

Build(d) ==
  /\ stage[d] = "absent"
  /\ stage' = [stage EXCEPT ![d] = "ready"]
  /\ UNCHANGED <<number, register>>

Register(d, r) ==
  /\ stage[d] = "ready"
  /\ ~Registered(d)
  /\ \A f \in register : f.ref # r
  /\ register' = register \cup {[dds |-> d, ref |-> r]}
  /\ UNCHANGED <<stage, number>>

Accept(d, r) ==
  /\ stage[d] = "ready"
  /\ [dds |-> d, ref |-> r] \in register
  /\ stage' = [stage EXCEPT ![d] = "submitted"]
  /\ number' = [number EXCEPT ![d] = r]
  /\ UNCHANGED register

Reject(d) ==
  /\ stage[d] = "ready"
  /\ ~Registered(d)
  /\ stage' = [stage EXCEPT ![d] = "rejected"]
  /\ UNCHANGED <<number, register>>

(* A second call: the statement leaves the picture.                        *)
Contest(d) ==
  /\ stage[d] = "ready"
  /\ stage' = [stage EXCEPT ![d] = "contested"]
  /\ number' = [number EXCEPT ![d] = None]
  /\ register' = {f \in register : f.dds # d}

Next ==
  \E d \in Dds :
    \/ Build(d)
    \/ Reject(d)
    \/ Contest(d)
    \/ \E r \in Refs : Register(d, r) \/ Accept(d, r)

Spec == Init /\ [][Next]_vars

=============================================================================
