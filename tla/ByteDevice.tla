----------------------------- MODULE ByteDevice -----------------------------
(***************************************************************************)
(* What the layers above expect of the disks: drives of bytes.  A write    *)
(* puts the bytes it was given at their places, in order and nowhere else, *)
(* and may stop before the last.  A read answers with the bytes that are   *)
(* at the place that was asked for, none missing.                          *)
(***************************************************************************)
EXTENDS Integers, Sequences

CONSTANTS Drives, NBytes, Value

VARIABLES
  bytes,    \* [Drives -> [0..NBytes-1 -> Value]]
  putting,  \* the write under way: drive, next place, end, value
  answer    \* the last read that succeeded: drive, offset, length, data

NoWrite == [drive |-> "none"]
NoAnswer == [drive |-> "none"]

Init ==
  /\ bytes \in [Drives -> [0..(NBytes - 1) -> Value]]
  /\ putting = NoWrite /\ answer = NoAnswer

Begin ==
  /\ putting = NoWrite
  /\ putting' \in [drive : Drives, at : Nat, end : Nat, value : Value]
  /\ UNCHANGED bytes /\ answer' = NoAnswer

\* The bytes of the write from its place up to some later one.
Put(to) ==
  /\ putting # NoWrite /\ to \in (putting.at + 1)..putting.end
  /\ bytes' = [bytes EXCEPT ![putting.drive] =
                 [i \in DOMAIN @ |-> IF i \in putting.at..(to - 1) THEN putting.value ELSE @[i]]]
  /\ putting' \in {[putting EXCEPT !.at = to], NoWrite}
  /\ UNCHANGED answer

Stop == putting # NoWrite /\ putting' = NoWrite /\ UNCHANGED <<bytes, answer>>

Answer ==
  /\ answer'.drive \in Drives
  /\ answer'.offset + answer'.len <= NBytes
  /\ answer'.data = [k \in 1..answer'.len |-> bytes[answer'.drive][answer'.offset + k - 1]]
  /\ UNCHANGED <<bytes, putting>>

Forget == answer' = NoAnswer /\ UNCHANGED <<bytes, putting>>

Next == Begin \/ (\E to \in 1..NBytes : Put(to)) \/ Stop \/ Answer \/ Forget

Spec == Init /\ [][Next]_<<bytes, putting, answer>>
=============================================================================
