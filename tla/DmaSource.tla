------------------------------ MODULE DmaSource ------------------------------
(***************************************************************************)
(* What a DMA channel that feeds a peripheral promises its guest, with no  *)
(* registers, bursts, FIFO levels or scheduler events: a programmed        *)
(* transfer denotes a stream of data; the channel hands the peripheral a   *)
(* growing prefix of that stream; it signals completion only once the      *)
(* whole stream has been handed over, and a transfer may instead stop on   *)
(* a bus error.  A new transfer is programmed only when the channel is     *)
(* idle, completed or faulted.                                             *)
(***************************************************************************)
EXTENDS Sequences, SequencesExt

CONSTANT Data   \* the items a stream is made of

VARIABLES
  program,  \* the stream the current transfer denotes
  sent,     \* what the channel has handed the peripheral of it
  done,     \* the completion interrupt was raised
  fault,    \* a bus error stopped the transfer
  active    \* a transfer was ever programmed

avars == <<program, sent, done, fault, active>>

Init ==
  /\ program = <<>> /\ sent = <<>>
  /\ done = FALSE /\ fault = FALSE /\ active = FALSE

\* Program a new transfer; the channel may hand over a first part of it at
\* once.
Start ==
  /\ ~active \/ done \/ fault
  /\ program' \in Seq(Data) /\ IsPrefix(sent', program')
  /\ done' = FALSE /\ fault' = FALSE /\ active' = TRUE

\* Hand the peripheral more of the stream, in order.
Push ==
  /\ active /\ ~done /\ ~fault
  /\ sent' # sent /\ IsPrefix(sent, sent') /\ IsPrefix(sent', program)
  /\ UNCHANGED <<program, done, fault, active>>

\* A bus error ends the transfer, possibly after a last part was handed over.
Fail ==
  /\ active /\ ~done /\ ~fault
  /\ IsPrefix(sent, sent') /\ IsPrefix(sent', program)
  /\ fault' = TRUE
  /\ UNCHANGED <<program, done, active>>

\* Raise the completion interrupt once the whole stream was handed over.
Complete ==
  /\ active /\ ~done /\ sent = program
  /\ done' = TRUE
  /\ UNCHANGED <<program, sent, fault, active>>

\* A reset of the subsystem cancels whatever transfer is under way: it is
\* the only way to abandon a transfer short of completion or a bus error.
Reset ==
  /\ program' = <<>> /\ sent' = <<>>
  /\ done' = FALSE /\ fault' = FALSE /\ active' = FALSE

Next == Start \/ Push \/ Fail \/ Complete \/ Reset

Spec == Init /\ [][Next]_avars
=============================================================================
