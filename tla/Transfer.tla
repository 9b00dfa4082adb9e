------------------------------ MODULE Transfer ------------------------------
(***************************************************************************)
(* What an application is promised while it lists a directory or reads a   *)
(* file: the entries or blocks of the subject it named, each once and in   *)
(* order; TF_ERR_DONE only when it has been given all of them; or an       *)
(* error, after which nothing more comes.                                  *)
(***************************************************************************)
EXTENDS Naturals, Sequences

CONSTANTS Files, NoFile, Blocks

VARIABLES
    status,     \* is a transfer in progress, complete, or neither
    subject,    \* what is transferred
    given       \* what the application has been given of it

tvars == <<status, subject, given>>

Part(f, i) == [file |-> f, n |-> i]

TransferTypeOK ==
    /\ status \in {"none", "active", "done"}
    /\ subject \in Files \cup {NoFile}
    /\ given \in Seq([file: Files, n: 1..Blocks])

TransferInit == status = "none" /\ subject = NoFile /\ given = <<>>

Begin(f) ==
    /\ status # "active"
    /\ status' = "active" /\ subject' = f /\ given' = <<>>

Deliver ==
    /\ status = "active" /\ Len(given) < Blocks
    /\ given' = Append(given, Part(subject, Len(given) + 1))
    /\ UNCHANGED <<status, subject>>

Complete ==
    /\ status = "active" /\ Len(given) = Blocks
    /\ status' = "done"
    /\ UNCHANGED <<subject, given>>

\* An error, a cancel, or the end of the process; or the next call after the
\* last one.
Abandon ==
    /\ status # "none"
    /\ status' = "none" /\ subject' = NoFile /\ given' = <<>>

TransferNext == (\E f \in Files : Begin(f)) \/ Deliver \/ Complete \/ Abandon

TransferSpec == TransferInit /\ [][TransferNext]_tvars

-----------------------------------------------------------------------------
\* What was given is always an initial part of the subject, and all of it when
\* the transfer is done.
InOrder ==
    /\ given = [i \in 1..Len(given) |-> Part(subject, i)]
    /\ Len(given) <= Blocks
    /\ status = "done" => Len(given) = Blocks
=============================================================================
