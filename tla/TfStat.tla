------------------------------- MODULE TfStat -------------------------------
(***************************************************************************)
(* tf_stat() of tf_util.c: a name is looked up by listing its directory    *)
(* and cancelling the listing when the name has come by.  It is a client   *)
(* of tf_io.c, in the middle of whatever else the application does.        *)
(*                                                                         *)
(* stat says where tf_stat() is; the steps of the functions that it calls  *)
(* are those of TfIo.  The root directory and paths without a slash are    *)
(* answered without talking to the device (tf_util.c:34-54).               *)
(***************************************************************************)
EXTENDS TfIo

VARIABLES
    stat,       \* "no", inside a call ("listing", "cancel"), "found" or "missing"
    place       \* the page of each directory that has the name, 0 if none has

statVars == <<stat, place>>
allVars == <<vars, statVars>>

Running == stat \in {"listing", "cancel"}

Nowhere == [f \in Files |-> 0]

StatInit == Init /\ stat = "no" /\ place = Nowhere

-----------------------------------------------------------------------------
\* tf_stat() returns v.  The application has no transaction open, and what the
\* last function returned is not what tf_stat() returns.
StatReturn(v) ==
    /\ stat' = v
    /\ txn' = "none"
    /\ UNCHANGED <<pipes, device, handle, call, item, got, sent, faults, place>>

tf_stat(f, p) ==
    /\ ~Running
    /\ tf_cmd_dir_first(f)
    /\ stat' = "listing" /\ place' = p

\* A directory function has returned a page: is the name in it?
PageHere == stat = "listing" /\ pc = "idle" /\ ret = TF_ERR_NONE

\* Mutant of Hit: it is the first page that is compared, every time.
FirstPageHit == got[1].n = place[got[1].file]

\* The code cannot tell of which directory the page is.
Hit == got[Len(got)].n = place[got[Len(got)].file]

\* Mutant of tf_stat_hit: the listing is not cancelled.
tf_stat_hit_without_cancel ==
    /\ PageHere /\ Hit
    /\ StatReturn("found")

tf_stat_hit ==
    /\ PageHere /\ Hit
    /\ tf_cmd("CANCEL")
    /\ stat' = "cancel" /\ UNCHANGED place

\* Mutant of tf_stat_miss: the same page is searched again.
tf_stat_miss_stays ==
    /\ PageHere /\ ~Hit
    /\ UNCHANGED allVars

tf_stat_miss ==
    /\ PageHere /\ ~Hit
    /\ tf_cmd_dir_next
    /\ UNCHANGED statVars

\* Mutant of tf_stat_ends: the last page is taken for a hit.
tf_stat_ends_found ==
    /\ stat = "listing" /\ pc = "idle" /\ ret # TF_ERR_NONE
    /\ StatReturn("found")

\* The end of the directory and an error are the same to tf_stat().
tf_stat_ends ==
    /\ stat = "listing" /\ pc = "idle" /\ ret # TF_ERR_NONE
    /\ StatReturn("missing")

\* Whether the cancel succeeded is not looked at.
tf_stat_cancelled ==
    /\ stat = "cancel" /\ pc = "idle"
    /\ StatReturn("found")

StatStep == tf_stat_hit \/ tf_stat_miss \/ tf_stat_ends \/ tf_stat_cancelled

Others ==
    /\ ~Running
    /\ Application
    /\ stat' = "no" /\ place' = Nowhere

Underneath == (Library \/ Toppy5000 \/ Lose) /\ UNCHANGED statVars

Death == Crash /\ stat' = "no" /\ place' = Nowhere

StatNext ==
    \/ \E f \in Files, p \in [Files -> 0..Blocks] : tf_stat(f, p)
    \/ StatStep
    \/ Others \/ Underneath \/ Death

StatSpec == StatInit /\ [][StatNext]_allVars

\* tf_stat() goes on whenever a function that it has called returns.
FairStatSpec ==
    /\ StatSpec
    /\ WF_allVars(Library /\ UNCHANGED statVars) /\ WF_allVars(Toppy5000 /\ UNCHANGED statVars)
    /\ WF_allVars(StatStep)

-----------------------------------------------------------------------------
\* tf_stat() finds nothing that is not there.
FoundIsThere == stat = "found" => place[item] # 0

\* When tf_stat() says that there is no such name, and has read the directory
\* to its end, then there is none.  (After an error it says so too, although
\* tf_util.h:35 promises a negative number for that.)
MissingIsNotThere == stat = "missing" /\ ret = TF_ERR_DONE => place[item] = 0

\* Found or not, tf_stat() leaves no listing open on the device, unless a page
\* could not be read, its cancel failed or the SUCCESS that ends a listing was
\* lost: tf_util.c:87 ends the search on an error without a cancel.
StatLeavesDeviceFree ==
    stat \in {"found", "missing"} /\ ret \in {TF_ERR_NONE, TF_ERR_DONE} /\ toDev = <<>> =>
        \/ dMode = "idle"
        \/ dMode = "dirend" /\ \E b \in Budgets : faults["lost"] < b["lost"]

\* tf_stat() returns.
StatReturns == Running ~> ~Running
=============================================================================
