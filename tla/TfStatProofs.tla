---------------------------- MODULE TfStatProofs ----------------------------
(***************************************************************************)
(* tf_stat() as a client in the middle of a session of TfIo, for every     *)
(* value of the constants, with the faults of TfIoProofs: what it          *)
(* answers is true of the directory, and no listing stays open.            *)
(*                                                                         *)
(* All but one of its steps are steps of the session, so that the          *)
(* invariant of TfIoProofs holds here too.  The other is its return, after *)
(* which the application has no transaction, whatever the last function    *)
(* that tf_stat() called has left.                                         *)
(***************************************************************************)
EXTENDS TfIoProofs, TfStat

\* The name that is looked for is on none of the first n pages.
Missed(n) == \A i \in 1..n : place[item] # i

\* The listing was read to its end, and the SUCCESS that lets the device go was
\* handled, is under way or was lost.
AtEnd ==
    /\ Len(got) = Blocks
    /\ \/ dMode = "idle"
       \/ dMode = "dirend" /\ (toDev # <<>> \/ \E b \in Budgets : Lost < b["lost"])

\* How far the search is: all pages but the one that has just come were missed.
Searching ==
    stat = "listing" =>
        /\ op \in {"dir_first", "dir_next"}
        /\ pc \in {"idle", "dirents", "dir_end"}
        /\ pc # "idle" => Missed(Len(got))
        /\ pc = "idle" /\ ret = TF_ERR_NONE => Missed(Len(got) - 1) /\ txn = "dir" /\ got # <<>>
        /\ pc = "idle" /\ ret = TF_ERR_DONE => Missed(Len(got)) /\ AtEnd

HasFound ==
    stat \in {"cancel", "found"} =>
        /\ place[item] # 0
        /\ op = "CANCEL"
        /\ pc = "cmd" \/ (pc = "idle" /\ ret # TF_ERR_DONE)

HasMissed ==
    stat = "missing" =>
        /\ op \in {"dir_first", "dir_next"}
        /\ ret # TF_ERR_NONE
        /\ ret = TF_ERR_DONE => Missed(Len(got)) /\ AtEnd

StatTypes ==
    /\ place \in [Files -> 0..Blocks]
    /\ stat \in {"no", "listing", "cancel", "found", "missing"}
    /\ stat # "no" => dev = TRUE /\ item \in Files
    /\ stat \in {"found", "missing"} => pc = "idle" /\ txn = "none"

StatInv == StatTypes /\ Searching /\ HasFound /\ HasMissed

\* tf_stat() returns without having sent anything: the conversation is where
\* the last function that it called left it.
LEMMA StatReturnSession ==
    ASSUME SessionInv, ClosedInv, StatInv, Running, pc = "idle", NEW v, StatReturn(v)
    PROVE  SessionInv' /\ ClosedInv'
  <1>1. /\ UNCHANGED <<toDev, toHost, dMode, dFile, dPos, dRecv, dev, error, pending, timeout,
                       pc, op, ret, attempt, item, got, sent, faults>>
        /\ txn' = "none"
    BY DEF StatReturn, pipes, device, handle, call
  <1>2. dev = TRUE /\ op # "get_next"
    BY DEF StatInv, StatTypes, Searching, HasFound, Running
  <1>3. pending = FALSE
    BY <1>2 DEF SessionInv, Session, Caller, TypeInv, CallOK
  <1>4. TypeInv'
    <2>1. PipesOK' /\ CallOK' /\ PutInv'
      BY <1>1
      DEF SessionInv, TypeInv, PipesOK, CallOK, PutInv, AttemptInv, ToppyTypeOK
    <2>2. AppOK'
      BY <1>1 DEF SessionInv, TypeInv, AppOK, Views
    <2>3. QED
      BY <2>1, <2>2 DEF TypeInv
  <1>5. PendingInv' /\ FaultsLeft' /\ GotInOrder' /\ ClosedInv'
    BY <1>1, <1>2, <1>3 DEF SessionInv, PendingInv, FaultsLeft, GotInOrder, ClosedInv, Lost
  <1>6. Session'
    <2>1. Conversation'
      BY <1>1, <1>2
      DEF SessionInv, Session, Conversation, Silent, Asked, Answered, Stuck, Awaits,
          Continues, Getting, Commanding, NextPage, NextPart, InDir, InGet, InPut, InRecv,
          Lost
    <2>2. Acknowledged'
      BY <1>1, <1>2 DEF SessionInv, Session, Acknowledged
    <2>3. QED
      BY <1>1, <1>3, <2>1, <2>2, AtRest
  <1>7. QED
    BY <1>4, <1>5, <1>6 DEF SessionInv

\* All other steps are steps of the session.
LEMMA StatNextSession ==
    ASSUME StatInv, [StatNext]_allVars
    PROVE  [Next]_vars \/ (Running /\ pc = "idle" /\ \E v : StatReturn(v))
  <1>1. CASE \E f \in Files, p \in [Files -> 0..Blocks] : tf_stat(f, p)
    BY <1>1 DEF tf_stat, Next, Application
  <1>2. CASE tf_stat_hit \/ tf_stat_miss
    BY <1>2 DEF tf_stat_hit, tf_stat_miss, Next, Application
  <1>3. CASE tf_stat_ends \/ tf_stat_cancelled
    BY <1>3 DEF tf_stat_ends, tf_stat_cancelled, Running
  <1>4. CASE Others \/ Underneath \/ Death
    BY <1>4 DEF Others, Underneath, Death, Next
  <1>5. CASE UNCHANGED allVars
    BY <1>5 DEF allVars
  <1>6. QED
    BY <1>1, <1>2, <1>3, <1>4, <1>5 DEF StatNext, StatStep

\* tf_stat() begins, in a session without a transaction.
LEMMA StatBegins ==
    ASSUME SessionInv, ClosedInv, NEW f \in Files, NEW p \in [Files -> 0..Blocks], tf_stat(f, p)
    PROVE  StatInv'
  <1>1. txn = "none" /\ tf_cmd_dir_first(f) /\ stat' = "listing" /\ place' = p
    BY DEF tf_stat, tf_cmd_dir_first, Enter
  <1>2. dev = TRUE
    BY <1>1 DEF ClosedInv, SessionInv, TypeInv, CallOK
  <1>3. pc' = "dirents" /\ op' = "dir_first" /\ item' = f /\ got' = <<>> /\ dev' = dev
    <2>1. PICK e \in ErrorCodes :
            tf_send(Packet("DIR", f, 0), e) /\ AwaitOrReturn("dirents", "dir_first", e)
      BY <1>1 DEF tf_cmd_dir_first
    <2>2. e = TF_ERR_NONE
      BY <1>2, <2>1, SendSucceeds DEF SessionInv
    <2>3. QED
      BY <1>1, <2>1, <2>2 DEF tf_cmd_dir_first, Enter, AwaitOrReturn, Goto
  <1>4. (Missed(Len(got)))'
    BY <1>3 DEF Missed
  <1>5. QED
    BY <1>1, <1>2, <1>3, <1>4 DEF StatInv, StatTypes, Searching, HasFound, HasMissed

\* The page that has come is looked at: it is the last of the pages that were
\* asked for, and it is one of this directory.
LEMMA PageIsNext ==
    ASSUME SessionInv, StatInv, PageHere
    PROVE  /\ got # <<>> /\ Len(got) \in Nat \ {0}
           /\ Hit <=> place[item] = Len(got)
  <1>1. got # <<>> /\ got \in Seq([file: Files \cup {NoFile}, n: Int])
    BY DEF PageHere, StatInv, Searching, SessionInv, TypeInv, AppOK
  <1>2. Len(got) \in Nat \ {0} /\ Len(got) \in DOMAIN got
    BY <1>1
  <1>3. got[Len(got)] = [file |-> item, n |-> Len(got)]
    BY <1>2 DEF SessionInv, GotInOrder
  <1>4. QED
    BY <1>1, <1>2, <1>3 DEF Hit

\* tf_stat() compares a page, and goes on or stops (tf_util.c).
LEMMA StatGoesOn ==
    ASSUME SessionInv, StatInv, tf_stat_hit \/ tf_stat_miss
    PROVE  StatInv'
  <1>1. PageHere /\ dev = TRUE
    BY DEF tf_stat_hit, tf_stat_miss, PageHere, StatInv, StatTypes
  <1>2. CASE tf_stat_hit
    <2>1. place[item] # 0
      BY <1>1, <1>2, PageIsNext DEF tf_stat_hit
    <2>2. /\ pc' = "cmd" /\ op' = "CANCEL" /\ UNCHANGED <<dev, item, place>>
          /\ stat' = "cancel"
      BY <1>1, <1>2, SendSucceeds DEF tf_stat_hit, tf_cmd, Enter, AwaitOrReturn, Goto, SessionInv
    <2>3. QED
      BY <1>1, <2>1, <2>2 DEF StatInv, StatTypes, Searching, HasFound, HasMissed, PageHere
  <1>3. CASE tf_stat_miss
    <2>1. /\ pc' = "dirents" /\ op' = "dir_next" /\ UNCHANGED <<dev, item, got, place, stat>>
      BY <1>1, <1>3, SendSucceeds
      DEF tf_stat_miss, tf_cmd_dir_next, Enter, AwaitOrReturn, Goto, SessionInv, statVars
    <2>2. Missed(Len(got) - 1) /\ place[item] # Len(got) /\ Len(got) \in Nat
      BY <1>1, <1>3, PageIsNext DEF tf_stat_miss, PageHere, StatInv, Searching
    <2>3. Missed(Len(got))
      BY <2>2 DEF Missed
    <2>4. QED
      BY <1>1, <2>1, <2>3
      DEF StatInv, StatTypes, Searching, HasFound, HasMissed, PageHere, Missed
  <1>4. QED
    BY <1>2, <1>3

\* tf_stat() returns after its listing has ended or was cancelled.
LEMMA StatEnds ==
    ASSUME StatInv, tf_stat_ends \/ tf_stat_cancelled
    PROVE  StatInv'
  <1>1. /\ UNCHANGED <<toDev, dMode, dev, pc, op, ret, item, got, faults, place>>
        /\ txn' = "none"
    BY DEF tf_stat_ends, tf_stat_cancelled, StatReturn, pipes, device, handle, call
  <1>2. (Missed(Len(got)))' = Missed(Len(got)) /\ AtEnd' = AtEnd
    BY <1>1 DEF Missed, AtEnd, Lost
  <1>3. CASE tf_stat_ends
    BY <1>1, <1>2, <1>3
    DEF tf_stat_ends, StatReturn, StatInv, StatTypes, Searching, HasFound, HasMissed
  <1>4. CASE tf_stat_cancelled
    BY <1>1, <1>2, <1>4
    DEF tf_stat_cancelled, StatReturn, StatInv, StatTypes, Searching, HasFound, HasMissed
  <1>5. QED
    BY <1>3, <1>4

\* The application does something else, or dies, or nothing happens.
LEMMA StatAbsent ==
    ASSUME StatInv, Others \/ Death \/ UNCHANGED allVars PROVE StatInv'
  <1>1. CASE Others \/ Death
    <2>1. stat' = "no" /\ place' = Nowhere
      BY <1>1 DEF Others, Death
    <2>2. Nowhere \in [Files -> 0..Blocks]
      BY ToppyAssumption DEF Nowhere
    <2>3. QED
      BY <2>1, <2>2 DEF StatInv, StatTypes, Searching, HasFound, HasMissed
  <1>2. CASE UNCHANGED allVars
    <2>1. UNCHANGED <<toDev, dMode, dev, pc, op, ret, txn, item, got, faults, stat, place>>
      BY <1>2 DEF allVars, vars, statVars, pipes, device, handle, call, app
    <2>2. (Missed(Len(got)))' = Missed(Len(got)) /\ AtEnd' = AtEnd
          /\ (Missed(Len(got) - 1))' = Missed(Len(got) - 1)
      BY <2>1 DEF Missed, AtEnd, Lost
    <2>3. QED
      BY <2>1, <2>2 DEF StatInv, StatTypes, Searching, HasFound, HasMissed
  <1>3. QED
    BY <1>1, <1>2

\* Between two calls the device only handles what it does not answer.
LEMMA EndStaysEnd ==
    ASSUME SessionInv, dev = TRUE, pc = "idle", pending = FALSE, AtEnd,
           Toppy5000 \/ Lose
    PROVE  AtEnd'
  <1>1. got' = got
    BY DEF Toppy5000, Lose, app
  <1>2. CASE Toppy5000
    <2>1. ToppyNext /\ faults' = faults
      BY <1>2 DEF Toppy5000
    <2>2. toDev # <<>> /\ Len(toDev) >= 1
      <3>1. toDev # <<>>
        BY <2>1
        DEF ToppyNext, Handle, DevCancel, DevReset, DevSimple, DevDir, DevGet, DevContinue,
            DevPut, DevReceive, DevAbort, DevRefuse, DevDeaf
      <3>2. QED
        BY <3>1, EmptySeq DEF SessionInv, TypeInv, PipesOK, ToppyTypeOK
    <2>3. Silent(1)
      <3>1. 1 \in 1..Len(toDev) /\ ~Awaits
        BY <2>2 DEF SessionInv, TypeInv, PipesOK, ToppyTypeOK, Awaits, Reads
      <3>2. QED
        BY <3>1 DEF SessionInv, Session, Conversation
    <2>4. dMode' = "idle"
      BY <2>1, <2>2, <2>3, SilentHead DEF SessionInv, AtEnd
    <2>5. QED
      BY <1>1, <2>4 DEF AtEnd
  <1>3. CASE Lose
    <2>1. dMode' = dMode /\ Lost > 0 /\ Lost' = Lost - 1 /\ Lost \in Nat
      BY <1>3 DEF Lose, Fault, Lost, SessionInv, TypeInv, PipesOK, FaultKinds, device
    <2>2. PICK b \in Budgets : Lost <= b["lost"]
      BY DEF SessionInv, FaultsLeft
    <2>3. b["lost"] \in Nat
      BY TfIoAssumption DEF FaultKinds
    <2>4. Lost' < b["lost"]
      BY <2>1, <2>2, <2>3
    <2>5. QED
      BY <1>1, <2>1, <2>4 DEF AtEnd
  <1>4. QED
    BY <1>2, <1>3

\* The device and the pipes do not change what tf_stat() knows.
LEMMA StatOutside ==
    ASSUME SessionInv, StatInv, Toppy5000 \/ Lose, UNCHANGED statVars
    PROVE  StatInv'
  <1>1. UNCHANGED <<dev, pending, pc, op, ret, txn, item, got, stat, place>>
    BY DEF Toppy5000, Lose, handle, call, app, statVars
  <1>2. /\ (Missed(Len(got)))' = Missed(Len(got))
        /\ (Missed(Len(got) - 1))' = Missed(Len(got) - 1)
    BY <1>1 DEF Missed
  <1>3. ASSUME stat # "no", op # "get_next", pc = "idle", AtEnd PROVE AtEnd'
    <2>1. dev = TRUE
      BY <1>3 DEF StatInv, StatTypes
    <2>2. pending = FALSE
      BY <1>3, <2>1 DEF SessionInv, Session, Caller, TypeInv, CallOK
    <2>3. QED
      BY <1>3, <2>1, <2>2, EndStaysEnd
  <1>4. QED
    BY <1>1, <1>2, <1>3 DEF StatInv, StatTypes, Searching, HasFound, HasMissed

\* Where tf_stat() has a function running, that function goes on.
LEMMA StatFunctions ==
    ASSUME StatInv, Library, stat # "no"
    PROVE  \/ stat = "listing" /\ (get_dirents \/ get_dirents_end)
           \/ stat = "cancel" /\ tf_cmd_reply
  <1>1. \/ stat = "listing" /\ pc \in {"idle", "dirents", "dir_end"}
        \/ stat = "cancel" /\ pc \in {"idle", "cmd"}
        \/ pc = "idle"
    BY DEF StatInv, StatTypes, Searching, HasFound
  <1>2. QED
    BY <1>1
    DEF Library, tf_cmd_reply, tf_cmd_size_reply, tf_init_cmd, tf_init_reply, tf_init_fail,
        tf_init_success, get_dirents, get_dirents_end, tf_cmd_get_reply,
        tf_cmd_get_next_reply, tf_cmd_get_next_end, tf_cmd_get_next_data, get_cancel_drain,
        get_cancel_fail, get_cancel_cancel, get_cancel_cancelled, get_cancel_retry,
        tf_cmd_put_reply, tf_cmd_put_start, tf_cmd_put_started, tf_cmd_put_data_reply,
        tf_cmd_put_done_reply, put_done_cancel, put_done_cancelled, put_cancel_cancel,
        put_cancel_cancelled

\* A page has come, or the end of the listing, or neither.
LEMMA StatReads ==
    ASSUME SessionInv, StatInv, stat = "listing", get_dirents, UNCHANGED statVars
    PROVE  StatInv'
  <1>1. PICK e \in ErrorCodes :
          /\ tf_get_response(e)
          /\ \/ Deliver(reply) /\ Return(op, TF_ERR_NONE)
             \/ Goto("dir_end") /\ UNCHANGED got
             \/ ~Read(e, "DIRENT") /\ Return(op, Expect(e, "DIRENT")) /\ UNCHANGED got
    BY DEF get_dirents
  <1>2. pc = "dirents" /\ UNCHANGED <<dev, op, item, stat, place>>
    BY DEF get_dirents, statVars
  <1>3. /\ dev = TRUE /\ item \in Files /\ op \in {"dir_first", "dir_next"}
        /\ Missed(Len(got)) /\ got \in Seq([file: Files \cup {NoFile}, n: Int])
    BY <1>2 DEF StatInv, StatTypes, Searching, SessionInv, TypeInv, AppOK
  <1>4. StatTypes' /\ HasFound' /\ HasMissed'
    BY <1>2 DEF StatInv, StatTypes, HasFound, HasMissed
  <1>5. CASE Deliver(reply) /\ Return(op, TF_ERR_NONE)
    <2>1. pc' = "idle" /\ ret' = TF_ERR_NONE /\ txn' = "dir"
      BY <1>3, <1>5 DEF Return, AfterCall, AfterSuccess
    <2>2. Len(got') = Len(got) + 1 /\ got' # <<>>
      BY <1>3, <1>5 DEF Deliver
    <2>3. (Missed(Len(got) - 1))'
      BY <1>2, <1>3, <2>2 DEF Missed
    <2>4. QED
      BY <1>2, <1>3, <1>4, <2>1, <2>2, <2>3 DEF StatInv, Searching, TF_ERR_NONE, TF_ERR_DONE
  <1>6. CASE Goto("dir_end") /\ UNCHANGED got
    BY <1>2, <1>3, <1>4, <1>6 DEF Goto, StatInv, Searching, Missed
  <1>7. CASE ~Read(e, "DIRENT") /\ Return(op, Expect(e, "DIRENT")) /\ UNCHANGED got
    <2>1. ret' \notin {TF_ERR_NONE, TF_ERR_DONE} /\ pc' = "idle"
      BY <1>1, <1>3, <1>7, AfterRead DEF Return, SessionInv
    <2>2. QED
      BY <1>2, <1>3, <1>4, <2>1 DEF StatInv, Searching
  <1>8. QED
    BY <1>1, <1>5, <1>6, <1>7

\* The end of the listing: all of its pages have been missed.
LEMMA StatReadsEnd ==
    ASSUME SessionInv, StatInv, stat = "listing", get_dirents_end, UNCHANGED statVars
    PROVE  StatInv'
  <1>1. PICK e \in ErrorCodes : tf_send(Plain("SUCCESS"), e)
    BY DEF get_dirents_end
  <1>2. /\ pc = "dir_end" /\ UNCHANGED <<dev, op, item, got, stat, place>>
        /\ pc' = "idle" /\ ret' = TF_ERR_DONE
    BY DEF get_dirents_end, Return, statVars
  <1>3. /\ dev = TRUE /\ item \in Files /\ op \in {"dir_first", "dir_next"}
        /\ Missed(Len(got))
    BY <1>2 DEF StatInv, StatTypes, Searching
  <1>4. toDev' = Append(toDev, Plain("SUCCESS")) /\ dMode' = dMode
    BY <1>1, <1>3, SendSucceeds DEF SessionInv
  <1>5. toDev' # <<>>
    BY <1>4 DEF SessionInv, TypeInv, PipesOK, ToppyTypeOK
  <1>6. dMode = "dirend" /\ Len(got) = Blocks
    BY <1>2, <1>3 DEF SessionInv, Session, Stage
  <1>7. AtEnd' /\ (Missed(Len(got)))'
    BY <1>2, <1>3, <1>4, <1>5, <1>6 DEF AtEnd, Missed
  <1>8. QED
    BY <1>2, <1>3, <1>7
    DEF StatInv, StatTypes, Searching, HasFound, HasMissed, TF_ERR_NONE, TF_ERR_DONE

\* The cancel of the listing is answered, or not.
LEMMA StatCancels ==
    ASSUME SessionInv, StatInv, stat = "cancel", tf_cmd_reply, UNCHANGED statVars
    PROVE  StatInv'
  <1>1. PICK e \in ErrorCodes : tf_get_response(e) /\ Return(op, CmdResult(e))
    BY DEF tf_cmd_reply
  <1>2. UNCHANGED <<dev, op, item, stat, place>>
    BY DEF tf_cmd_reply, statVars
  <1>3. dev = TRUE
    BY DEF StatInv, StatTypes
  <1>4. pc' = "idle" /\ ret' # TF_ERR_DONE
    BY <1>1, <1>3, AfterRead DEF SessionInv, Return, CmdResult
  <1>5. QED
    BY <1>2, <1>4 DEF StatInv, StatTypes, Searching, HasFound, HasMissed

\* Every step keeps the invariant of tf_stat().
LEMMA StatInvStep ==
    ASSUME SessionInv, ClosedInv, StatInv, [StatNext]_allVars PROVE StatInv'
  <1>1. CASE \E f \in Files, p \in [Files -> 0..Blocks] : tf_stat(f, p)
    BY <1>1, StatBegins
  <1>2. CASE StatStep
    BY <1>2, StatGoesOn, StatEnds DEF StatStep
  <1>3. CASE Underneath
    <2>1. CASE Library /\ stat = "no"
      BY <1>3, <2>1
      DEF Underneath, statVars, StatInv, StatTypes, Searching, HasFound, HasMissed
    <2>2. CASE Library /\ stat # "no"
      BY <1>3, <2>2, StatFunctions, StatReads, StatReadsEnd, StatCancels DEF Underneath
    <2>3. CASE Toppy5000 \/ Lose
      BY <1>3, <2>3, StatOutside DEF Underneath
    <2>4. QED
      BY <1>3, <2>1, <2>2, <2>3 DEF Underneath
  <1>4. CASE Others \/ Death \/ UNCHANGED allVars
    BY <1>4, StatAbsent
  <1>5. QED
    BY <1>1, <1>2, <1>3, <1>4 DEF StatNext

\* The invariants of the session and of tf_stat() hold throughout.
LEMMA AlwaysStat == Mild => (StatSpec => [](SessionInv /\ StatInv))
  <1> SUFFICES ASSUME Mild PROVE StatSpec => [](SessionInv /\ StatInv)
    OBVIOUS
  <1> DEFINE AllInv == SessionInv /\ ClosedInv /\ StatInv
  <1>1. ASSUME StatInit PROVE AllInv
    <2>1. Init /\ stat = "no" /\ place = Nowhere
      BY <1>1 DEF StatInit
    <2>2. SessionInv
      BY <2>1, SessionInit
    <2>3. ClosedInv
      BY <2>1 DEF Init, ClosedInv, Receiving
    <2>4. StatInv
      <3>1. Nowhere \in [Files -> 0..Blocks]
        BY ToppyAssumption DEF Nowhere
      <3>2. QED
        BY <2>1, <3>1 DEF StatInv, StatTypes, Searching, HasFound, HasMissed
    <2>5. QED
      BY <2>2, <2>3, <2>4
  <1>2. ASSUME AllInv, [StatNext]_allVars PROVE AllInv'
    <2>1. StatInv'
      BY <1>2, StatInvStep
    <2>2. CASE [Next]_vars
      BY <1>2, <2>1, <2>2, SessionStep, ClosedStep
    <2>3. CASE Running /\ pc = "idle" /\ \E v : StatReturn(v)
      BY <1>2, <2>1, <2>3, StatReturnSession
    <2>4. QED
      BY <1>2, <2>2, <2>3, StatNextSession
  <1>3. AllInv => SessionInv /\ StatInv
    OBVIOUS
  <1>4. QED
    BY <1>1, <1>2, <1>3, PTL DEF StatSpec

\* tf_stat() returns 0 only for a name that is in the directory.
THEOREM FoundIsFound == Mild => (StatSpec => []FoundIsThere)
  <1>1. SessionInv /\ StatInv => FoundIsThere
    BY DEF StatInv, HasFound, FoundIsThere
  <1>2. QED
    BY <1>1, AlwaysStat, PTL

\* After a listing that was read to its end, tf_stat() has missed no name.
THEOREM MissingIsMissing == Mild => (StatSpec => []MissingIsNotThere)
  <1>1. ASSUME StatInv PROVE MissingIsNotThere
    <2> SUFFICES ASSUME stat = "missing", ret = TF_ERR_DONE PROVE place[item] = 0
      BY DEF MissingIsNotThere
    <2>1. Missed(Blocks) /\ item \in Files /\ place \in [Files -> 0..Blocks]
      BY <1>1 DEF StatInv, StatTypes, HasMissed, AtEnd
    <2>2. place[item] \in 0..Blocks /\ place[item] \notin 1..Blocks
      BY <2>1 DEF Missed
    <2>3. QED
      BY <2>2, ToppyAssumption
  <1>2. QED
    BY <1>1, AlwaysStat, PTL

\* tf_stat() leaves no listing open, whatever the application does about its own
\* failures: the listing is cancelled, or was read to its end.
THEOREM StatIsGone == Mild => (StatSpec => []StatLeavesDeviceFree)
  <1>1. ASSUME SessionInv, StatInv PROVE StatLeavesDeviceFree
    <2> SUFFICES ASSUME stat \in {"found", "missing"}, ret \in {TF_ERR_NONE, TF_ERR_DONE},
                        toDev = <<>>
                 PROVE  \/ dMode = "idle"
                        \/ dMode = "dirend" /\ \E b \in Budgets : faults["lost"] < b["lost"]
      BY DEF StatLeavesDeviceFree
    <2>1. dev = TRUE /\ pc = "idle"
      BY <1>1 DEF StatInv, StatTypes
    <2>2. CASE stat = "found"
      BY <1>1, <2>1, <2>2 DEF StatInv, HasFound, SessionInv, Session, Acknowledged, Finishing
    <2>3. CASE stat = "missing"
      BY <1>1, <2>3 DEF StatInv, HasMissed, AtEnd, Lost
    <2>4. QED
      BY <2>2, <2>3
  <1>2. QED
    BY <1>1, AlwaysStat, PTL
=============================================================================
