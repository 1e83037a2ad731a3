----------------------------- MODULE DefenseLive -----------------------------
(***************************************************************************)
(* Defense with the fairness of HoldOrderLive, under the write lock: a job *)
(* that finds the database locked is started again a minute later, so a    *)
(* visit that is possible again and again takes place.  The passes of      *)
(* DEFENSE follow one another, and again and again one of them marks its   *)
(* first mail before another job commits.  Time passes.                    *)
(***************************************************************************)
EXTENDS Defense

H == INSTANCE HoldOrderLive

AllAnswered == [o \in Orders |-> H!Answered(o)]

CheckAiVisit(o) ==
    \/ \E w \in Workers : CheckAiRelease(w, o, H!Answered(o))
    \/ CheckAiPass(o, H!Answered(o))

CallEnds(w) ==
    \/ /\ \E receipt \in Receipts, effect \in BOOLEAN :
            SetHoldCall(w, receipt, effect) \/ ReleaseCall(w, receipt, effect)
       /\ UNCHANGED <<book, ages, sweep, letters, broken>>
    \/ SetReceipt(w) /\ Plainly
    \/ worker[w].pc = "release_done"
         /\ CheckAiReceipt(w, H!Answered(worker[w].order))
    \/ /\ worker[w].pc = "set_again"
       /\ \/ SetFinish(w, H!Answered(worker[w].order))
          \/ \E c \in Codes : SetBackup(w, H!Answered(worker[w].order), c)
       /\ Plainly

PassGoesOn(d) ==
    \/ Watch(d, AllAnswered, Orphans)
    \/ \E ok \in BOOLEAN : Send(d, ok)
    \/ Commit(d)

MarksInTime(d) ==
    /\ sweep[d].locked \/ (sweep[d].fresh /\ Unlocked)
    /\ \E ok \in BOOLEAN : Send(d, ok)

DFairness ==
    /\ \A o \in Orders : /\ SF_dvars(H!SetVisit(o) /\ Plainly)
                         /\ SF_dvars(H!ConfirmVisit(o) /\ Plainly)
                         /\ SF_dvars(CheckAiVisit(o))
                         /\ SF_dvars(ConfirmReleasePass(o, H!Answered(o)))
                         /\ WF_dvars(HoldAges(o))
                         /\ WF_dvars(ReleaseAges(o))
    /\ \A w \in Workers : SF_dvars(CallEnds(w))
    /\ \A d \in Sweepers : WF_dvars(PassGoesOn(d)) /\ SF_dvars(MarksInTime(d))

FairDSpec == DSpec /\ DFairness

-----------------------------------------------------------------------------
\* A hold that was asked for does not stand, or wait, unseen: the order is
\* closed, or it has an incident, also when a process died, the line took the
\* hold before it was confirmed, or a release timed out without effect and is
\* not sent again (HOLD_OVERDUE, RELEASE_VERIFY_OVERDUE).
EveryHoldEnds ==
    \A o \in Orders :
        bind[o].status \in {"PENDING", "CONFIRMED", "RELEASE_PENDING"} ~>
            \/ life[o] \in Closed
            \/ \E type \in {"HOLD_OVERDUE", "RELEASE_VERIFY_OVERDUE",
                            "HOLD_FAILED", "RELEASE_FAILED"} : Told(book, Order(o, type))

\* Again and again there is no mail that was not sent or tried as often as it
\* may be.  (A row is opened once, so every single mail ends that way.)
EveryMailEnds ==
    []<>(\A k \in Keys :
            \/ book.row[k].mail \in {"NONE", "SENT"}
            \/ book.row[k].tries = MaxAttempts)

\* ENTRY_PIPELINE.md:106: DEFENSE sends "all due" mails.  A mail that failed
\* for the last time stays at the head of the list, so a page full of them
\* keeps every later mail from being looked at.
DueMailIsTried ==
    \A k \in Keys :
        book.row[k].mail = "PENDING" ~> book.row[k].mail # "PENDING"

\* State_Spec_v1.md:200 (D-02): disabling new holds records the reason and
\* sends an alarm.  The second time, the incident of the first one is still
\* there and nothing is sent.
DisablingIsMailed ==
    [][control = "ENABLED" /\ control' = "DISABLED_NEW_HOLD" =>
         book'.row[System("CONTROL_DISABLED")]
           # book.row[System("CONTROL_DISABLED")]]_dvars
=============================================================================
