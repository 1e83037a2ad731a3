---------------------------- MODULE HoldOrderLive ----------------------------
(***************************************************************************)
(* HoldOrder with the fairness its scheduling gives: every job is started  *)
(* again each minute and visits every open order, and a job that called    *)
(* MES gets an answer or a time-out and goes on.  A visit counts when the  *)
(* services answered it; nothing is assumed of the line, the operators,    *)
(* the SMM system or a process that dies.                                  *)
(***************************************************************************)
EXTENDS HoldOrder

Answered(o) == [seen |-> TRUE, scan |-> scan[o], flow |-> "TARGET"]

SetVisit(o) ==
    \/ \E w \in Workers, c \in Codes :
         SetSend(w, o, Answered(o), Answered(o), c)
    \/ SetProject(o, Answered(o), Answered(o))

ConfirmVisit(o) ==
    \/ VerifyFound(o, Answered(o))
    \/ \E c \in Codes : VerifyRetry(o, Answered(o), c)
    \/ VerifyProject(o, Answered(o))
    \/ ConfirmProject(o, Answered(o))

CheckAiVisit(o) ==
    \/ \E w \in Workers : CheckAiSend(w, o, Answered(o))
    \/ CheckAiProject(o, Answered(o))

ConfirmReleaseVisit(o) ==
    \/ VerifyRelease(o, Answered(o))
    \/ ReleaseFails(o, Answered(o))
    \/ ReleasePending(o, Answered(o))

\* MES answers one way or the other, and the job goes on
Proceed(w) ==
    \/ \E receipt \in Receipts, effect \in BOOLEAN :
         SetHoldCall(w, receipt, effect) \/ ReleaseCall(w, receipt, effect)
    \/ SetReceipt(w)
    \/ ReleaseReceipt(w)
    \/ /\ worker[w].pc = "set_again"
       /\ \/ SetFinish(w, Answered(worker[w].order))
          \/ \E c \in Codes : SetBackup(w, Answered(worker[w].order), c)

Fairness ==
    /\ \A o \in Orders : /\ WF_vars(SetVisit(o))
                         /\ WF_vars(ConfirmVisit(o))
                         /\ WF_vars(CheckAiVisit(o))
                         /\ WF_vars(ConfirmReleaseVisit(o))
    /\ \A w \in Workers : WF_vars(Proceed(w))

FairSpec == Spec /\ Fairness

-----------------------------------------------------------------------------
\* Every order that asks for a hold gets it confirmed in MES (and maybe its
\* release asked for already), or is known to need none (SMM holds the lot, or
\* it was closed), or raises HOLD_FAILED: rejections, time-outs and retries
\* never leave it in between for good (SET_DEFAULT_HOLD, CONFIRM_HOLD).
EveryOrderSettles ==
    \A o \in Orders :
        life[o] = "OPEN" ~> \/ bind[o].status \in {"CONFIRMED", "RELEASE_PENDING"}
                            \/ skip[o]
                            \/ life[o] \in Closed
                            \/ "HOLD_FAILED" \in alarms[o]

\* Once every wafer was scanned the order is closed, or somebody was told why
\* not: the release, its retries and its verification come to an end
\* (CHECK_AI, CONFIRM_RELEASE).
ScannedOrderEnds ==
    \A o \in Orders :
        life[o] = "OPEN" /\ scan[o] = "READY" ~>
            \/ life[o] \in Closed
            \/ alarms[o] \cap {"HOLD_FAILED", "RELEASE_FAILED"} # {}
=============================================================================
