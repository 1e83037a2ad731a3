--------------------------- MODULE HoldOrderClaims ---------------------------
(***************************************************************************)
(* What the design documents and comments say of HoldOrder and the code    *)
(* does not do.  Each is checked alone, under the few faults it needs.     *)
(***************************************************************************)
EXTENDS HoldOrderLive

\* ENTRY_PIPELINE.md:66: a hold once confirmed and then released by the line
\* means MANUAL_CLOSED, "and it must not be set again".  The receipt of a
\* slow set_hold is written over the CONFIRMED command (record_receipt), and
\* the missing hold is then taken for one that was never made.
NoHoldAfterConfirmation ==
    [][\A o \in Orders : bind[o].status = "CONFIRMED" =>
                           bind'[o].status # "PENDING"]_vars

\* DEV_BASELINE.md I07: rework rounds of a lot share no hold.  The binding's
\* tuple carries no round, so a hold answers for both (match_our_holds).
RoundsShareNoHold ==
    \A o, p \in Orders :
        o # p /\ LotOf[o] = LotOf[p] /\ bind[o].status = "CONFIRMED" =>
            bind[p].status # "CONFIRMED" \/ bind[o].code # bind[p].code

\* DEV_BASELINE.md, 1.2: before a release the hold is looked up once more and
\* must be there; nothing is released otherwise.  request_release looks it up
\* for the first attempt, not for a retry.
ReleaseFindsTheHold ==
    [][\A o \in Orders :
         rel'[o].state = "PREPARED" /\ rel[o].state # "PREPARED" =>
             rel'[o].code \in mesOwn[LotOf[o]]]_vars

\* ENTRY_PIPELINE.md:66: own hold gone means CLOSED, "SMM holds are not looked
\* at".  After a release that timed out verify_release wants a lot without any
\* hold, so an SMM hold keeps the order open.
GoneMeansClosed ==
    \A o \in Orders :
        life[o] = "OPEN" /\ rel[o].state = "UNKNOWN" /\ mesOwn[LotOf[o]] = {}
            ~> life[o] \in Closed
=============================================================================
