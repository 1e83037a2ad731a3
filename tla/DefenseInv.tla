------------------------------ MODULE DefenseInv ------------------------------
(***************************************************************************)
(* The inductive invariant behind the promises of Defense: what a pass      *)
(* would commit is as good as what is committed, as long as nobody else     *)
(* committed since it began.  DefenseProofs proves it.                      *)
(***************************************************************************)
EXTENDS Defense, HoldOrderInv

Modes == {"ENABLED", "DISABLED_NEW_HOLD"}

\* The pass still sees the committed state: it has written, or may yet.
Current(p) == p.locked \/ p.fresh

-----------------------------------------------------------------------------
(* Incident tables *)

IsBook(b) == b.row \in [Keys -> Rows]

\* A row is queued once, when it is opened, and no mail is tried too often.
BookOK(b) ==
    /\ IsBook(b)
    /\ \A k \in Keys : /\ b.row[k].tries <= MaxAttempts
                       /\ ~Told(b, k) => b.row[k].mail = "NONE"
    /\ b.queue \in Seq(Keys)
    /\ \A i, j \in DOMAIN b.queue : b.queue[i] = b.queue[j] => i = j
    /\ \A i \in DOMAIN b.queue : Told(b, b.queue[i])

\* What is left of a page was not sent in this pass and may be tried again.
PassOK(p) ==
    /\ p.pc \in {"idle", "mail"} /\ p.locked \in BOOLEAN /\ p.fresh \in BOOLEAN
    /\ p.pc = "idle" => ~p.locked
    /\ BookOK(p.book)
    /\ p.page \subseteq Pending(p.book)
    /\ \A i \in p.page : ~Exhausted(p.book.row[p.book.queue[i]])

-----------------------------------------------------------------------------
(* Disabling new holds *)

\* What DEFENSE would commit is explained, and differs from what is committed
\* at most by disabling new holds.
PassInv(p) ==
    /\ DOMAIN p = {"pc", "book", "control", "page", "locked", "fresh"}
    /\ IsBook(p.book)
    /\ p.control \in Modes
    /\ Current(p) =>
         /\ p.control # control => p.control = "DISABLED_NEW_HOLD"
         /\ p.control = "DISABLED_NEW_HOLD" => Explained(p.book)

SweepInv ==
    /\ control \in Modes
    /\ IsBook(book)
    /\ DisablingIsExplained
    /\ sweep = [d \in Sweepers |-> sweep[d]]
    /\ \A d \in Sweepers : PassInv(sweep[d])
    /\ \A d, e \in Sweepers : sweep[d].locked /\ sweep[e].locked => d = e

-----------------------------------------------------------------------------
(* Mails *)

Sent(b, k) == b.row[k].mail = "SENT"

\* The mail was sent by a pass that committed, or has the lock to do so.
Out(k) ==
    \/ Sent(book, k)
    \/ \E d \in Sweepers : sweep[d].locked /\ Sent(sweep[d].book, k)

\* As many mails arrived as passes broke off, and one more if one is out.
LettersInv ==
    \A k \in Keys :
        /\ letters[k] <= 1 + broken
        /\ broken < MaxBroken /\ ~Out(k) => letters[k] <= broken

BooksOK ==
    /\ BookOK(book)
    /\ \A d \in Sweepers : PassOK(sweep[d])
    /\ \A d \in Sweepers, k \in Keys :
         Current(sweep[d]) /\ Sent(book, k) => Sent(sweep[d].book, k)

MailInv ==
    /\ BooksOK
    /\ old \in [Orders -> BOOLEAN] /\ late \in [Orders -> BOOLEAN]
    /\ letters \in [Keys -> 0..MaxBroken + 1]
    /\ broken \in 0..MaxBroken
    /\ LettersInv

-----------------------------------------------------------------------------
(* Incidents of an order *)

\* An overdue release was asked for; a closed order has one only when MES
\* refused the release, and then nobody sends it any more.
LateOK(b) ==
    \A o \in Orders : b.row[Order(o, "RELEASE_VERIFY_OVERDUE")].status = "OPEN" =>
        /\ rel[o].state # "NONE"
        /\ life[o] = "CLOSED" =>
             rel[o].state = "REJECTED" /\ \A w \in Workers : ~Releasing(w, o)

\* An order with a hold in spite of its end was ended by an operator.
CleanOK(b) ==
    /\ \A l \in Lots : ~Told(b, <<l, "ORPHAN_HOLD">>)
    /\ \A o \in Orders : Told(b, Order(o, "STATE_CONFLICT")) => life[o] = "MANUAL_CLOSED"

\* The agent has holds on the lots of its orders only.
NoStray == \A l \in Lots : mesOwn[l] # {} => \E o \in Orders : LotOf[o] = l

TellingInv ==
    /\ NoStray
    /\ LateOK(book) /\ CleanOK(book)
    /\ \A d \in Sweepers :
         Current(sweep[d]) => LateOK(sweep[d].book) /\ CleanOK(sweep[d].book)
=============================================================================
