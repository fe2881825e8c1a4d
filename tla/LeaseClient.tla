------------------------------- MODULE LeaseClient ------------------------------
(***************************************************************************)
(* lease.Client as the recipes see it: what calls of Renew and Release may *)
(* return for one acquisition, and what they leave behind in the core.     *)
(* Abstracts the Renew and Release of LeaseCore to what holder.Run and the *)
(* manual mutex react to.                                                  *)
(***************************************************************************)

\* The errors of Renew that the recipes tell apart: nil, ErrUnknownOutcome, a loss
\* of the lease, ErrUnavailable or DeadlineExceeded, and any other.
Outcome == {"ok", "unknown", "loss", "unavailable", "other"}

\* held: Check returns nil.  unresolved: the core keeps a renewal whose outcome it
\* does not know, and its caller was told so ("reported") or got another error
\* ("silent").  extended: a renewal was confirmed since shutdown read ValidUntil.
LeaseState ==
  [held : BOOLEAN, unresolved : {"no", "reported", "silent"}, extended : BOOLEAN]

NoLease == [held |-> FALSE, unresolved |-> "no", extended |-> FALSE]
NewLease == [NoLease EXCEPT !.held = TRUE]

dropped(l) == [l EXCEPT !.unresolved = "no"]

\* A renewal that meets a conflict and cannot be read back stays, but what the
\* caller is told is the error of the read.
kept(l) == [l EXCEPT !.unresolved = IF @ = "no" THEN "silent" ELSE @]

\* The states in which a Renew that returns o may leave lease l; done: its context
\* has ended.  Only then does a reconciliation that was unavailable drop the
\* renewal, while any other error may drop it or not, and may end the lease.  What
\* the core still keeps of a lease that has ended makes no difference.
afterRenew(l, o, done) ==
  IF ~l.held THEN (IF o = "ok" THEN {} ELSE {NoLease})
  ELSE CASE o = "ok"          -> {[dropped(l) EXCEPT !.extended = TRUE]}
         [] o = "unknown"     -> {[l EXCEPT !.unresolved = "reported"]}
         [] o = "loss"        -> {NoLease}
         [] o = "unavailable" -> IF done \/ l.unresolved = "no" THEN {kept(l), dropped(l)}
                                                                ELSE {kept(l)}
         [] o = "other"       -> {kept(l), dropped(l), NoLease}

\* Release refuses while a renewal is unresolved (ErrInvalidLease); otherwise the
\* lease has ended whatever becomes of the write.
afterRelease(l) == IF l.unresolved = "no" THEN NoLease ELSE l

================================================================================
