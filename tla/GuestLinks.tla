----------------------------- MODULE GuestLinks -----------------------------
(***************************************************************************)
(* Guest links: an admin generates the link of a household, which replaces *)
(* the one before, or revokes it; whoever has it reads the household.      *)
(*                                                                         *)
(* The UPDATE that revokes links has a snapshot of its own, and waits for  *)
(* rows another request has locked; a link inserted meanwhile is not in    *)
(* the snapshot.  The unique index uq_guest_tokens_active_household admits *)
(* one link of a household that is not revoked, so an insertion waits for  *)
(* the other's commit and fails.  Waiting moves the end of a transaction,  *)
(* not what it does: a transaction is its snapshot and its commit.         *)
(* Links are created without expires_at, so they do not expire.            *)
(***************************************************************************)
EXTENDS Tenancy

VARIABLE link   \* guest_tokens: NULL, or the row with that token

GuestToken == [home : Households \cup {NULL}, revoked : BOOLEAN]

ASSUME LinksAssumption == NULL \notin GuestToken

\* The row went with its household; a token is never drawn twice.
Deleted == [home |-> NULL, revoked |-> TRUE]

LinksInit == link = [l \in Links |-> NULL]

Active(l) == link[l] # NULL /\ ~link[l].revoked

ActiveLinks(h) == {l \in Links : Active(l) /\ link[l].home = h}

\* The UPDATE of revoke_previous_guest_tokens begins, for an admin.
GenerateLink(r, h) ==
  /\ MayBegin(r, h)
  /\ Become(r, [Admitted("link", "linking", h, "brew_log", NULL, NULL)
                  EXCEPT !.links = ActiveLinks(h)])
  /\ UNCHANGED <<live, row, link>>

RevokeLink(r, h) ==
  /\ MayBegin(r, h)
  /\ Become(r, [Admitted("link", "closing", h, "brew_log", NULL, NULL)
                  EXCEPT !.links = ActiveLinks(h)])
  /\ UNCHANGED <<live, row, link>>

\* The rows of the snapshot that are still active.
Revoked(r) ==
  [l \in Links |-> IF l \in req[r].links /\ Active(l)
                   THEN [link[l] EXCEPT !.revoked = TRUE] ELSE link[l]]

IndexAllowsFaulty(r) == TRUE

\* uq_guest_tokens_active_household, after the UPDATE.
IndexAllows(r) == ActiveLinks(req[r].home) \subseteq req[r].links

\* create_guest_token and the commit.  A failed insertion rolls the UPDATE back.
CommitLink(r) ==
  LET h == req[r].home IN
  /\ req[r].step = "linking"
  /\ IF h \in live /\ IndexAllows(r)
     THEN /\ \E l \in Links :
               /\ link[l] = NULL
               /\ link' = [Revoked(r) EXCEPT ![l] = [home |-> h, revoked |-> FALSE]]
          /\ Answer(r, "created")
     ELSE Answer(r, "failed") /\ UNCHANGED link
  /\ UNCHANGED <<live, row>>

CommitRevocation(r) ==
  /\ req[r].step = "closing"
  /\ link' = Revoked(r)
  /\ Answer(r, "ok")
  /\ UNCHANGED <<live, row>>

\* guest_household_view and the guest branch of resolve_guest_or_member: the
\* link is checked, then its household is set for the reading.
OpenLink(r, l) ==
  /\ req[r].step = "new" /\ Cardinality(Running) < MaxActive
  /\ IF Active(l)
     THEN Become(r, Admitted("read", "viewing", link[l].home, "brew_log", NULL, NULL))
     ELSE Become(r, Answered(Waiting, "refused"))
  /\ UNCHANGED <<live, row, link>>

\* The household is looked up first: a deleted one answers 404.
ViewAsGuest(r) ==
  LET h == req[r].home IN
  /\ req[r].step = "viewing"
  /\ IF h \in live
     THEN Become(r, [Answered(req[r], "ok") EXCEPT !.shown = Displayed(h, Tables)])
     ELSE Answer(r, "refused")
  /\ UNCHANGED <<live, row, link>>

LinksNext ==
  \E r \in Requests :
    \/ /\ focus = "guest"
       /\ \/ \E h \in Households : GenerateLink(r, h) \/ RevokeLink(r, h)
          \/ \E l \in Links : OpenLink(r, l)
    \/ CommitLink(r) \/ CommitRevocation(r) \/ ViewAsGuest(r)
=============================================================================
