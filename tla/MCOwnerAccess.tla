--------------------------- MODULE MCOwnerAccess ---------------------------
(***************************************************************************)
(* Small instances of OwnerSession, GuestLimiter and PilotInvites for TLC: *)
(* the ways in that need no password.  A guest that the limiter lets in is *)
(* one call of the page, one it turns away is an answer that is lost, and  *)
(* a code opens a session as a recovery does: the three share nothing      *)
(* else.  A behaviour runs one of them.                                    *)
(***************************************************************************)
EXTENDS OwnerSession, GuestLimiter, PilotInvites

VARIABLE part

MCInit == AccessInit /\ LimiterInit /\ InviteInit /\ part \in {"page", "limiter", "invites"}
MCNext ==
  \/ part = "page" /\ AccessNext /\ UNCHANGED <<limiterVars, inviteVars, part>>
  \/ part = "limiter" /\ LimiterNext /\ UNCHANGED <<accessVars, inviteVars, part>>
  \/ part = "invites" /\ InviteNext /\ UNCHANGED <<accessVars, limiterVars, part>>
MCSpec == MCInit /\ [][MCNext]_<<accessVars, limiterVars, inviteVars, part>>

Symmetry ==
  Permutations(Sessions) \cup Permutations(Calls)
    \cup Permutations(Commands) \cup Permutations(Attempts)

=============================================================================
