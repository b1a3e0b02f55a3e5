------------------------------ MODULE Friends ------------------------------
(***************************************************************************)
(* Friend requests, friendships and event invites (friends.service.js).    *)
(* Every handler reads, awaits, and then writes what it decided; a         *)
(* friendship is two rows that are written and found separately.           *)
(*                                                                         *)
(* A refusal that depends on nothing modelled here (an inactive or an      *)
(* anonymous account, a recipient who takes no requests) is a handler that *)
(* never gets under way.                                                   *)
(***************************************************************************)
EXTENDS Naturals, Sequences, SequencesExt

CONSTANTS
    Users,
    Handlers,     \* HTTP requests in flight together
    MaxRequests,  \* bound: friend requests ever made
    MaxInvites,   \* bound: event invites ever made
    NoUser

ASSUME FriendsAssumption ==
    /\ {MaxRequests, MaxInvites} \subseteq Nat
    /\ NoUser \notin Users

VARIABLES
    requests,  \* the friend_requests collection
    rows,      \* the friendships collection: <<userId, friendId>>
    invites,   \* the event_invites collection
    task,      \* what each handler is doing
    agreed,    \* history: <<sender, recipient>> of the requests accepted
    torn       \* history: pairs whose acceptance was cut short

friendVars == <<requests, rows, invites, task, agreed, torn>>

NoTask == [pc |-> "idle", from |-> NoUser, to |-> NoUser, doc |-> 0, todo |-> {}]
Both(u, v) == {<<u, v>>, <<v, u>>}

Becomes(h, new) == task' = [task EXCEPT ![h] = new]
Ends(h) == Becomes(h, NoTask)
Goes(h, pc) == Becomes(h, [task[h] EXCEPT !.pc = pc])

IsPending(r, u, v) == r.from = u /\ r.to = v /\ r.status = "pending"
Pending(u, v) == {i \in DOMAIN requests : IsPending(requests[i], u, v)}

-----------------------------------------------------------------------------
(* sendFriendRequest.                                                      *)

\* The two are not friends yet.
SendRequest(h, u, v) ==
    /\ task[h] = NoTask
    /\ u # v
    /\ <<u, v>> \notin rows
    /\ Becomes(h, [NoTask EXCEPT !.pc = "reverse", !.from = u, !.to = v])
    /\ UNCHANGED <<requests, rows, invites, agreed, torn>>

\* A request the other way is accepted instead.
PendingOwn(u, v) == Pending(u, v)                                  \* mutant
PendingReverse(u, v) == Pending(v, u)

FindReverse(h) ==
    /\ task[h].pc = "reverse"
    /\ LET found == PendingReverse(task[h].from, task[h].to)
       IN  IF found = {} THEN Goes(h, "own")
           ELSE \E i \in found :
                  Becomes(h, [NoTask EXCEPT !.pc = "accept", !.doc = i,
                                            !.from = task[h].from, !.to = task[h].to])
    /\ UNCHANGED <<requests, rows, invites, agreed, torn>>

FindOwn(h) ==
    /\ task[h].pc = "own"
    /\ IF Pending(task[h].from, task[h].to) = {} THEN Goes(h, "create") ELSE Ends(h)
    /\ UNCHANGED <<requests, rows, invites, agreed, torn>>

\* One pending request per sender and recipient: the partial unique index.
NoIndex(u, v) == TRUE                                              \* mutant
UniquePending(u, v) == Pending(u, v) = {}

Create(h) ==
    /\ task[h].pc = "create"
    /\ Len(requests) < MaxRequests
    /\ requests' =
         IF UniquePending(task[h].from, task[h].to)
         THEN Append(requests, [from |-> task[h].from, to |-> task[h].to,
                                status |-> "pending"])
         ELSE requests
    /\ Ends(h)
    /\ UNCHANGED <<rows, invites, agreed, torn>>

-----------------------------------------------------------------------------
(* cancelFriendRequest, respondFriendRequest, _acceptRequest.  The document *)
(* that was read is saved whatever has become of the request since.        *)

Cancel(h, i) ==
    /\ task[h] = NoTask
    /\ requests[i].status = "pending"
    /\ Becomes(h, [NoTask EXCEPT !.pc = "cancel", !.doc = i,
                                 !.from = requests[i].from, !.to = requests[i].to])
    /\ UNCHANGED <<requests, rows, invites, agreed, torn>>

\* Only the recipient responds.
Respond(h, i, answer) ==
    /\ task[h] = NoTask
    /\ requests[i].status = "pending"
    /\ Becomes(h, [NoTask EXCEPT !.pc = answer, !.doc = i,
                                 !.from = requests[i].to, !.to = requests[i].from])
    /\ UNCHANGED <<requests, rows, invites, agreed, torn>>

\* The status the request is saved with.
Outcome(pc) ==
    CASE pc = "cancel" -> "cancelled" [] pc = "deny" -> "denied" [] pc = "accept" -> "accepted"

\* The two upserts run side by side.
SaveStatus(h) ==
    LET t == task[h]
    IN  /\ t.pc \in {"cancel", "deny", "accept"}
        /\ requests' = [requests EXCEPT ![t.doc].status = Outcome(t.pc)]
        /\ IF t.pc = "accept"
           THEN /\ Becomes(h, [t EXCEPT !.pc = "rows", !.todo = Both(t.from, t.to)])
                /\ agreed' = IF t.from = requests[t.doc].to
                             THEN agreed \cup {<<t.to, t.from>>} ELSE agreed
           ELSE Ends(h) /\ UNCHANGED agreed
        /\ UNCHANGED <<rows, invites, torn>>

Upsert(h) ==
    /\ task[h].pc = "rows"
    /\ \E row \in task[h].todo :
         /\ rows' = rows \cup {row}
         /\ IF task[h].todo = {row} THEN Ends(h)
            ELSE Becomes(h, [task[h] EXCEPT !.todo = @ \ {row}])
    /\ UNCHANGED <<requests, invites, agreed, torn>>

\* The database or the process fails; nothing is taken back.
HandlerFails(h) ==
    /\ task[h] # NoTask
    /\ Ends(h)
    /\ torn' = IF task[h].pc = "rows" THEN torn \cup Both(task[h].from, task[h].to) ELSE torn
    /\ UNCHANGED <<requests, rows, invites, agreed>>

-----------------------------------------------------------------------------
\* bound: nobody unfriends in the middle of an acceptance.
Settled(u, v) ==
    \A h \in Handlers : task[h].pc = "rows" => task[h].todo \cap Both(u, v) = {}

OneSide(u, v) == {<<u, v>>}                                        \* mutant
Unfriended(u, v) == Both(u, v)

Unfriend(u, v) ==
    /\ Both(u, v) \cap rows # {}
    /\ Settled(u, v)
    /\ rows' = rows \ Unfriended(u, v)
    /\ torn' = torn \ Both(u, v)
    /\ UNCHANGED <<requests, invites, task, agreed>>

\* sendEventInvite: to a friend, as they were when it looked.
Invite(h, u, v) ==
    /\ task[h] = NoTask
    /\ <<u, v>> \in rows
    /\ Becomes(h, [NoTask EXCEPT !.pc = "invite", !.from = u, !.to = v])
    /\ UNCHANGED <<requests, rows, invites, agreed, torn>>

SaveInvite(h) ==
    /\ task[h].pc = "invite"
    /\ Len(invites) < MaxInvites
    /\ invites' = Append(invites, [from |-> task[h].from, to |-> task[h].to,
                                   status |-> "sent"])
    /\ Ends(h)
    /\ UNCHANGED <<requests, rows, agreed, torn>>

\* respondEventInvite: as often as the recipient likes.
RespondInvite(i, answer) ==
    /\ invites' = [invites EXCEPT ![i].status = answer]
    /\ UNCHANGED <<requests, rows, task, agreed, torn>>

-----------------------------------------------------------------------------
FriendsInit ==
    /\ requests = <<>>
    /\ rows = {}
    /\ invites = <<>>
    /\ task = [h \in Handlers |-> NoTask]
    /\ agreed = {}
    /\ torn = {}

FriendsNext ==
    \/ \E h \in Handlers :
         \/ \E u, v \in Users : SendRequest(h, u, v) \/ Invite(h, u, v)
         \/ FindReverse(h)
         \/ FindOwn(h)
         \/ Create(h)
         \/ \E i \in DOMAIN requests :
              Cancel(h, i) \/ \E answer \in {"accept", "deny"} : Respond(h, i, answer)
         \/ SaveStatus(h)
         \/ Upsert(h)
         \/ HandlerFails(h)
         \/ SaveInvite(h)
    \/ \E u, v \in Users : Unfriend(u, v)
    \/ \E i \in DOMAIN invites : \E answer \in {"accepted", "dismissed"} :
         RespondInvite(i, answer)

FriendsSpec == FriendsInit /\ [][FriendsNext]_friendVars

-----------------------------------------------------------------------------
Statuses == {"pending", "accepted", "denied", "cancelled"}

\* Types.  A handler at work knows its request, and at most one request from one
\* user to another is pending, although handlers that look for one and create
\* one overlap.
FriendsTypeOK ==
    /\ requests \in Seq([from : Users, to : Users, status : Statuses])
    /\ rows \cup agreed \cup torn \subseteq Users \X Users
    /\ invites \in Seq([from : Users, to : Users,
                         status : {"sent", "accepted", "dismissed"}])
    /\ \A h \in Handlers :
         /\ task[h].pc \in {"cancel", "deny", "accept", "rows"}
              => task[h].doc \in DOMAIN requests
         /\ task[h].todo # {} => task[h].pc = "rows"
    /\ \A i, j \in DOMAIN requests :
         requests[i] = requests[j] /\ requests[i].status = "pending" => i = j

\* A friendship counts for both, unless an acceptance failed half-way: requests
\* that cross, and requests cancelled while they are accepted, do not leave one
\* of the two alone with it.
FriendshipIsMutual ==
    \A u, v \in Users :
        <<u, v>> \in rows /\ Settled(u, v) /\ <<u, v>> \notin torn => <<v, u>> \in rows

\* Nobody is a friend, or invited as one, who has not accepted a request of the
\* other or had one of theirs accepted: sending a request again never accepts it.
FriendsHaveAgreed ==
    /\ \A row \in rows : Both(row[1], row[2]) \cap agreed # {}
    /\ \A i \in DOMAIN invites : Both(invites[i].from, invites[i].to) \cap agreed # {}

=============================================================================
