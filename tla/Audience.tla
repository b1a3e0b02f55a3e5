------------------------------ MODULE Audience ------------------------------
(***************************************************************************)
(* The attendees of one event: claiming a nickname and joining             *)
(* (attendee-session.service.js over participants.service.js), leaving,    *)
(* protecting the nickname, renaming and masking oneself, taking part, and *)
(* the DJ's moderation.                                                    *)
(*                                                                         *)
(* An attendee has one request in flight.  A request reads a row, checks   *)
(* it, and saves it later; Mongoose writes the fields it changed.  The     *)
(* DJ's requests write fields whatever the row they read held, so reading  *)
(* and writing can be taken as one step.  The mask "Participant n" is the  *)
(* number n, an attendee's password is the attendee.                       *)
(***************************************************************************)
EXTENDS Naturals, FiniteSets

CONSTANTS
    People,      \* attendees, one request of each at a time
    Rows,        \* participant documents
    Users,       \* attendee accounts that can be created
    Names,       \* nicknames that can be typed, masks included
    Ops,         \* the requests each attendee may make
    Moderations, \* what the DJ may do
    Subjects,    \* bound: the rows the DJ moderates
    JoinPrefs,   \* social preferences each may send with a join, "none" for none
    Deployments, \* whether the database has transactions: both are supported
    Alone,       \* bound: requests during which no other attendee has one
    Undisturbed, \* bound: requests during which, besides, no DJ acts
    NoRow, NoUser, NoName, Nobody

OpNames == {"join", "restJoin", "leave", "password", "rename", "mask", "interact"}

\* Numbers a mask can get: the count of active rows plus one.
Numbers == 1 .. Cardinality(Rows) + 1

ASSUME AudienceAssumption ==
    /\ IsFiniteSet(Rows)
    /\ NoRow \notin Rows
    /\ NoUser \notin Users
    /\ NoName \notin Names \cup Numbers
    /\ Nobody \notin People
    /\ Ops \in [People -> SUBSET OpNames]
    /\ Moderations \subseteq {"kick", "ban", "cooldown", "clear"}
    /\ Subjects \subseteq Rows
    /\ JoinPrefs \in [People -> SUBSET {"none", "show", "hide"}]
    /\ Deployments \subseteq BOOLEAN
    /\ Alone \subseteq OpNames
    /\ Undisturbed \subseteq OpNames

VARIABLES
    transactions, \* whether this deployment's database has them
    row,          \* the participants collection
    users,        \* accounts that exist
    token,        \* the account each attendee's client is signed in to
    call          \* the request of each attendee

vars == <<transactions, row, users, token, call>>

AllNames == Names \cup Numbers

Blank == [exists |-> FALSE, name |-> NoName, user |-> NoUser, left |-> FALSE,
          kicked |-> FALSE, banned |-> FALSE, pw |-> Nobody, real |-> NoName,
          number |-> 0, shows |-> TRUE, cooldown |-> "none"]
Idle == [pc |-> "idle", op |-> "none", row |-> NoRow, seen |-> Blank,
         edited |-> Blank, name |-> NoName, prefs |-> "none", user |-> NoUser]

-----------------------------------------------------------------------------
(* What the queries return.                                                *)

Active(r) == row[r].exists /\ ~row[r].left /\ ~row[r].banned

Named(name) == {r \in Rows : row[r].exists /\ row[r].name = name}

\* The unique index on the event and the nickname.
TakenNever(name, r) == FALSE                                       \* mutant
Taken(name, r) == Named(name) \ {r} # {}

\* _nextAnonymousNumber.
NextNumber == Cardinality({r \in Rows : Active(r)}) + 1

-----------------------------------------------------------------------------
(* What a request does to the document it has loaded.                      *)

\* Who may claim the nickname of a stored row.
RefusedUnlessLeft(seen, p) ==                                      \* mutant
    seen.banned \/ (seen.pw # Nobody /\ seen.pw # p)
Refused(seen, p) ==
    \/ seen.banned
    \/ seen.pw # Nobody /\ seen.pw # p
    \/ seen.pw = Nobody /\ ~seen.left

\* _applySocialPrefs, the name part.  number is what the document has or is
\* given; a rejoin does not wait for it, so there it can still be 0.
MaskedUnlessNamed(doc, prefs, number, name) ==                     \* mutant
    LET real == IF name = NoName THEN doc.real ELSE name
    IN [doc EXCEPT !.shows = (prefs = "show"), !.real = real,
                   !.number = IF prefs = "hide" THEN number ELSE @,
                   !.name = IF real # NoName THEN real
                            ELSE IF prefs = "hide" /\ number # 0 THEN number ELSE @]
Masked(doc, prefs, number, name) ==
    LET real == IF name = NoName THEN doc.real ELSE name
    IN [doc EXCEPT !.shows = (prefs = "show"), !.real = real,
                   !.number = IF prefs = "hide" THEN number ELSE @,
                   !.name = IF prefs = "show"
                            THEN (IF real # NoName THEN real ELSE @)
                            ELSE (IF number # 0 THEN number ELSE @)]

NumberFor(doc) == IF doc.number # 0 THEN doc.number ELSE NextNumber

\* joinEvent on a row that exists: the row is opened again for the new user.
Rejoined(seen, c) ==
    LET open == [seen EXCEPT !.left = FALSE, !.kicked = FALSE, !.user = c.user]
    IN IF c.prefs = "none" THEN open
       ELSE Masked(open, c.prefs, seen.number, c.name)

\* joinEvent on a free nickname.
Joined(c) ==
    LET new == [Blank EXCEPT !.exists = TRUE, !.name = c.name, !.user = c.user]
    IN IF c.prefs = "none" THEN new
       ELSE Masked(new, c.prefs, NumberFor(new), c.name)

\* The explicit rename of updateProfile.
Renamed(seen, name) ==
    [seen EXCEPT !.real = name,
                 !.name = IF ~seen.shows /\ seen.number # 0 THEN seen.number ELSE name]

\* document.save(): the fields that differ from what was loaded.
Saved(current, seen, edited) ==
    [f \in DOMAIN current |-> IF edited[f] # seen[f] THEN edited[f] ELSE current[f]]

-----------------------------------------------------------------------------
(* Bounds on what overlaps.                                                *)

Kinds(c) == IF c.pc = "idle" THEN {}
            ELSE {c.op} \cup (IF c.op = "join" /\ ~transactions THEN {"restJoin"} ELSE {})
Others(p) == People \ {p}

MayStart(p, op) ==
    /\ op \in Ops[p]
    /\ call[p].pc = "idle"
    /\ \A q \in Others(p) : Kinds(call[q]) \cap Alone = {}
    /\ (op \in Alone \/ (op = "join" /\ ~transactions)
          => \A q \in Others(p) : call[q].pc = "idle")
DjMayAct == \A p \in People : Kinds(call[p]) \cap Undisturbed = {}

Answer(p) == call' = [call EXCEPT ![p] = Idle]

-----------------------------------------------------------------------------
(* Joining.                                                                *)

SpareUsers == Users \ (users \cup {call[q].user : q \in People})

\* In a transaction the account appears when it commits; without one, at once.
RegisteredOutside(u) == users' = users \cup {u}                    \* mutant
Registered(u) == users' = IF transactions THEN users ELSE users \cup {u}

\* attendeeSessionService reads the row and resolves the account.
Claim(p, name, prefs) ==
    /\ MayStart(p, "join")
    /\ \E r \in IF Named(name) = {} THEN {NoRow} ELSE Named(name) :
         LET seen == IF r = NoRow THEN Blank ELSE row[r]
             held == seen.pw # Nobody /\ seen.user # NoUser
             start(u) == [Idle EXCEPT !.pc = "claimed", !.op = "join", !.row = r,
                            !.seen = seen, !.name = name, !.prefs = prefs, !.user = u]
         IN /\ r = NoRow \/ ~Refused(seen, p)
            /\ \E u \in IF held THEN {seen.user} ELSE SpareUsers :
                 /\ call' = [call EXCEPT ![p] = start(u)]
                 /\ IF held THEN UNCHANGED users ELSE Registered(u)
    /\ UNCHANGED <<transactions, row, token>>

\* A signed-in client joins by the participants route: no claim, no transaction.
RestJoin(p, name, prefs) ==
    /\ MayStart(p, "restJoin")
    /\ token[p] # NoUser
    /\ \E r \in IF Named(name) = {} THEN {NoRow} ELSE Named(name) :
         LET seen == IF r = NoRow THEN Blank ELSE row[r]
         IN call' = [call EXCEPT ![p] = [Idle EXCEPT !.pc = "claimed", !.op = "restJoin",
                         !.row = r, !.seen = seen, !.name = name, !.prefs = prefs,
                         !.user = token[p]]]
    /\ UNCHANGED <<transactions, row, users, token>>

\* participantsService.joinEvent checks again and edits the document.  A row
\* that is new takes the first free place.
Enter(p) ==
    LET c == call[p]
    IN /\ c.pc = "claimed"
       /\ IF c.row # NoRow
          THEN IF Refused(c.seen, p) THEN Answer(p)
               ELSE call' = [call EXCEPT ![p].pc = "joining",
                                         ![p].edited = Rejoined(c.seen, c)]
          ELSE call' = [call EXCEPT ![p].pc = "joining", ![p].edited = Joined(c)]
       /\ UNCHANGED <<transactions, row, users, token>>

\* The transaction fails when what it read has changed since; it is then run
\* again from the start, which is a new Claim.
IgnoredConflict(c) == FALSE                                        \* mutant
Conflict(c) ==
    /\ c.op = "join"
    /\ transactions
    /\ IF c.row = NoRow THEN Named(c.name) # {} ELSE row[c.row] # c.seen

SaveJoin(p) ==
    LET c == call[p]
    IN /\ c.pc = "joining"
       /\ ~Conflict(c)
       /\ ~Taken(c.edited.name, c.row)
       /\ \E r \in IF c.row # NoRow THEN {c.row} ELSE {q \in Rows : ~row[q].exists} :
            row' = [row EXCEPT ![r] = Saved(@, c.seen, c.edited)]
       /\ users' = users \cup {c.user}
       /\ token' = [token EXCEPT ![p] = c.user]
       /\ Answer(p)
       /\ UNCHANGED transactions

\* A conflict, a duplicate key, or the database is away.
JoinFails(p) ==
    /\ call[p].pc \in {"claimed", "joining"}
    /\ Answer(p)
    /\ UNCHANGED <<transactions, row, users, token>>

-----------------------------------------------------------------------------
(* Requests of an attendee who has joined.                                 *)

\* _assertParticipantSession: active, not banned, and one's own.
Holds(p, r) == Active(r) /\ row[r].user = token[p] /\ token[p] # NoUser

Load(p, op, r, edited) ==
    /\ MayStart(p, op)
    /\ Holds(p, r)
    /\ call' = [call EXCEPT ![p] = [Idle EXCEPT !.pc = "saving", !.op = op,
                    !.row = r, !.seen = row[r], !.edited = edited]]
    /\ UNCHANGED <<transactions, row, users, token>>

Leave(p, r) == Load(p, "leave", r, [row[r] EXCEPT !.left = TRUE])

SetPassword(p, r) == Load(p, "password", r, [row[r] EXCEPT !.pw = p])

Rename(p, r, name) ==
    /\ name # row[r].name
    /\ ~Taken(name, r)
    /\ Load(p, "rename", r, Renamed(row[r], name))

\* The mask is switched on or off; the original name is what is remembered.
SwitchMask(p, r, prefs) ==
    Load(p, "mask", r, Masked(row[r], prefs, NumberFor(row[r]), row[r].real))

\* Suggesting or voting drops a cooldown that has run out.
LapsedAny(seen) == seen.cooldown # "none"                          \* mutant
Lapsed(seen) == seen.cooldown = "expired"
Interact(p, r) ==
    /\ Lapsed(row[r])
    /\ Load(p, "interact", r, [row[r] EXCEPT !.cooldown = "none"])

Save(p) ==
    LET c == call[p]
    IN /\ c.pc = "saving"
       /\ \/ c.edited.name = c.seen.name
          \/ ~Taken(c.edited.name, c.row)
       /\ row' = [row EXCEPT ![c.row] = Saved(@, c.seen, c.edited)]
       /\ Answer(p)
       /\ UNCHANGED <<transactions, users, token>>

SaveFails(p) ==
    /\ call[p].pc = "saving"
    /\ Answer(p)
    /\ UNCHANGED <<transactions, row, users, token>>

-----------------------------------------------------------------------------
(* The DJ, by REST or by socket, and time.                                 *)

Kicked(doc) == [doc EXCEPT !.kicked = TRUE, !.left = TRUE]
Banned(doc) == [doc EXCEPT !.banned = TRUE, !.left = TRUE]
CooledDown(doc) == [doc EXCEPT !.cooldown = "active"]
Pardoned(doc) == [doc EXCEPT !.cooldown = "none"]

Moderate(what, r, new) ==
    /\ what \in Moderations
    /\ r \in Subjects
    /\ DjMayAct
    /\ row[r].exists
    /\ row' = [row EXCEPT ![r] = new]
    /\ UNCHANGED <<transactions, users, token, call>>

Kick(r) == Moderate("kick", r, Kicked(row[r]))
Ban(r) == Moderate("ban", r, Banned(row[r]))
SetCooldown(r) == Moderate("cooldown", r, CooledDown(row[r]))
ClearCooldown(r) == Moderate("clear", r, Pardoned(row[r]))

CooldownRunsOut(r) ==
    /\ row[r].cooldown = "active"
    /\ row' = [row EXCEPT ![r].cooldown = "expired"]
    /\ UNCHANGED <<transactions, users, token, call>>

-----------------------------------------------------------------------------
Init ==
    /\ transactions \in Deployments
    /\ row = [r \in Rows |-> Blank]
    /\ users = {}
    /\ token = [p \in People |-> NoUser]
    /\ call = [p \in People |-> Idle]

Attendee(p) ==
    \/ \E name \in Names, prefs \in JoinPrefs[p] :
         \/ Claim(p, name, prefs)
         \/ RestJoin(p, name, prefs)
    \/ Enter(p)
    \/ SaveJoin(p)
    \/ JoinFails(p)
    \/ \E r \in Rows :
         \/ Leave(p, r)
         \/ SetPassword(p, r)
         \/ \E name \in Names : Rename(p, r, name)
         \/ \E prefs \in {"show", "hide"} : SwitchMask(p, r, prefs)
         \/ Interact(p, r)
    \/ Save(p)
    \/ SaveFails(p)

Next ==
    \/ \E p \in People : Attendee(p)
    \/ \E r \in Rows :
         \/ Kick(r)
         \/ Ban(r)
         \/ SetCooldown(r)
         \/ ClearCooldown(r)
         \/ CooldownRunsOut(r)

Spec == Init /\ [][Next]_vars

-----------------------------------------------------------------------------
RowRecords ==
    [exists : BOOLEAN, name : AllNames \cup {NoName}, user : Users \cup {NoUser},
     left : BOOLEAN, kicked : BOOLEAN, banned : BOOLEAN, pw : People \cup {Nobody},
     real : Names \cup {NoName}, number : Numbers \cup {0}, shows : BOOLEAN,
     cooldown : {"none", "active", "expired"}]

\* Every row is well formed, a row in use has a name of its own and a user
\* that exists, and every token is an account that exists.
TypeOK ==
    /\ transactions \in BOOLEAN
    /\ row \in [Rows -> RowRecords]
    /\ users \subseteq Users
    /\ token \in [People -> users \cup {NoUser}]
    /\ \A r \in Rows : row[r].exists => row[r].name # NoName /\ row[r].user \in users
    /\ \A r, q \in Rows : row[r].exists /\ row[q].exists /\ row[r].name = row[q].name => r = q

\* An attendee the DJ has kicked or banned is out of the event: a kick or a
\* ban is never half undone by a rejoin, a leave or an edit that was under way
\* (kickParticipant, banParticipant against joinEvent's reset of leftAt).
ModeratedIsOut ==
    \A r \in Rows : row[r].kicked \/ row[r].banned => row[r].left

\* An attendee who hides the display name goes by the mask, whatever the
\* joins, renames and switches since the number was given (_applySocialPrefs
\* and updateProfile keep the public nickname in step with the preference).
MaskIsKept ==
    \A r \in Rows : ~row[r].shows /\ row[r].number # 0 => row[r].name = row[r].number

\* Nobody else gets the row of an attendee who is in the event, unless the row
\* has a password: two claims of one nickname never both succeed (joinEvent's
\* "Nickname already taken in this event").
ActiveRowIsNotTaken ==
    [][\A r \in Rows : Active(r) /\ row'[r].user # row[r].user => row[r].pw # Nobody]_vars

\* A protected row changes hands only to whoever knows its password, even when
\* the password is being set while somebody else claims the row
\* (setParticipantPassword against the claim's check of passwordHash).
ProtectedRowKeepsOwner ==
    [][\A r \in Rows : row[r].pw # Nobody /\ row'[r].user # row[r].user
         => token'[row[r].pw] = row'[r].user]_vars

\* With transactions, a join that fails leaves no account behind: an account
\* appears only together with the row it was made for (joinEvent of
\* attendee-session.service.js).
FailedJoinLeavesNothing ==
    [][transactions => \A u \in users' \ users : \E r \in Rows : row'[r].user = u]_vars

\* A cooldown in force is lifted by the DJ or by time, never by the attendee's
\* own requests (ensureParticipantCanInteract clears a cooldown it found over).
CooldownHolds ==
    [][\A r \in Rows : row[r].cooldown = "active" /\ row'[r].cooldown = "none"
         => ClearCooldown(r)]_vars

\* "the original value is preserved in `realNickname` so toggling the pref back
\* on restores it": a row that goes by a mask knows another name.
MaskRemembersName ==
    \A r \in Rows : row[r].exists /\ ~row[r].shows /\ row[r].name = row[r].number
                      => row[r].real \notin Numbers \cup {NoName}

=============================================================================
