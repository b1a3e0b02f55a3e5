-------------------------- MODULE Audience_proofs --------------------------
(***************************************************************************)
(* Proofs about the attendees of an event (Audience).  What the types say  *)
(* holds whatever overlaps.  What a join, a kick, a password or a cooldown *)
(* promises needs the two bounds on overlapping that are named below: it   *)
(* is false without them, which is a finding about the code.               *)
(***************************************************************************)
EXTENDS Audience, FiniteSetTheorems, TLAPS

-----------------------------------------------------------------------------
(* Types.                                                                  *)

Edits == {"leave", "password", "rename", "mask", "interact"}

Calls ==
    [pc : {"idle", "claimed", "joining", "saving"}, op : OpNames \cup {"none"},
     row : Rows \cup {NoRow}, seen : RowRecords, edited : RowRecords,
     name : Names \cup {NoName}, prefs : {"none", "show", "hide"},
     user : Users \cup {NoUser}]

\* What a request carries, apart from its place: a document that was read, and
\* the edits of it that its kind may make.
JoinOK(c, p) ==
    /\ c.op \in {"join", "restJoin"} /\ c.name \in Names /\ c.user \in Users
    /\ c.row = NoRow => c.seen = Blank
    /\ c.row # NoRow => c.seen.exists /\ c.seen.name # NoName
    /\ c.pc = "joining" =>
        /\ c.row # NoRow => ~Refused(c.seen, p)
        /\ c.edited.exists /\ c.edited.name # NoName /\ c.edited.user = c.user
        /\ ~c.edited.left /\ ~c.edited.kicked
        /\ c.edited.banned = c.seen.banned /\ c.edited.pw = c.seen.pw
        /\ c.edited.cooldown = c.seen.cooldown

EditOK(c) ==
    /\ c.op \in Edits /\ c.row # NoRow
    /\ c.seen.exists /\ c.edited.exists /\ c.edited.name # NoName
    /\ c.edited.user = c.seen.user
    /\ c.edited.kicked = c.seen.kicked /\ c.edited.banned = c.seen.banned
    /\ c.edited.left # c.seen.left => c.edited.left
    /\ c.edited.cooldown # c.seen.cooldown => c.op = "interact" /\ c.edited.cooldown = "none"

CallOK(p) ==
    /\ call[p].row # NoRow => row[call[p].row].exists
    /\ call[p].pc \in {"claimed", "joining"} => JoinOK(call[p], p)
    /\ call[p].pc = "saving" => EditOK(call[p])

RowsOK ==
    /\ row \in [Rows -> RowRecords]
    /\ \A r \in Rows : row[r].exists => row[r].name # NoName /\ row[r].user \in users
    /\ \A r, q \in Rows : row[r].exists /\ row[q].exists /\ row[r].name = row[q].name => r = q
    /\ \A r \in Rows : ~row[r].exists => row[r] = Blank

TypeInv ==
    /\ transactions \in BOOLEAN
    /\ RowsOK
    /\ users \subseteq Users
    /\ token \in [People -> users \cup {NoUser}]
    /\ call \in [People -> Calls]
    /\ \A p \in People : CallOK(p)

LEMMA BlankType ==
    /\ Blank \in RowRecords
    /\ Idle \in Calls /\ Idle.pc = "idle" /\ Idle.row = NoRow /\ Idle.op = "none"
BY DEF Blank, Idle, RowRecords, Calls, AllNames

\* The numbers a mask may get.
LEMMA NumbersType ==
    ASSUME TypeInv
    PROVE  /\ NextNumber \in Numbers /\ 0 \notin Numbers
           /\ \A doc \in RowRecords : NumberFor(doc) \in Numbers /\ NumberFor(doc) # NoName
<1>1. {r \in Rows : Active(r)} \in SUBSET Rows
    OBVIOUS
<1>2. /\ Cardinality({r \in Rows : Active(r)}) \in Nat
      /\ Cardinality({r \in Rows : Active(r)}) <= Cardinality(Rows)
      /\ Cardinality(Rows) \in Nat
    BY <1>1, AudienceAssumption, FS_Subset, FS_CardinalityType
<1>3. NextNumber \in Numbers /\ 0 \notin Numbers
    BY <1>2 DEF NextNumber, Numbers
<1>4. NoName \notin Numbers
    BY AudienceAssumption
<1> QED BY <1>3, <1>4 DEF NumberFor, RowRecords

LEMMA TypeInit == Init => TypeInv
<1> SUFFICES ASSUME Init PROVE TypeInv
    OBVIOUS
<1>1. RowsOK
    BY BlankType DEF Init, RowsOK, Blank
<1>2. transactions \in BOOLEAN
    BY AudienceAssumption DEF Init
<1>3. call \in [People -> Calls] /\ \A p \in People : CallOK(p)
    BY BlankType DEF Init, CallOK
<1> QED BY <1>1, <1>2, <1>3 DEF Init, TypeInv

-----------------------------------------------------------------------------
(* The documents that a request computes.                                  *)

\* document.save field by field.
LEMMA SavedFields ==
    ASSUME NEW cur \in RowRecords, NEW seen \in RowRecords, NEW edited \in RowRecords
    PROVE  /\ Saved(cur, seen, edited) \in RowRecords
           /\ \A f \in {"exists", "name", "user", "left", "kicked", "banned", "pw", "real",
                        "number", "shows", "cooldown"} :
                Saved(cur, seen, edited)[f] = IF edited[f] # seen[f] THEN edited[f] ELSE cur[f]
<1>1. DOMAIN cur = {"exists", "name", "user", "left", "kicked", "banned", "pw", "real",
                    "number", "shows", "cooldown"}
    BY DEF RowRecords
<1>2. \A f \in DOMAIN cur :
        Saved(cur, seen, edited)[f] = IF edited[f] # seen[f] THEN edited[f] ELSE cur[f]
    BY DEF Saved
<1>3. Saved(cur, seen, edited) \in RowRecords
    BY <1>1 DEF Saved, RowRecords
<1> QED BY <1>1, <1>2, <1>3

\* Masking touches the preference, the two names and the number.
LEMMA MaskedFields ==
    ASSUME NEW doc \in RowRecords, NEW prefs \in {"show", "hide"},
           NEW number \in Numbers \cup {0}, NEW name \in Names \cup {NoName},
           NEW m, m = Masked(doc, prefs, number, name)
    PROVE  /\ m \in RowRecords
           /\ m.exists = doc.exists /\ m.user = doc.user /\ m.left = doc.left
           /\ m.kicked = doc.kicked /\ m.banned = doc.banned /\ m.pw = doc.pw
           /\ m.cooldown = doc.cooldown
           /\ m.shows = (prefs = "show")
           /\ m.number = IF prefs = "hide" THEN number ELSE doc.number
           /\ prefs = "hide" => m.name = IF number # 0 THEN number ELSE doc.name
           /\ doc.name # NoName => m.name # NoName
<1> DEFINE real == IF name = NoName THEN doc.real ELSE name
           new == IF prefs = "show" THEN (IF real # NoName THEN real ELSE doc.name)
                  ELSE (IF number # 0 THEN number ELSE doc.name)
           kept == IF prefs = "hide" THEN number ELSE doc.number
           shown == prefs = "show"
<1>1. m = [doc EXCEPT !.shows = shown, !.real = real, !.number = kept, !.name = new]
    BY DEF Masked
<1>2. /\ real \in Names \cup {NoName} /\ kept \in Numbers \cup {0} /\ shown \in BOOLEAN
      /\ new \in AllNames \cup {NoName} /\ (doc.name # NoName => new # NoName)
      /\ prefs = "hide" => new = IF number # 0 THEN number ELSE doc.name
    BY AudienceAssumption DEF RowRecords, AllNames
<1>3. /\ m \in RowRecords
      /\ m.exists = doc.exists /\ m.user = doc.user /\ m.left = doc.left
      /\ m.kicked = doc.kicked /\ m.banned = doc.banned /\ m.pw = doc.pw
      /\ m.cooldown = doc.cooldown /\ m.name = new
      /\ m.shows = shown /\ m.number = kept
    <2> HIDE DEF real, new, kept, shown
    <2>1. /\ DOMAIN m = DOMAIN doc /\ m.name = new /\ m.real = real
          /\ m.shows = shown /\ m.number = kept
          /\ m.exists = doc.exists /\ m.user = doc.user /\ m.left = doc.left
          /\ m.kicked = doc.kicked /\ m.banned = doc.banned /\ m.pw = doc.pw
          /\ m.cooldown = doc.cooldown
        BY <1>1 DEF RowRecords
    <2>2. m \in RowRecords
        BY <1>1, <1>2 DEF RowRecords
    <2> QED BY <2>1, <2>2
<1> HIDE DEF real, new
<1> QED BY <1>2, <1>3

-----------------------------------------------------------------------------
(* Every step keeps the types.                                             *)

LEMMA CallStep ==
    ASSUME TypeInv, NEW p \in People, NEW n \in Calls,
           call' = [call EXCEPT ![p] = n], UNCHANGED <<transactions, row, token>>,
           users \subseteq users', users' \subseteq Users,
           n.row # NoRow => row[n.row].exists,
           n.pc \in {"claimed", "joining"} => JoinOK(n, p),
           n.pc = "saving" => EditOK(n)
    PROVE  TypeInv'
<1>1. call' \in [People -> Calls] /\ call'[p] = n /\ \A q \in People : q # p => call'[q] = call[q]
    BY DEF TypeInv
<1>2. \A q \in People : CallOK(q)'
    BY <1>1 DEF TypeInv, CallOK
<1>3. token' \in [People -> users' \cup {NoUser}]
    BY DEF TypeInv
<1>4. RowsOK'
    BY DEF TypeInv, RowsOK
<1> QED BY <1>1, <1>2, <1>3, <1>4 DEF TypeInv

\* A request that ends without a write.
LEMMA AnswerStep ==
    ASSUME TypeInv, NEW p \in People, Answer(p), UNCHANGED <<transactions, row, users, token>>
    PROVE  TypeInv'
BY BlankType, CallStep DEF Answer, TypeInv

LEMMA RowStep ==
    ASSUME TypeInv, NEW r \in Rows, NEW new \in RowRecords, row' = [row EXCEPT ![r] = new],
           new.exists, new.name # NoName, new.user \in users',
           users \subseteq users', users' \subseteq Users,
           token' \in [People -> users' \cup {NoUser}], transactions' = transactions,
           \/ row[r].exists /\ new.name = row[r].name
           \/ \A q \in Rows : q # r /\ row[q].exists => row[q].name # new.name,
           DOMAIN call' = People,
           \A p \in People : call'[p] = call[p] \/ call'[p] = Idle,
           call' \in [People -> Calls]
    PROVE  TypeInv'
<1>1. /\ row' \in [Rows -> RowRecords] /\ row'[r] = new
      /\ \A q \in Rows : q # r => row'[q] = row[q]
    BY DEF TypeInv, RowsOK
<1>2. \A q \in Rows : row[q].exists => row'[q].exists
    BY <1>1
<1>3. \A p \in People : CallOK(p)'
    <2> SUFFICES ASSUME NEW p \in People PROVE CallOK(p)'
        OBVIOUS
    <2>1. CASE call'[p] = Idle
        BY <2>1, BlankType DEF CallOK
    <2>2. CASE call'[p] = call[p]
        <3>1. call[p].row \in Rows \cup {NoRow}
            BY DEF TypeInv, Calls
        <3> QED BY <1>2, <2>2, <3>1 DEF TypeInv, CallOK
    <2> QED BY <2>1, <2>2
<1>4. RowsOK'
    <2>1. \A q \in Rows : row'[q].exists => row'[q].name # NoName /\ row'[q].user \in users'
        BY <1>1 DEF TypeInv, RowsOK
    <2>2. \A q, s \in Rows :
            row'[q].exists /\ row'[s].exists /\ row'[q].name = row'[s].name => q = s
        BY <1>1 DEF TypeInv, RowsOK
    <2>3. \A q \in Rows : ~row'[q].exists => row'[q] = Blank
        BY <1>1 DEF TypeInv, RowsOK
    <2> QED BY <1>1, <2>1, <2>2, <2>3 DEF RowsOK
<1> QED BY <1>3, <1>4 DEF TypeInv

\* What a request has read when it claims a nickname.
Claimed(r, op, name, prefs, u) ==
    [Idle EXCEPT !.pc = "claimed", !.op = op, !.row = r,
                 !.seen = IF r = NoRow THEN Blank ELSE row[r],
                 !.name = name, !.prefs = prefs, !.user = u]

LEMMA ClaimReads ==
    ASSUME TypeInv, NEW p \in People, NEW name \in Names, NEW prefs \in JoinPrefs[p],
           Claim(p, name, prefs) \/ RestJoin(p, name, prefs)
    PROVE  \E r \in Rows \cup {NoRow}, u \in Users, op \in {"join", "restJoin"} :
             /\ r # NoRow => r \in Named(name)
             /\ call' = [call EXCEPT ![p] = Claimed(r, op, name, prefs, u)]
             /\ users \subseteq users' /\ users' \subseteq Users
             /\ op = "restJoin" => u \in users
             /\ UNCHANGED <<transactions, row, token>>
<1>1. CASE Claim(p, name, prefs)
    <2>1. SpareUsers \subseteq Users /\ \A r \in Rows : row[r].user \in Users \cup {NoUser}
        BY DEF SpareUsers, TypeInv, RowsOK, RowRecords
    <2>2. PICK r \in IF Named(name) = {} THEN {NoRow} ELSE Named(name) :
            LET seen == IF r = NoRow THEN Blank ELSE row[r]
                held == seen.pw # Nobody /\ seen.user # NoUser
            IN  \E u \in IF held THEN {seen.user} ELSE SpareUsers :
                  /\ call' = [call EXCEPT ![p] = Claimed(r, "join", name, prefs, u)]
                  /\ IF held THEN UNCHANGED users ELSE Registered(u)
        BY <1>1 DEF Claim, Claimed
    <2>3. r \in Rows \cup {NoRow} /\ (r # NoRow => r \in Named(name))
        BY <2>2 DEF Named
    <2>4. PICK u \in Users :
            /\ call' = [call EXCEPT ![p] = Claimed(r, "join", name, prefs, u)]
            /\ users' = users \/ Registered(u)
        BY <2>1, <2>2, <2>3 DEF Blank
    <2>5. users \subseteq users' /\ users' \subseteq Users
        BY <2>4 DEF Registered, TypeInv
    <2>6. UNCHANGED <<transactions, row, token>>
        BY <1>1 DEF Claim
    <2> QED BY <2>3, <2>4, <2>5, <2>6
<1>2. CASE RestJoin(p, name, prefs)
    <2>1. Named(name) \subseteq Rows
        BY DEF Named
    <2>2. token[p] \in Users
        BY <1>2 DEF RestJoin, TypeInv
    <2> QED BY <1>2, <2>1, <2>2 DEF RestJoin, TypeInv, Claimed
<1> QED BY <1>1, <1>2

LEMMA TypeClaim ==
    ASSUME TypeInv, NEW p \in People, NEW name \in Names, NEW prefs \in JoinPrefs[p],
           Claim(p, name, prefs) \/ RestJoin(p, name, prefs)
    PROVE  TypeInv'
<1>1. PICK r \in Rows \cup {NoRow}, u \in Users, op \in {"join", "restJoin"} :
        /\ r # NoRow => r \in Named(name)
        /\ call' = [call EXCEPT ![p] = Claimed(r, op, name, prefs, u)]
        /\ users \subseteq users' /\ users' \subseteq Users
        /\ UNCHANGED <<transactions, row, token>>
    BY ClaimReads
<1> DEFINE seen == IF r = NoRow THEN Blank ELSE row[r]
           n == Claimed(r, op, name, prefs, u)
<1>2. seen \in RowRecords /\ prefs \in {"none", "show", "hide"}
    BY BlankType, AudienceAssumption DEF TypeInv, RowsOK
<1>3. r # NoRow => row[r].exists /\ row[r].name # NoName
    BY <1>1 DEF Named, TypeInv, RowsOK
<1>4. /\ n \in Calls /\ n.pc = "claimed" /\ n.op = op /\ n.row = r /\ n.seen = seen
      /\ n.name = name /\ n.user = u
    <2>1. n = [Idle EXCEPT !.pc = "claimed", !.op = op, !.row = r,
                           !.seen = seen, !.name = name, !.prefs = prefs, !.user = u]
        BY DEF Claimed
    <2> HIDE DEF seen, n
    <2> QED BY <1>2, <2>1, BlankType DEF Calls, Idle, OpNames
<1>5. JoinOK(n, p)
    <2> HIDE DEF n
    <2> QED BY <1>3, <1>4 DEF JoinOK
<1>6. call' = [call EXCEPT ![p] = n]
    BY <1>1
<1> HIDE DEF n, seen
<1> QED BY <1>1, <1>3, <1>4, <1>5, <1>6, CallStep

\* What joinEvent makes of a row: it is open, nobody is thrown out of it, and
\* it belongs to the account of the request; bans, passwords and cooldowns stay.
Entered(c, doc) ==
    /\ doc \in RowRecords
    /\ doc.exists /\ doc.name # NoName /\ doc.user = c.user
    /\ ~doc.left /\ ~doc.kicked
    /\ doc.banned = c.seen.banned /\ doc.pw = c.seen.pw /\ doc.cooldown = c.seen.cooldown

LEMMA RejoinedEnters ==
    ASSUME NEW c \in Calls, NEW p \in People, JoinOK(c, p), c.row # NoRow
    PROVE  Entered(c, Rejoined(c.seen, c))
<1> DEFINE open == [c.seen EXCEPT !.left = FALSE, !.kicked = FALSE, !.user = c.user]
<1>1. c.seen \in RowRecords /\ c.user \in Users /\ c.name \in Names \cup {NoName}
      /\ c.prefs \in {"none", "show", "hide"} /\ c.seen.exists /\ c.seen.name # NoName
    BY DEF Calls, JoinOK
<1>2. Entered(c, open)
    BY <1>1 DEF Entered, RowRecords
<1>3. c.seen.number \in Numbers \cup {0}
    BY <1>1 DEF RowRecords
<1>4. Rejoined(c.seen, c) = IF c.prefs = "none" THEN open
                            ELSE Masked(open, c.prefs, c.seen.number, c.name)
    BY DEF Rejoined
<1> HIDE DEF open
<1>5. CASE c.prefs = "none"
    BY <1>2, <1>4, <1>5
<1>6. CASE c.prefs # "none"
    <2> DEFINE m == Masked(open, c.prefs, c.seen.number, c.name)
    <2>1. c.prefs \in {"show", "hide"} /\ open \in RowRecords
        BY <1>1, <1>2, <1>6 DEF Entered
    <2>a. m = Masked(open, c.prefs, c.seen.number, c.name)
        OBVIOUS
    <2> HIDE DEF m
    <2>2. /\ m \in RowRecords
          /\ m.exists = open.exists /\ m.user = open.user /\ m.left = open.left
          /\ m.kicked = open.kicked /\ m.banned = open.banned /\ m.pw = open.pw
          /\ m.cooldown = open.cooldown
          /\ open.name # NoName => m.name # NoName
        BY <1>1, <1>3, <2>1, <2>a, MaskedFields
    <2>3. Entered(c, m)
        BY <1>2, <2>2 DEF Entered
    <2> QED BY <1>4, <1>6, <2>3 DEF m
<1> QED BY <1>5, <1>6

LEMMA JoinedEnters ==
    ASSUME TypeInv, NEW c \in Calls, NEW p \in People, JoinOK(c, p), c.row = NoRow
    PROVE  Entered(c, Joined(c))
<1> DEFINE new == [Blank EXCEPT !.exists = TRUE, !.name = c.name, !.user = c.user]
<1>1. c.seen = Blank /\ c.user \in Users /\ c.name \in Names
      /\ c.prefs \in {"none", "show", "hide"}
    BY DEF Calls, JoinOK
<1>2. Entered(c, new)
    BY <1>1, BlankType, AudienceAssumption DEF Entered, RowRecords, Blank, AllNames
<1>3. Joined(c) = IF c.prefs = "none" THEN new
                  ELSE Masked(new, c.prefs, NumberFor(new), c.name)
    BY DEF Joined
<1> HIDE DEF new
<1>4. NumberFor(new) \in Numbers \cup {0}
    BY <1>2, NumbersType DEF Entered
<1>5. CASE c.prefs = "none"
    BY <1>2, <1>3, <1>5
<1>6. CASE c.prefs # "none"
    <2> DEFINE m == Masked(new, c.prefs, NumberFor(new), c.name)
    <2>1. c.prefs \in {"show", "hide"} /\ new \in RowRecords
        BY <1>1, <1>2, <1>6 DEF Entered
    <2>a. m = Masked(new, c.prefs, NumberFor(new), c.name)
        OBVIOUS
    <2> HIDE DEF m
    <2>2. /\ m \in RowRecords
          /\ m.exists = new.exists /\ m.user = new.user /\ m.left = new.left
          /\ m.kicked = new.kicked /\ m.banned = new.banned /\ m.pw = new.pw
          /\ m.cooldown = new.cooldown
          /\ new.name # NoName => m.name # NoName
        BY <1>1, <1>4, <2>1, <2>a, MaskedFields
    <2>3. Entered(c, m)
        BY <1>2, <2>2 DEF Entered
    <2> QED BY <1>3, <1>6, <2>3 DEF m
<1> QED BY <1>5, <1>6

\* What entering makes of the request.
LEMMA EnterMoves ==
    ASSUME TypeInv, NEW p \in People, Enter(p), ~Answer(p)
    PROVE  \E doc : /\ Entered(call[p], doc)
                    /\ call' = [call EXCEPT ![p] = [call[p] EXCEPT !.pc = "joining", !.edited = doc]]
                    /\ call[p].row # NoRow =>
                          ~Refused(call[p].seen, p) /\ doc = Rejoined(call[p].seen, call[p])
                    /\ call[p].row = NoRow => doc = Joined(call[p])
<1> DEFINE c == call[p]
<1>1. c \in Calls /\ JoinOK(c, p) /\ c.pc = "claimed"
    BY DEF Enter, TypeInv, CallOK
<1>2. CASE c.row # NoRow
    <2> DEFINE doc == Rejoined(c.seen, c)
    <2>1. Entered(c, doc)
        BY <1>1, <1>2, RejoinedEnters
    <2>2. call' = [call EXCEPT ![p].pc = "joining", ![p].edited = doc] /\ ~Refused(c.seen, p)
        BY <1>2 DEF Enter
    <2> HIDE DEF doc
    <2>3. call' = [call EXCEPT ![p] = [c EXCEPT !.pc = "joining", !.edited = doc]]
        BY <1>1, <2>2 DEF TypeInv, Calls
    <2> QED BY <1>2, <2>1, <2>2, <2>3 DEF doc
<1>3. CASE c.row = NoRow
    <2> DEFINE doc == Joined(c)
    <2>1. Entered(c, doc)
        BY <1>1, <1>3, JoinedEnters
    <2>2. call' = [call EXCEPT ![p].pc = "joining", ![p].edited = doc]
        BY <1>3 DEF Enter
    <2> HIDE DEF doc
    <2>3. call' = [call EXCEPT ![p] = [c EXCEPT !.pc = "joining", !.edited = doc]]
        BY <1>1, <2>2 DEF TypeInv, Calls
    <2> QED BY <1>3, <2>1, <2>3 DEF doc
<1> QED BY <1>2, <1>3

LEMMA TypeEnter ==
    ASSUME TypeInv, NEW p \in People, Enter(p)
    PROVE  TypeInv'
<1>0. UNCHANGED <<transactions, row, users, token>>
    BY DEF Enter
<1>1. CASE Answer(p)
    BY <1>0, <1>1, AnswerStep
<1>2. CASE ~Answer(p)
    <2>1. PICK doc : /\ Entered(call[p], doc)
                     /\ call' = [call EXCEPT ![p] = [call[p] EXCEPT !.pc = "joining", !.edited = doc]]
                     /\ call[p].row # NoRow => ~Refused(call[p].seen, p)
        BY <1>2, EnterMoves
    <2> DEFINE n == [call[p] EXCEPT !.pc = "joining", !.edited = doc]
    <2>2. call[p] \in Calls /\ CallOK(p) /\ call[p].pc = "claimed"
        BY DEF Enter, TypeInv
    <2>3. /\ n \in Calls /\ n.pc = "joining" /\ n.edited = doc /\ n.op = call[p].op
          /\ n.row = call[p].row /\ n.seen = call[p].seen /\ n.name = call[p].name
          /\ n.user = call[p].user
        BY <2>1, <2>2 DEF Calls, Entered
    <2>4. call' = [call EXCEPT ![p] = n]
        BY <2>1
    <2> HIDE DEF n
    <2>5. JoinOK(n, p)
        BY <2>1, <2>2, <2>3 DEF JoinOK, CallOK, Entered
    <2> QED BY <1>0, <2>2, <2>3, <2>4, <2>5, CallStep DEF CallOK, TypeInv
<1> QED BY <1>1, <1>2

\* What the edits of a row that its attendee holds keep.
Edited(op, seen, doc) ==
    /\ doc \in RowRecords /\ doc.exists = seen.exists /\ doc.user = seen.user
    /\ seen.name # NoName => doc.name # NoName
    /\ doc.kicked = seen.kicked /\ doc.banned = seen.banned
    /\ doc.left # seen.left => doc.left
    /\ doc.cooldown # seen.cooldown => op = "interact" /\ doc.cooldown = "none"

\* The requests of an attendee who has joined, and the edits they make.
Editing(p, op, r, doc) ==
    \/ op = "leave" /\ doc = [row[r] EXCEPT !.left = TRUE]
    \/ op = "password" /\ doc = [row[r] EXCEPT !.pw = p]
    \/ op = "rename" /\ \E name \in Names : doc = Renamed(row[r], name)
    \/ op = "mask" /\ \E prefs \in {"show", "hide"} :
         doc = Masked(row[r], prefs, NumberFor(row[r]), row[r].real)
    \/ op = "interact" /\ row[r].cooldown = "expired" /\ doc = [row[r] EXCEPT !.cooldown = "none"]

LEMMA EditingEdits ==
    ASSUME TypeInv, NEW p \in People, NEW r \in Rows, NEW op, NEW doc, Editing(p, op, r, doc)
    PROVE  Edited(op, row[r], doc)
<1>0. row[r] \in RowRecords
    BY DEF TypeInv, RowsOK
<1>1. CASE op = "leave" /\ doc = [row[r] EXCEPT !.left = TRUE]
    BY <1>0, <1>1 DEF Edited, RowRecords
<1>2. CASE op = "password" /\ doc = [row[r] EXCEPT !.pw = p]
    BY <1>0, <1>2 DEF Edited, RowRecords
<1>3. CASE op = "rename" /\ \E name \in Names : doc = Renamed(row[r], name)
    <2>1. PICK name \in Names : doc = Renamed(row[r], name)
        BY <1>3
    <2> DEFINE new == IF ~row[r].shows /\ row[r].number # 0 THEN row[r].number ELSE name
    <2>2. new \in AllNames /\ new # NoName
        BY <1>0, AudienceAssumption DEF RowRecords, AllNames
    <2>3. doc = [row[r] EXCEPT !.real = name, !.name = new]
        BY <2>1 DEF Renamed
    <2> HIDE DEF new
    <2> QED BY <1>0, <1>3, <2>2, <2>3 DEF Edited, RowRecords
<1>4. CASE op = "mask" /\ \E prefs \in {"show", "hide"} :
                doc = Masked(row[r], prefs, NumberFor(row[r]), row[r].real)
    <2>1. PICK prefs \in {"show", "hide"} :
                doc = Masked(row[r], prefs, NumberFor(row[r]), row[r].real)
        BY <1>4
    <2>2. NumberFor(row[r]) \in Numbers \cup {0} /\ row[r].real \in Names \cup {NoName}
        BY <1>0, NumbersType DEF RowRecords
    <2>3. /\ doc \in RowRecords
          /\ doc.exists = row[r].exists /\ doc.user = row[r].user /\ doc.left = row[r].left
          /\ doc.kicked = row[r].kicked /\ doc.banned = row[r].banned
          /\ doc.cooldown = row[r].cooldown
          /\ row[r].name # NoName => doc.name # NoName
        BY <1>0, <2>1, <2>2, MaskedFields
    <2> QED BY <2>3 DEF Edited
<1>5. CASE op = "interact" /\ row[r].cooldown = "expired" /\ doc = [row[r] EXCEPT !.cooldown = "none"]
    BY <1>0, <1>5 DEF Edited, RowRecords
<1> QED BY <1>1, <1>2, <1>3, <1>4, <1>5 DEF Editing

\* An attendee who has joined begins a request.
Begins(p, r) ==
    \/ Leave(p, r) \/ SetPassword(p, r) \/ Interact(p, r)
    \/ \E name \in Names : Rename(p, r, name)
    \/ \E prefs \in {"show", "hide"} : SwitchMask(p, r, prefs)

LEMMA BeginsLoads ==
    ASSUME NEW p \in People, NEW r \in Rows, Begins(p, r)
    PROVE  \E op \in Edits : \E doc : Load(p, op, r, doc) /\ Editing(p, op, r, doc)
<1>1. CASE Leave(p, r)
    BY <1>1 DEF Leave, Editing, Edits
<1>2. CASE SetPassword(p, r)
    BY <1>2 DEF SetPassword, Editing, Edits
<1>3. CASE Interact(p, r)
    BY <1>3 DEF Interact, Lapsed, Editing, Edits
<1>4. ASSUME NEW name \in Names, Rename(p, r, name)
      PROVE  \E op \in Edits : \E doc : Load(p, op, r, doc) /\ Editing(p, op, r, doc)
    BY <1>4 DEF Rename, Editing, Edits
<1>5. ASSUME NEW prefs \in {"show", "hide"}, SwitchMask(p, r, prefs)
      PROVE  \E op \in Edits : \E doc : Load(p, op, r, doc) /\ Editing(p, op, r, doc)
    BY <1>5 DEF SwitchMask, Editing, Edits
<1> QED BY <1>1, <1>2, <1>3, <1>4, <1>5 DEF Begins

\* The call of a request that has loaded its row.
Loaded(op, r, doc) ==
    [Idle EXCEPT !.pc = "saving", !.op = op, !.row = r, !.seen = row[r], !.edited = doc]

LEMMA LoadedCall ==
    ASSUME TypeInv, NEW r \in Rows, NEW op \in Edits, NEW doc, Edited(op, row[r], doc),
           row[r].exists
    PROVE  /\ Loaded(op, r, doc) \in Calls /\ Loaded(op, r, doc).pc = "saving"
           /\ Loaded(op, r, doc).op = op /\ Loaded(op, r, doc).row = r
           /\ Loaded(op, r, doc).seen = row[r] /\ Loaded(op, r, doc).edited = doc
           /\ EditOK(Loaded(op, r, doc))
<1> DEFINE n == Loaded(op, r, doc)
<1>1. /\ n \in Calls /\ n.pc = "saving" /\ n.op = op /\ n.row = r
      /\ n.seen = row[r] /\ n.edited = doc
    <2>1. op \in OpNames /\ row[r] \in RowRecords /\ doc \in RowRecords
        BY DEF Edits, OpNames, TypeInv, RowsOK, Edited
    <2> QED BY <2>1, BlankType DEF Loaded, Idle, Calls
<1>2. r # NoRow /\ row[r].name # NoName
    BY AudienceAssumption DEF TypeInv, RowsOK
<1> HIDE DEF n
<1>3. EditOK(n)
    BY <1>1, <1>2 DEF EditOK, Edited
<1> QED BY <1>1, <1>3 DEF n

LEMMA TypeLoad ==
    ASSUME TypeInv, NEW p \in People, NEW r \in Rows, Begins(p, r)
    PROVE  TypeInv'
<1>1. PICK op \in Edits : \E doc : Load(p, op, r, doc) /\ Editing(p, op, r, doc)
    BY BeginsLoads
<1>2. PICK doc : Load(p, op, r, doc) /\ Editing(p, op, r, doc)
    BY <1>1
<1>3. Edited(op, row[r], doc) /\ row[r].exists
    BY <1>2, EditingEdits DEF Load, Holds, Active
<1>4. /\ call' = [call EXCEPT ![p] = Loaded(op, r, doc)]
      /\ UNCHANGED <<transactions, row, users, token>>
    BY <1>2 DEF Load, Loaded
<1> DEFINE n == Loaded(op, r, doc)
<1>5. n \in Calls /\ n.pc = "saving" /\ n.row = r /\ EditOK(n)
    BY <1>3, LoadedCall
<1> HIDE DEF n
<1>6. call' = [call EXCEPT ![p] = n]
    BY <1>4 DEF n
<1> QED BY <1>3, <1>4, <1>5, <1>6, CallStep DEF TypeInv

\* The row that a save writes, for a row that is there or a place that is free.
LEMMA SavedRow ==
    ASSUME TypeInv, NEW c \in Calls, NEW r \in Rows,
           c.row = r \/ (c.row = NoRow /\ ~row[r].exists /\ c.seen = Blank),
           c.edited.exists, c.edited.name # NoName,
           (c.edited.name = c.seen.name /\ row[r].exists) \/ ~Taken(c.edited.name, c.row),
           c.row = r => row[r].exists
    PROVE  LET new == Saved(row[r], c.seen, c.edited)
           IN  /\ new \in RowRecords /\ new.exists /\ new.name # NoName
               /\ new.user \in {c.edited.user, row[r].user}
               /\ c.row # r => new.user = c.edited.user
               /\ \/ row[r].exists /\ new.name = row[r].name
                  \/ \A q \in Rows : q # r /\ row[q].exists => row[q].name # new.name
<1> DEFINE new == Saved(row[r], c.seen, c.edited)
<1>1. row[r] \in RowRecords /\ c.seen \in RowRecords /\ c.edited \in RowRecords
    BY DEF TypeInv, RowsOK, Calls
<1>2. /\ new \in RowRecords
      /\ new.exists = IF c.edited.exists # c.seen.exists THEN c.edited.exists ELSE row[r].exists
      /\ new.name = IF c.edited.name # c.seen.name THEN c.edited.name ELSE row[r].name
      /\ new.user = IF c.edited.user # c.seen.user THEN c.edited.user ELSE row[r].user
    BY <1>1, SavedFields
<1> HIDE DEF new
<1>3. ~row[r].exists => row[r] = Blank /\ row[r].name = NoName
    BY DEF TypeInv, RowsOK, Blank
<1>4. row[r].exists => row[r].name # NoName
    BY DEF TypeInv, RowsOK
<1>5. new.exists /\ new.name # NoName
    BY <1>2, <1>3, <1>4
<1>6. CASE new.name = c.edited.name /\ ~Taken(c.edited.name, c.row)
    <2>1. \A q \in Rows : q # r /\ row[q].exists => row[q].name # new.name
        BY <1>3, <1>6, AudienceAssumption DEF Taken, Named
    <2> QED BY <1>2, <1>3, <1>5, <2>1 DEF new
<1>7. CASE ~(new.name = c.edited.name /\ ~Taken(c.edited.name, c.row))
    BY <1>2, <1>3, <1>5, <1>7 DEF new
<1> QED BY <1>6, <1>7

LEMMA TypeSaveJoin ==
    ASSUME TypeInv, NEW p \in People, SaveJoin(p)
    PROVE  TypeInv'
<1> DEFINE c == call[p]
<1>1. c \in Calls /\ JoinOK(c, p) /\ c.pc = "joining" /\ (c.row # NoRow => row[c.row].exists)
    BY DEF SaveJoin, TypeInv, CallOK
<1>2. PICK r \in IF c.row # NoRow THEN {c.row} ELSE {q \in Rows : ~row[q].exists} :
            row' = [row EXCEPT ![r] = Saved(row[r], c.seen, c.edited)]
    BY DEF SaveJoin
<1>3. /\ ~Taken(c.edited.name, c.row) /\ users' = users \cup {c.user}
      /\ token' = [token EXCEPT ![p] = c.user] /\ transactions' = transactions
      /\ call' = [call EXCEPT ![p] = Idle]
    BY DEF SaveJoin, Answer
<1>4. /\ r \in Rows /\ (c.row = r \/ (c.row = NoRow /\ ~row[r].exists /\ c.seen = Blank))
      /\ (c.row = r => row[r].exists)
    <2>1. NoRow \notin Rows
        BY AudienceAssumption
    <2>2. CASE c.row # NoRow
        BY <1>1, <1>2, <2>2 DEF Calls
    <2>3. CASE c.row = NoRow
        BY <1>1, <1>2, <2>1, <2>3 DEF JoinOK
    <2> QED BY <2>2, <2>3
<1>5. c.edited.exists /\ c.edited.name # NoName /\ c.edited.user = c.user /\ c.user \in Users
    BY <1>1 DEF JoinOK
<1> DEFINE new == Saved(row[r], c.seen, c.edited)
<1>6. /\ new \in RowRecords /\ new.exists /\ new.name # NoName
      /\ new.user \in {c.edited.user, row[r].user}
      /\ c.row # r => new.user = c.edited.user
      /\ \/ row[r].exists /\ new.name = row[r].name
         \/ \A q \in Rows : q # r /\ row[q].exists => row[q].name # new.name
    <2> HIDE DEF c
    <2> QED BY <1>1, <1>3, <1>4, <1>5, SavedRow
<1> HIDE DEF new
<1>7. new.user \in users'
    BY <1>3, <1>4, <1>5, <1>6 DEF TypeInv, RowsOK
<1>8. token' \in [People -> users' \cup {NoUser}] /\ users' \subseteq Users /\ users \subseteq users'
    BY <1>3, <1>5 DEF TypeInv
<1>9. /\ call' \in [People -> Calls] /\ DOMAIN call' = People
      /\ \A q \in People : call'[q] = call[q] \/ call'[q] = Idle
    BY <1>3, BlankType DEF TypeInv
<1>10. row' = [row EXCEPT ![r] = new]
    BY <1>2 DEF new
<1> QED BY <1>3, <1>4, <1>6, <1>7, <1>8, <1>9, <1>10, RowStep

LEMMA TypeSave ==
    ASSUME TypeInv, NEW p \in People, Save(p)
    PROVE  TypeInv'
<1> DEFINE c == call[p]
           r == c.row
           new == Saved(row[r], c.seen, c.edited)
<1>1. c \in Calls /\ EditOK(c) /\ c.pc = "saving" /\ r \in Rows /\ row[r].exists
    BY DEF Save, TypeInv, CallOK, EditOK, Calls
<1>2. /\ c.edited.name = c.seen.name \/ ~Taken(c.edited.name, c.row)
      /\ row' = [row EXCEPT ![r] = new] /\ call' = [call EXCEPT ![p] = Idle]
      /\ UNCHANGED <<transactions, users, token>>
    BY DEF Save, Answer
<1>3. c.edited.exists /\ c.edited.name # NoName /\ c.edited.user = c.seen.user
    BY <1>1 DEF EditOK
<1>4. /\ new \in RowRecords /\ new.exists /\ new.name # NoName
      /\ \/ row[r].exists /\ new.name = row[r].name
         \/ \A q \in Rows : q # r /\ row[q].exists => row[q].name # new.name
    BY <1>1, <1>2, <1>3, SavedRow
<1>5. new.user = row[r].user
    <2>1. row[r] \in RowRecords /\ c.seen \in RowRecords /\ c.edited \in RowRecords
        BY <1>1 DEF TypeInv, RowsOK, Calls
    <2>2. new.user = IF c.edited.user # c.seen.user THEN c.edited.user ELSE row[r].user
        BY <2>1, SavedFields
    <2> QED BY <1>3, <2>2
<1> HIDE DEF new
<1>6. /\ call' \in [People -> Calls] /\ DOMAIN call' = People
      /\ \A q \in People : call'[q] = call[q] \/ call'[q] = Idle
    BY <1>2, BlankType DEF TypeInv
<1>7. /\ new.user \in users' /\ token' \in [People -> users' \cup {NoUser}]
      /\ users' \subseteq Users /\ users \subseteq users'
    BY <1>1, <1>2, <1>5 DEF TypeInv, RowsOK
<1> QED BY <1>1, <1>2, <1>4, <1>6, <1>7, RowStep

\* The DJ and time change a row that is there, and neither its name nor its user.
Moderated(r, new) ==
    /\ row' = [row EXCEPT ![r] = new] /\ row[r].exists
    /\ UNCHANGED <<transactions, users, token, call>>
    /\ \/ new = Kicked(row[r]) /\ DjMayAct
       \/ new = Banned(row[r]) /\ DjMayAct
       \/ new = CooledDown(row[r]) /\ DjMayAct
       \/ new = Pardoned(row[r]) /\ ClearCooldown(r)
       \/ new = [row[r] EXCEPT !.cooldown = "expired"] /\ row[r].cooldown = "active"

DjActs(r) == Kick(r) \/ Ban(r) \/ SetCooldown(r) \/ ClearCooldown(r) \/ CooldownRunsOut(r)

LEMMA DjModerates ==
    ASSUME TypeInv, NEW r \in Rows, DjActs(r)
    PROVE  \E new : Moderated(r, new)
<1>1. CASE Kick(r)
    BY <1>1 DEF Kick, Moderate, Moderated
<1>2. CASE Ban(r)
    BY <1>2 DEF Ban, Moderate, Moderated
<1>3. CASE SetCooldown(r)
    BY <1>3 DEF SetCooldown, Moderate, Moderated
<1>4. CASE ClearCooldown(r)
    BY <1>4 DEF ClearCooldown, Moderate, Moderated
<1>5. CASE CooldownRunsOut(r)
    <2>1. row[r].exists
        BY <1>5 DEF CooldownRunsOut, TypeInv, RowsOK, Blank
    <2> QED BY <1>5, <2>1 DEF CooldownRunsOut, Moderated
<1> QED BY <1>1, <1>2, <1>3, <1>4, <1>5 DEF DjActs

LEMMA ModeratedFields ==
    ASSUME TypeInv, NEW r \in Rows, NEW new, Moderated(r, new)
    PROVE  /\ new \in RowRecords /\ new.exists = row[r].exists
           /\ new.name = row[r].name /\ new.user = row[r].user /\ new.pw = row[r].pw
           /\ new.real = row[r].real /\ new.number = row[r].number /\ new.shows = row[r].shows
           /\ \/ new.left
              \/ new.left = row[r].left /\ new.kicked = row[r].kicked /\ new.banned = row[r].banned
           /\ \/ DjMayAct
              \/ new = [row[r] EXCEPT !.cooldown = "expired"] /\ row[r].cooldown = "active"
           /\ row[r].cooldown = "active" /\ new.cooldown = "none" => ClearCooldown(r)
<1>1. row[r] \in RowRecords
    BY DEF TypeInv, RowsOK
<1>2. CASE new = Kicked(row[r]) /\ DjMayAct
    BY <1>1, <1>2 DEF Kicked, RowRecords
<1>3. CASE new = Banned(row[r]) /\ DjMayAct
    BY <1>1, <1>3 DEF Banned, RowRecords
<1>4. CASE new = CooledDown(row[r]) /\ DjMayAct
    BY <1>1, <1>4 DEF CooledDown, RowRecords
<1>5. CASE new = Pardoned(row[r]) /\ ClearCooldown(r)
    <2>1. DjMayAct
        BY <1>5 DEF ClearCooldown, Moderate
    <2> QED BY <1>1, <1>5, <2>1 DEF Pardoned, RowRecords
<1>6. CASE new = [row[r] EXCEPT !.cooldown = "expired"] /\ row[r].cooldown = "active"
    BY <1>1, <1>6 DEF RowRecords
<1> QED BY <1>2, <1>3, <1>4, <1>5, <1>6 DEF Moderated

LEMMA TypeModerate ==
    ASSUME TypeInv, NEW r \in Rows, DjActs(r)
    PROVE  TypeInv'
<1>1. PICK new : Moderated(r, new)
    BY DjModerates
<1>2. new \in RowRecords /\ new.exists = row[r].exists /\ new.name = row[r].name
      /\ new.user = row[r].user
    BY <1>1, ModeratedFields
<1>3. row' = [row EXCEPT ![r] = new] /\ row[r].exists /\ UNCHANGED <<transactions, users, token, call>>
    BY <1>1 DEF Moderated
<1>4. row[r].name # NoName /\ row[r].user \in users
    BY <1>3 DEF TypeInv, RowsOK
<1>5. DOMAIN call' = People /\ call' \in [People -> Calls] /\ users' \subseteq Users
      /\ users \subseteq users' /\ token' \in [People -> users' \cup {NoUser}]
      /\ \A p \in People : call'[p] = call[p]
    BY <1>3 DEF TypeInv
<1> QED BY <1>2, <1>3, <1>4, <1>5, RowStep

\* The steps of an attendee, those that begin a request together.
LEMMA AttendeeSteps ==
    ASSUME NEW p \in People, Attendee(p)
    PROVE  \/ \E name \in Names, prefs \in JoinPrefs[p] :
                Claim(p, name, prefs) \/ RestJoin(p, name, prefs)
           \/ Enter(p) \/ SaveJoin(p) \/ JoinFails(p) \/ Save(p) \/ SaveFails(p)
           \/ \E r \in Rows : Begins(p, r)
BY DEF Attendee, Begins

LEMMA TypeStep == TypeInv /\ [Next]_vars => TypeInv'
<1> SUFFICES ASSUME TypeInv, [Next]_vars PROVE TypeInv'
    OBVIOUS
<1>1. CASE UNCHANGED vars
    BY <1>1 DEF vars, TypeInv, RowsOK, CallOK
<1>2. ASSUME NEW p \in People, Attendee(p) PROVE TypeInv'
    <2>1. CASE \E name \in Names, prefs \in JoinPrefs[p] :
                Claim(p, name, prefs) \/ RestJoin(p, name, prefs)
        BY <2>1, TypeClaim
    <2>2. CASE JoinFails(p) \/ SaveFails(p)
        BY <2>2, AnswerStep DEF JoinFails, SaveFails
    <2>3. CASE \E r \in Rows : Begins(p, r)
        BY <2>3, TypeLoad
    <2> QED BY <1>2, <2>1, <2>2, <2>3, AttendeeSteps, TypeEnter, TypeSaveJoin, TypeSave
<1>3. ASSUME NEW r \in Rows, DjActs(r) PROVE TypeInv'
    BY <1>3, TypeModerate
<1> QED BY <1>1, <1>2, <1>3 DEF Next, DjActs

\* The type invariant, with what a request in flight knows for its next step: the
\* row it means exists, and the account it will sign in exists or is being made.
THEOREM AudienceInvariant == Spec => []TypeInv
<1> QED BY TypeInit, TypeStep, PTL DEF Spec

\* Whatever overlaps, a nickname is one row's, a row in use belongs to an account
\* that exists, and a client is signed in to none other (joinEvent, the unique
\* index on the event and the nickname).
THEOREM AudienceTypeCorrect == Spec => []TypeOK
<1>1. TypeInv => TypeOK
    BY DEF TypeInv, RowsOK, TypeOK
<1> QED BY <1>1, AudienceInvariant, PTL

-----------------------------------------------------------------------------
(* Requests that have the event for themselves.                            *)

\* A request of a kind that runs alone is alone.
AloneInv ==
    \A p \in People : Kinds(call[p]) \cap Alone # {} =>
        \A q \in Others(p) : call[q].pc = "idle"

\* An attendee's step changes that attendee's request only: it ends it, begins
\* one or takes it further.
LEMMA AttendeeMoves ==
    ASSUME TypeInv, NEW p \in People, Attendee(p)
    PROVE  /\ transactions' = transactions
           /\ \A q \in People : q # p => call'[q] = call[q]
           /\ \/ call'[p] = Idle /\ call[p].pc # "idle"
              \/ call'[p].op = call[p].op /\ call'[p].pc # "idle" /\ call[p].pc # "idle"
              \/ call'[p].pc # "idle" /\ MayStart(p, call'[p].op)
<1>0. DOMAIN call = People
    BY DEF TypeInv
<1>1. ASSUME NEW name \in Names, NEW prefs \in JoinPrefs[p], Claim(p, name, prefs)
      PROVE  /\ transactions' = transactions
             /\ \A q \in People : q # p => call'[q] = call[q]
             /\ call'[p].pc # "idle" /\ MayStart(p, call'[p].op)
    BY <1>0, <1>1 DEF Claim, Idle
<1>2. ASSUME NEW name \in Names, NEW prefs \in JoinPrefs[p], RestJoin(p, name, prefs)
      PROVE  /\ transactions' = transactions
             /\ \A q \in People : q # p => call'[q] = call[q]
             /\ call'[p].pc # "idle" /\ MayStart(p, call'[p].op)
    BY <1>0, <1>2 DEF RestJoin, Idle
<1>3. CASE Enter(p)
    <2>1. CASE Answer(p)
        BY <1>0, <1>3, <2>1 DEF Enter, Answer
    <2>2. CASE ~Answer(p)
        <3>1. PICK doc :
                call' = [call EXCEPT ![p] = [call[p] EXCEPT !.pc = "joining", !.edited = doc]]
            BY <1>3, <2>2, EnterMoves
        <3>2. call[p] \in Calls
            BY DEF TypeInv
        <3>3. call'[p].op = call[p].op /\ call'[p].pc = "joining"
            BY <1>0, <3>1, <3>2 DEF Calls
        <3> QED BY <1>0, <1>3, <3>1, <3>3 DEF Enter
    <2> QED BY <2>1, <2>2
<1>4. CASE SaveJoin(p) \/ JoinFails(p) \/ Save(p) \/ SaveFails(p)
    BY <1>0, <1>4 DEF SaveJoin, JoinFails, Save, SaveFails, Answer
<1>5. ASSUME NEW r \in Rows, Begins(p, r)
      PROVE  /\ transactions' = transactions
             /\ \A q \in People : q # p => call'[q] = call[q]
             /\ call'[p].pc # "idle" /\ MayStart(p, call'[p].op)
    <2>1. PICK op \in Edits : \E doc : Load(p, op, r, doc)
        BY <1>5, BeginsLoads
    <2>2. PICK doc : Load(p, op, r, doc)
        BY <2>1
    <2> QED BY <1>0, <2>2 DEF Load, Idle
<1> QED BY <1>1, <1>2, <1>3, <1>4, <1>5, AttendeeSteps

LEMMA AloneInit == Init => AloneInv
BY BlankType DEF Init, AloneInv, Others

LEMMA AloneStep == TypeInv /\ AloneInv /\ [Next]_vars => AloneInv'
<1> SUFFICES ASSUME TypeInv, AloneInv, [Next]_vars PROVE AloneInv'
    OBVIOUS
<1>1. CASE UNCHANGED <<transactions, call>>
    BY <1>1 DEF AloneInv, Kinds, Others
<1>2. ASSUME NEW p \in People, Attendee(p) PROVE AloneInv'
    <2>1. /\ transactions' = transactions
          /\ \A q \in People : q # p => call'[q] = call[q]
          /\ \/ call'[p] = Idle /\ call[p].pc # "idle"
             \/ call'[p].op = call[p].op /\ call'[p].pc # "idle" /\ call[p].pc # "idle"
             \/ call'[p].pc # "idle" /\ MayStart(p, call'[p].op)
        BY <1>2, AttendeeMoves
    <2> SUFFICES ASSUME NEW q \in People, Kinds(call[q])' \cap Alone # {}, NEW s \in Others(q)
                 PROVE  call'[s].pc = "idle"
        BY DEF AloneInv, Others
    <2>2. s \in People /\ s # q
        BY DEF Others
    <2>3. CASE q # p /\ s # p
        BY <2>1, <2>2, <2>3 DEF AloneInv, Kinds, Others
    <2>4. CASE s = p
        <3>1. call'[q] = call[q] /\ Kinds(call[q]) \cap Alone # {}
            BY <2>1, <2>2, <2>4 DEF Kinds
        <3>2. call[p].pc = "idle" /\ q \in Others(p)
            BY <2>2, <2>4, <3>1 DEF AloneInv, Others
        <3> QED BY <2>1, <2>4, <3>1, <3>2 DEF MayStart
    <2>5. CASE q = p
        <3>1. call'[p].pc # "idle"
            BY <2>5 DEF Kinds
        <3>2. CASE call'[p].op = call[p].op /\ call[p].pc # "idle"
            BY <2>1, <2>2, <2>5, <3>1, <3>2 DEF AloneInv, Kinds, Others
        <3>3. CASE MayStart(p, call'[p].op)
            BY <2>1, <2>2, <2>5, <3>1, <3>3 DEF MayStart, Kinds, Others
        <3> QED BY <2>1, <3>1, <3>2, <3>3, BlankType
    <2> QED BY <2>3, <2>4, <2>5
<1>3. ASSUME NEW r \in Rows, DjActs(r) PROVE AloneInv'
    BY <1>1, <1>3, DjModerates DEF Moderated
<1> QED BY <1>1, <1>2, <1>3 DEF Next, DjActs, vars

\* While a request that runs alone is under way, no other attendee does anything.
LEMMA AloneBlocks ==
    ASSUME TypeInv, AloneInv, NEW p \in People, NEW s \in People, s # p,
           Kinds(call[p]) \cap Alone # {}, Attendee(s)
    PROVE  FALSE
<1>1. call[s].pc = "idle"
    BY DEF AloneInv, Others
<1>2. MayStart(s, call'[s].op)
    BY <1>1, AttendeeMoves
<1> QED BY <1>2 DEF MayStart, Others

-----------------------------------------------------------------------------
(* Joining is atomic.                                                      *)

\* The bound under which a join without a transaction is as good as one with:
\* nobody else acts while it is under way.  Without it the properties of this
\* section are false of the code.
JoinsUndisturbed == "restJoin" \in Alone /\ "restJoin" \in Undisturbed

\* Two documents that differ in the cooldown at most.
SameRow(a, b) ==
    /\ a.exists = b.exists /\ a.name = b.name /\ a.user = b.user /\ a.left = b.left
    /\ a.kicked = b.kicked /\ a.banned = b.banned /\ a.pw = b.pw /\ a.real = b.real
    /\ a.number = b.number /\ a.shows = b.shows

\* A join without a transaction finds its row as it read it.
JoinInv ==
    \A p \in People :
        call[p].pc \in {"claimed", "joining"} /\ "restJoin" \in Kinds(call[p])
          /\ call[p].row # NoRow => SameRow(row[call[p].row], call[p].seen)

LEMMA JoinInit == Init => JoinInv
BY BlankType DEF Init, JoinInv

LEMMA JoinStep ==
    ASSUME JoinsUndisturbed, TypeInv, AloneInv, JoinInv, [Next]_vars
    PROVE  JoinInv'
<1>1. CASE UNCHANGED <<transactions, call, row>>
    BY <1>1 DEF JoinInv, Kinds
<1>2. ASSUME NEW s \in People, Attendee(s) PROVE JoinInv'
    <2> SUFFICES ASSUME NEW p \in People, call'[p].pc \in {"claimed", "joining"},
                        "restJoin" \in Kinds(call[p])', call'[p].row # NoRow
                 PROVE  SameRow(row'[call'[p].row], call'[p].seen)
        BY DEF JoinInv
    <2>1. CASE p # s
        <3>1. call'[p] = call[p] /\ transactions' = transactions
            BY <1>2, <2>1, AttendeeMoves
        <3>2. "restJoin" \in Kinds(call[p])
            BY <3>1 DEF Kinds
        <3> QED BY <1>2, <2>1, <3>2, AloneBlocks DEF JoinsUndisturbed
    <2>2. CASE p = s
        <3>0. DOMAIN call = People
            BY DEF TypeInv
        <3>1. ASSUME NEW name \in Names, NEW prefs \in JoinPrefs[p],
                     Claim(p, name, prefs) \/ RestJoin(p, name, prefs)
              PROVE  SameRow(row'[call'[p].row], call'[p].seen)
            <4>1. PICK r \in Rows \cup {NoRow}, u \in Users, op \in {"join", "restJoin"} :
                    call' = [call EXCEPT ![p] = Claimed(r, op, name, prefs, u)] /\ row' = row
                BY <3>1, ClaimReads
            <4>2. call'[p].row = r /\ (r # NoRow => call'[p].seen = row[r])
                BY <3>0, <4>1 DEF Claimed, Idle
            <4> QED BY <4>1, <4>2 DEF SameRow
        <3>2. CASE Enter(p) /\ ~Answer(p)
            <4>1. PICK doc :
                    call' = [call EXCEPT ![p] = [call[p] EXCEPT !.pc = "joining", !.edited = doc]]
                BY <3>2, EnterMoves
            <4>2. call[p] \in Calls /\ call[p].pc = "claimed"
                BY <3>2 DEF TypeInv, Enter
            <4>3. /\ call'[p].op = call[p].op /\ call'[p].seen = call[p].seen
                  /\ call'[p].row = call[p].row
                BY <3>0, <4>1, <4>2 DEF Calls
            <4>4. row' = row /\ transactions' = transactions
                BY <3>2 DEF Enter
            <4> QED BY <4>2, <4>3, <4>4 DEF JoinInv, Kinds
        <3>3. CASE Answer(p)
            BY <3>0, <3>3, BlankType DEF Answer
        <3>4. CASE SaveJoin(p) \/ JoinFails(p) \/ Save(p) \/ SaveFails(p)
            BY <3>3, <3>4 DEF SaveJoin, JoinFails, Save, SaveFails
        <3>5. ASSUME NEW r \in Rows, Begins(p, r)
              PROVE  SameRow(row'[call'[p].row], call'[p].seen)
            <4>1. PICK op \in Edits : \E doc : Load(p, op, r, doc)
                BY <3>5, BeginsLoads
            <4>2. call'[p].pc = "saving"
                BY <3>0, <4>1 DEF Load, Idle
            <4> QED BY <2>2, <4>2
        <3> QED BY <1>2, <2>2, <3>1, <3>2, <3>3, <3>4, <3>5, AttendeeSteps
    <2> QED BY <2>1, <2>2
<1>3. ASSUME NEW r \in Rows, DjActs(r) PROVE JoinInv'
    <2>1. PICK new : Moderated(r, new)
        BY <1>3, DjModerates
    <2>2. /\ row' = [row EXCEPT ![r] = new] /\ UNCHANGED <<transactions, call>>
          /\ DOMAIN row = Rows /\ row[r] \in RowRecords
        BY <2>1 DEF Moderated, TypeInv, RowsOK
    <2>3. \/ DjMayAct
          \/ new = [row[r] EXCEPT !.cooldown = "expired"]
        BY <2>1, ModeratedFields
    <2>4. CASE DjMayAct
        BY <2>2, <2>4 DEF DjMayAct, JoinsUndisturbed, JoinInv, Kinds
    <2>5. CASE new = [row[r] EXCEPT !.cooldown = "expired"]
        <3>1. SameRow(new, row[r])
            BY <2>2, <2>5 DEF SameRow, RowRecords
        <3> SUFFICES ASSUME NEW p \in People, call[p].pc \in {"claimed", "joining"},
                            "restJoin" \in Kinds(call[p]), call[p].row # NoRow
                     PROVE  SameRow(row'[call[p].row], call[p].seen)
            BY <2>2 DEF JoinInv, Kinds
        <3>2. call[p].row \in Rows /\ SameRow(row[call[p].row], call[p].seen)
            BY DEF JoinInv, TypeInv, Calls
        <3> QED BY <2>2, <3>1, <3>2 DEF SameRow
    <2> QED BY <2>3, <2>4, <2>5
<1> QED BY <1>1, <1>2, <1>3 DEF Next, DjActs, vars

\* What a join writes, with a transaction or without: the row it read, opened for
\* its account, and nothing of what somebody else wrote meanwhile.
LEMMA JoinIsAtomic ==
    ASSUME TypeInv, NEW p \in People, SaveJoin(p),
           JoinInv \/ (transactions /\ call[p].op = "join")
    PROVE  \E r \in Rows, new \in RowRecords :
             /\ row' = [row EXCEPT ![r] = new] /\ token' = [token EXCEPT ![p] = call[p].user]
             /\ users' = users \cup {call[p].user}
             /\ new.user = call[p].user /\ ~new.left /\ ~new.kicked /\ ~new.banned
             /\ new.pw = row[r].pw /\ new.cooldown = row[r].cooldown
             /\ new.name = call[p].edited.name /\ new.shows = call[p].edited.shows
             /\ new.number = call[p].edited.number
             /\ row[r].exists => ~Refused(row[r], p)
<1> DEFINE c == call[p]
<1>1. c \in Calls /\ JoinOK(c, p) /\ c.pc = "joining" /\ (c.row # NoRow => row[c.row].exists)
    BY DEF SaveJoin, TypeInv, CallOK
<1>2. PICK r \in IF c.row # NoRow THEN {c.row} ELSE {q \in Rows : ~row[q].exists} :
            row' = [row EXCEPT ![r] = Saved(row[r], c.seen, c.edited)]
    BY DEF SaveJoin
<1>3. users' = users \cup {c.user} /\ token' = [token EXCEPT ![p] = c.user] /\ ~Conflict(c)
    BY DEF SaveJoin
<1>4. /\ r \in Rows /\ row[r] \in RowRecords
      /\ SameRow(row[r], c.seen) /\ (row[r].exists => ~Refused(c.seen, p))
    <2>1. NoRow \notin Rows
        BY AudienceAssumption
    <2>2. CASE c.row # NoRow
        <3>1. r = c.row /\ r \in Rows /\ row[r].exists
            BY <1>1, <1>2, <2>2 DEF Calls
        <3>2. SameRow(row[r], c.seen)
            <4>1. CASE transactions /\ c.op = "join"
                BY <1>3, <2>2, <3>1, <4>1 DEF Conflict, SameRow
            <4>2. CASE JoinInv /\ ~(transactions /\ c.op = "join")
                <5>1. "restJoin" \in Kinds(c)
                    BY <1>1, <4>2 DEF Kinds, JoinOK
                <5> QED BY <1>1, <2>2, <3>1, <4>2, <5>1 DEF JoinInv
            <4> QED BY <4>1, <4>2
        <3> QED BY <1>1, <2>2, <3>1, <3>2 DEF TypeInv, RowsOK, JoinOK
    <2>3. CASE c.row = NoRow
        <3>1. r \in Rows /\ ~row[r].exists /\ c.seen = Blank
            BY <1>1, <1>2, <2>3 DEF JoinOK
        <3>2. row[r] = c.seen
            BY <3>1 DEF TypeInv, RowsOK
        <3> QED BY <3>1, <3>2 DEF TypeInv, RowsOK, SameRow
    <2> QED BY <2>2, <2>3
<1> DEFINE new == Saved(row[r], c.seen, c.edited)
<1>5. c.seen \in RowRecords /\ c.edited \in RowRecords
    BY <1>1 DEF Calls
<1>6. /\ new \in RowRecords
      /\ new.name = IF c.edited.name # c.seen.name THEN c.edited.name ELSE row[r].name
      /\ new.user = IF c.edited.user # c.seen.user THEN c.edited.user ELSE row[r].user
      /\ new.left = IF c.edited.left # c.seen.left THEN c.edited.left ELSE row[r].left
      /\ new.kicked = IF c.edited.kicked # c.seen.kicked THEN c.edited.kicked ELSE row[r].kicked
      /\ new.banned = IF c.edited.banned # c.seen.banned THEN c.edited.banned ELSE row[r].banned
      /\ new.pw = IF c.edited.pw # c.seen.pw THEN c.edited.pw ELSE row[r].pw
      /\ new.number = IF c.edited.number # c.seen.number THEN c.edited.number ELSE row[r].number
      /\ new.shows = IF c.edited.shows # c.seen.shows THEN c.edited.shows ELSE row[r].shows
      /\ new.cooldown = IF c.edited.cooldown # c.seen.cooldown
                         THEN c.edited.cooldown ELSE row[r].cooldown
    BY <1>4, <1>5, SavedFields
<1>7. row' = [row EXCEPT ![r] = new]
    BY <1>2
<1> HIDE DEF new
<1>8. /\ c.edited.user = c.user /\ ~c.edited.left /\ ~c.edited.kicked
      /\ c.edited.banned = c.seen.banned /\ c.edited.pw = c.seen.pw
      /\ c.edited.cooldown = c.seen.cooldown
    BY <1>1 DEF JoinOK
<1>9. /\ new.user = c.user /\ ~new.left /\ ~new.kicked /\ new.banned = row[r].banned
      /\ new.pw = row[r].pw /\ new.cooldown = row[r].cooldown
      /\ new.name = c.edited.name /\ new.shows = c.edited.shows /\ new.number = c.edited.number
    BY <1>4, <1>6, <1>8 DEF SameRow
<1>10. row[r].exists => ~Refused(row[r], p)
    BY <1>4 DEF Refused, SameRow
<1>11. ~row[r].banned
    <2>1. CASE row[r].exists
        BY <1>10, <2>1 DEF Refused
    <2>2. CASE ~row[r].exists
        BY <1>4, <2>2 DEF TypeInv, RowsOK, Blank
    <2> QED BY <2>1, <2>2
<1> QED BY <1>3, <1>4, <1>6, <1>7, <1>9, <1>10, <1>11

-----------------------------------------------------------------------------
(* Moderation, nicknames and passwords against joins.                      *)

\* The steps that write a row.
LEMMA RowMoves ==
    ASSUME TypeInv, [Next]_vars
    PROVE  \/ row' = row
           \/ \E p \in People : SaveJoin(p) \/ Save(p)
           \/ \E r \in Rows : \E new : Moderated(r, new)
<1>1. CASE UNCHANGED vars
    BY <1>1 DEF vars
<1>2. ASSUME NEW p \in People, Attendee(p)
      PROVE  row' = row \/ SaveJoin(p) \/ Save(p)
    <2>1. CASE \E name \in Names, prefs \in JoinPrefs[p] :
                Claim(p, name, prefs) \/ RestJoin(p, name, prefs)
        BY <2>1 DEF Claim, RestJoin
    <2>2. CASE Enter(p) \/ JoinFails(p) \/ SaveFails(p)
        BY <2>2 DEF Enter, JoinFails, SaveFails
    <2>3. CASE \E r \in Rows : Begins(p, r)
        <3>1. PICK r \in Rows, op \in Edits : \E doc : Load(p, op, r, doc)
            BY <2>3, BeginsLoads
        <3> QED BY <3>1 DEF Load
    <2> QED BY <1>2, <2>1, <2>2, <2>3, AttendeeSteps
<1>3. ASSUME NEW r \in Rows, DjActs(r) PROVE \E new : Moderated(r, new)
    BY <1>3, DjModerates
<1> QED BY <1>1, <1>2, <1>3 DEF Next, DjActs

\* What the save of an edit does to its row.
LEMMA SaveKeeps ==
    ASSUME TypeInv, NEW p \in People, Save(p)
    PROVE  \E r \in Rows, new \in RowRecords :
             /\ r = call[p].row /\ row' = [row EXCEPT ![r] = new] /\ token' = token /\ users' = users
             /\ new = Saved(row[r], call[p].seen, call[p].edited)
             /\ new.user = row[r].user /\ new.kicked = row[r].kicked /\ new.banned = row[r].banned
             /\ new.left \/ new.left = row[r].left
             /\ \/ new.cooldown = row[r].cooldown
                \/ call[p].op = "interact" /\ call[p].pc = "saving" /\ new.cooldown = "none"
<1> DEFINE c == call[p]
           r == c.row
           new == Saved(row[r], c.seen, c.edited)
<1>1. c \in Calls /\ EditOK(c) /\ c.pc = "saving" /\ r \in Rows
    BY DEF Save, TypeInv, CallOK, EditOK, Calls
<1>2. row' = [row EXCEPT ![r] = new] /\ UNCHANGED <<users, token>>
    BY DEF Save
<1>3. row[r] \in RowRecords /\ c.seen \in RowRecords /\ c.edited \in RowRecords
    BY <1>1 DEF TypeInv, RowsOK, Calls
<1>4. /\ new \in RowRecords
      /\ new.user = IF c.edited.user # c.seen.user THEN c.edited.user ELSE row[r].user
      /\ new.left = IF c.edited.left # c.seen.left THEN c.edited.left ELSE row[r].left
      /\ new.kicked = IF c.edited.kicked # c.seen.kicked THEN c.edited.kicked ELSE row[r].kicked
      /\ new.banned = IF c.edited.banned # c.seen.banned THEN c.edited.banned ELSE row[r].banned
      /\ new.cooldown = IF c.edited.cooldown # c.seen.cooldown
                         THEN c.edited.cooldown ELSE row[r].cooldown
    BY <1>3, SavedFields
<1> HIDE DEF new
<1>5. /\ new.user = row[r].user /\ new.kicked = row[r].kicked /\ new.banned = row[r].banned
      /\ new.left \/ new.left = row[r].left
      /\ new.cooldown = row[r].cooldown \/ (c.op = "interact" /\ new.cooldown = "none")
    BY <1>1, <1>4 DEF EditOK
<1> QED BY <1>1, <1>2, <1>4, <1>5 DEF new

LEMMA ModeratedIsOutStep ==
    ASSUME TypeInv, JoinInv, ModeratedIsOut, [Next]_vars
    PROVE  ModeratedIsOut'
<1>0. DOMAIN row = Rows
    BY DEF TypeInv, RowsOK
<1>1. CASE row' = row
    BY <1>1 DEF ModeratedIsOut
<1>2. ASSUME NEW p \in People, SaveJoin(p) PROVE ModeratedIsOut'
    <2>1. PICK r \in Rows, new \in RowRecords :
            row' = [row EXCEPT ![r] = new] /\ ~new.kicked /\ ~new.banned
        BY <1>2, JoinIsAtomic
    <2> QED BY <1>0, <2>1 DEF ModeratedIsOut
<1>3. ASSUME NEW p \in People, Save(p) PROVE ModeratedIsOut'
    <2>1. PICK r \in Rows, new \in RowRecords :
            /\ row' = [row EXCEPT ![r] = new]
            /\ new.kicked = row[r].kicked /\ new.banned = row[r].banned
            /\ new.left \/ new.left = row[r].left
        BY <1>3, SaveKeeps
    <2> QED BY <1>0, <2>1 DEF ModeratedIsOut
<1>4. ASSUME NEW r \in Rows, NEW new, Moderated(r, new) PROVE ModeratedIsOut'
    <2>1. row' = [row EXCEPT ![r] = new]
        BY <1>4 DEF Moderated
    <2>2. \/ new.left
          \/ new.left = row[r].left /\ new.kicked = row[r].kicked /\ new.banned = row[r].banned
        BY <1>4, ModeratedFields
    <2> QED BY <1>0, <2>1, <2>2 DEF ModeratedIsOut
<1> QED BY <1>1, <1>2, <1>3, <1>4, RowMoves

\* A row changes its user in a join only, one that may claim it.
LEMMA UserChanges ==
    ASSUME TypeInv, JoinInv, [Next]_vars, NEW r \in Rows, row'[r].user # row[r].user
    PROVE  \E p \in People :
             /\ row'[r].user = call[p].user /\ token' = [token EXCEPT ![p] = call[p].user]
             /\ row[r].exists => ~Refused(row[r], p)
<1>0. DOMAIN row = Rows
    BY DEF TypeInv, RowsOK
<1>1. ASSUME NEW p \in People, Save(p) PROVE FALSE
    <2>1. PICK s \in Rows, new \in RowRecords :
            row' = [row EXCEPT ![s] = new] /\ new.user = row[s].user
        BY <1>1, SaveKeeps
    <2> QED BY <1>0, <2>1
<1>2. ASSUME NEW s \in Rows, NEW new, Moderated(s, new) PROVE FALSE
    <2>1. row' = [row EXCEPT ![s] = new] /\ new.user = row[s].user
        BY <1>2, ModeratedFields DEF Moderated
    <2> QED BY <1>0, <2>1
<1>3. PICK p \in People : SaveJoin(p)
    BY <1>1, <1>2, RowMoves
<1>4. PICK s \in Rows, new \in RowRecords :
        /\ row' = [row EXCEPT ![s] = new] /\ token' = [token EXCEPT ![p] = call[p].user]
        /\ new.user = call[p].user
        /\ row[s].exists => ~Refused(row[s], p)
    BY <1>3, JoinIsAtomic
<1>5. s = r /\ row'[r] = new
    BY <1>0, <1>4
<1> QED BY <1>4, <1>5

AudienceInv == TypeInv /\ AloneInv /\ JoinInv /\ ModeratedIsOut

\* The inductive invariant of joins and moderation.  ModeratedIsOut is not
\* inductive: a join reads a row, and the kick that comes before it saves is
\* undone unless the row is still as it was read.
THEOREM JoinsInvariant ==
    ASSUME JoinsUndisturbed PROVE Spec => []AudienceInv
<1>1. Init => AudienceInv
    BY TypeInit, AloneInit, JoinInit DEF AudienceInv, Init, ModeratedIsOut, Blank
<1>2. AudienceInv /\ [Next]_vars => AudienceInv'
    BY TypeStep, AloneStep, JoinStep, ModeratedIsOutStep DEF AudienceInv
<1> QED BY <1>1, <1>2, PTL DEF Spec

\* A kick or a ban is never half undone by a rejoin, a leave or an edit that was
\* under way (kickParticipant, banParticipant against joinEvent).
THEOREM ModeratedIsOutAlways ==
    ASSUME JoinsUndisturbed PROVE Spec => []ModeratedIsOut
<1>1. AudienceInv => ModeratedIsOut
    BY DEF AudienceInv
<1> QED BY <1>1, JoinsInvariant, PTL

\* Two claims of one nickname never both succeed: nobody takes the row of an
\* attendee who is in the event (joinEvent, "Nickname already taken").
THEOREM ActiveRowIsNotTakenAlways ==
    ASSUME JoinsUndisturbed PROVE Spec => ActiveRowIsNotTaken
<1>1. ASSUME AudienceInv, [Next]_vars
      PROVE  [\A r \in Rows : Active(r) /\ row'[r].user # row[r].user => row[r].pw # Nobody]_vars
    <2> SUFFICES ASSUME NEW r \in Rows, Active(r), row'[r].user # row[r].user
                 PROVE  row[r].pw # Nobody
        OBVIOUS
    <2>1. PICK p \in People : row[r].exists => ~Refused(row[r], p)
        BY <1>1, UserChanges DEF AudienceInv
    <2> QED BY <2>1 DEF Active, Refused
<1> QED BY <1>1, JoinsInvariant, PTL DEF Spec, ActiveRowIsNotTaken

\* A protected row changes hands only to whoever knows its password, even when the
\* password is being set while somebody else claims the row (setParticipantPassword
\* against the check of passwordHash).
THEOREM ProtectedRowKeepsOwnerAlways ==
    ASSUME JoinsUndisturbed PROVE Spec => ProtectedRowKeepsOwner
<1>1. ASSUME AudienceInv, [Next]_vars
      PROVE  [\A r \in Rows : row[r].pw # Nobody /\ row'[r].user # row[r].user
                => token'[row[r].pw] = row'[r].user]_vars
    <2> SUFFICES ASSUME NEW r \in Rows, row[r].pw # Nobody, row'[r].user # row[r].user
                 PROVE  token'[row[r].pw] = row'[r].user
        OBVIOUS
    <2>1. PICK p \in People :
            /\ row'[r].user = call[p].user /\ token' = [token EXCEPT ![p] = call[p].user]
            /\ row[r].exists => ~Refused(row[r], p)
        BY <1>1, UserChanges DEF AudienceInv
    <2>2. row[r].exists
        BY <1>1 DEF AudienceInv, TypeInv, RowsOK, Blank
    <2>3. row[r].pw = p /\ DOMAIN token = People
        BY <1>1, <2>1, <2>2 DEF Refused, AudienceInv, TypeInv
    <2> QED BY <2>1, <2>3
<1> QED BY <1>1, JoinsInvariant, PTL DEF Spec, ProtectedRowKeepsOwner

-----------------------------------------------------------------------------
(* Accounts of joins that fail.                                            *)

\* A join by the participants route is for an account that exists.
RestInv ==
    \A p \in People :
        call[p].pc \in {"claimed", "joining"} /\ call[p].op = "restJoin" => call[p].user \in users

\* Accounts stay; with transactions only a join that is saved makes one.
LEMMA UsersMove ==
    ASSUME TypeInv, [Next]_vars
    PROVE  /\ users \subseteq users'
           /\ transactions => users' = users \/ \E p \in People : SaveJoin(p)
<1>1. CASE UNCHANGED users
    BY <1>1
<1>2. ASSUME NEW p \in People, Attendee(p)
      PROVE  /\ users \subseteq users'
             /\ transactions => users' = users \/ SaveJoin(p)
    <2>1. ASSUME NEW name \in Names, NEW prefs \in JoinPrefs[p], Claim(p, name, prefs)
          PROVE  users \subseteq users' /\ (transactions => users' = users)
        <3>1. users \subseteq users'
            BY <2>1, ClaimReads
        <3>2. transactions => users' = users
            BY <2>1 DEF Claim, Registered
        <3> QED BY <3>1, <3>2
    <2>2. ASSUME NEW name \in Names, NEW prefs \in JoinPrefs[p], RestJoin(p, name, prefs)
          PROVE  users' = users
        BY <2>2 DEF RestJoin
    <2>3. CASE Enter(p) \/ JoinFails(p) \/ Save(p) \/ SaveFails(p)
        BY <2>3 DEF Enter, JoinFails, Save, SaveFails
    <2>4. CASE SaveJoin(p)
        BY <2>4 DEF SaveJoin
    <2>5. CASE \E r \in Rows : Begins(p, r)
        <3>1. PICK r \in Rows, op \in Edits : \E doc : Load(p, op, r, doc)
            BY <2>5, BeginsLoads
        <3> QED BY <3>1 DEF Load
    <2> QED BY <1>2, <2>1, <2>2, <2>3, <2>4, <2>5, AttendeeSteps
<1>3. ASSUME NEW r \in Rows, DjActs(r) PROVE users' = users
    BY <1>3, DjModerates DEF Moderated
<1> QED BY <1>1, <1>2, <1>3 DEF Next, DjActs, vars

LEMMA RestInit == Init => RestInv
BY BlankType DEF Init, RestInv

LEMMA RestStep == TypeInv /\ RestInv /\ [Next]_vars => RestInv'
<1> SUFFICES ASSUME TypeInv, RestInv, [Next]_vars,
                    NEW p \in People, call'[p].pc \in {"claimed", "joining"},
                    call'[p].op = "restJoin"
             PROVE  call'[p].user \in users'
    BY DEF RestInv
<1>0. users \subseteq users' /\ DOMAIN call = People
    BY UsersMove DEF TypeInv
<1>1. CASE call'[p] = call[p]
    BY <1>0, <1>1 DEF RestInv
<1>2. CASE Attendee(p)
    <2>1. ASSUME NEW name \in Names, NEW prefs \in JoinPrefs[p],
                 Claim(p, name, prefs) \/ RestJoin(p, name, prefs)
          PROVE  call'[p].user \in users'
        <3>1. PICK r \in Rows \cup {NoRow}, u \in Users, op \in {"join", "restJoin"} :
                /\ call' = [call EXCEPT ![p] = Claimed(r, op, name, prefs, u)]
                /\ op = "restJoin" => u \in users
            BY <2>1, ClaimReads
        <3>2. call'[p].op = op /\ call'[p].user = u
            BY <1>0, <3>1 DEF Claimed, Idle
        <3> QED BY <1>0, <3>1, <3>2
    <2>2. CASE Enter(p) /\ ~Answer(p)
        <3>1. PICK doc :
                call' = [call EXCEPT ![p] = [call[p] EXCEPT !.pc = "joining", !.edited = doc]]
            BY <2>2, EnterMoves
        <3>2. call[p] \in Calls /\ call[p].pc = "claimed"
            BY <2>2 DEF TypeInv, Enter
        <3>3. call'[p].op = call[p].op /\ call'[p].user = call[p].user
            BY <1>0, <3>1, <3>2 DEF Calls
        <3> QED BY <1>0, <3>2, <3>3 DEF RestInv
    <2>3. CASE Answer(p) \/ SaveJoin(p) \/ JoinFails(p) \/ Save(p) \/ SaveFails(p)
        BY <1>0, <2>3, BlankType DEF Answer, SaveJoin, JoinFails, Save, SaveFails
    <2>4. CASE \E r \in Rows : Begins(p, r)
        <3>1. PICK r \in Rows, op \in Edits : \E doc : Load(p, op, r, doc)
            BY <2>4, BeginsLoads
        <3> QED BY <1>0, <3>1 DEF Load, Idle
    <2> QED BY <1>2, <2>1, <2>2, <2>3, <2>4, AttendeeSteps
<1>3. ASSUME NEW q \in People, Attendee(q), q # p PROVE call'[p] = call[p]
    BY <1>3, AttendeeMoves
<1>4. ASSUME NEW r \in Rows, DjActs(r) PROVE call'[p] = call[p]
    BY <1>4, DjModerates DEF Moderated
<1>5. CASE UNCHANGED vars
    BY <1>1, <1>5 DEF vars
<1> QED BY <1>1, <1>2, <1>3, <1>4, <1>5 DEF Next, DjActs

\* With transactions, a join that fails leaves no account behind, whatever overlaps
\* it (joinEvent of attendee-session.service.js).
THEOREM FailedJoinLeavesNothingAlways == Spec => FailedJoinLeavesNothing
<1> DEFINE Inv == TypeInv /\ RestInv
<1>1. Init => Inv
    BY TypeInit, RestInit
<1>2. Inv /\ [Next]_vars => Inv'
    BY TypeStep, RestStep
<1>3. Inv /\ [Next]_vars =>
        [transactions => \A u \in users' \ users : \E r \in Rows : row'[r].user = u]_vars
    <2> SUFFICES ASSUME Inv, [Next]_vars, transactions, NEW u \in users' \ users
                 PROVE  \E r \in Rows : row'[r].user = u
        OBVIOUS
    <2>1. PICK p \in People : SaveJoin(p)
        BY UsersMove
    <2>2. u = call[p].user /\ call[p].op = "join"
        BY <2>1 DEF SaveJoin, TypeInv, CallOK, JoinOK, RestInv
    <2>3. PICK r \in Rows, new \in RowRecords :
            row' = [row EXCEPT ![r] = new] /\ new.user = call[p].user
        BY <2>1, <2>2, JoinIsAtomic
    <2>4. row'[r].user = u
        BY <2>2, <2>3 DEF TypeInv, RowsOK
    <2> QED BY <2>4
<1> HIDE DEF Inv
<1> QED BY <1>1, <1>2, <1>3, PTL DEF Spec, FailedJoinLeavesNothing

-----------------------------------------------------------------------------
(* Cooldowns.                                                              *)

\* The bound under which dropping a cooldown that was over is safe: the DJ does
\* not act between the check and the save.
InteractUndisturbed == "interact" \in Undisturbed

\* A request that found its cooldown over still finds it so.
CooldownInv ==
    \A p \in People :
        call[p].pc = "saving" /\ call[p].op = "interact" => row[call[p].row].cooldown # "active"

LEMMA CooldownInit == Init => CooldownInv
BY BlankType DEF Init, CooldownInv

\* A join leaves the cooldown of the row it writes alone.
LEMMA JoinKeepsCooldown ==
    ASSUME TypeInv, NEW p \in People, SaveJoin(p), NEW r \in Rows
    PROVE  row'[r].cooldown = row[r].cooldown
<1> DEFINE c == call[p]
<1>1. c \in Calls /\ JoinOK(c, p) /\ c.pc = "joining" /\ DOMAIN row = Rows
    BY DEF SaveJoin, TypeInv, CallOK, RowsOK
<1>2. PICK s \in IF c.row # NoRow THEN {c.row} ELSE {q \in Rows : ~row[q].exists} :
            row' = [row EXCEPT ![s] = Saved(row[s], c.seen, c.edited)]
    BY DEF SaveJoin
<1>3. s \in Rows /\ row[s] \in RowRecords /\ c.seen \in RowRecords /\ c.edited \in RowRecords
    BY <1>1, <1>2 DEF Calls, TypeInv, RowsOK
<1>4. Saved(row[s], c.seen, c.edited).cooldown =
        IF c.edited.cooldown # c.seen.cooldown THEN c.edited.cooldown ELSE row[s].cooldown
    BY <1>3, SavedFields
<1>5. c.edited.cooldown = c.seen.cooldown
    BY <1>1 DEF JoinOK
<1> QED BY <1>1, <1>2, <1>3, <1>4, <1>5

\* A cooldown begins only where the DJ may act.
LEMMA CooldownBegins ==
    ASSUME TypeInv, [Next]_vars, NEW r \in Rows,
           row[r].cooldown # "active", row'[r].cooldown = "active"
    PROVE  DjMayAct
<1>0. DOMAIN row = Rows
    BY DEF TypeInv, RowsOK
<1>1. ASSUME NEW p \in People, Save(p) PROVE FALSE
    <2>1. PICK s \in Rows, new \in RowRecords :
            /\ row' = [row EXCEPT ![s] = new]
            /\ new.cooldown = row[s].cooldown \/ new.cooldown = "none"
        BY <1>1, SaveKeeps
    <2> QED BY <1>0, <2>1
<1>2. PICK s \in Rows : \E new : Moderated(s, new)
    BY <1>1, JoinKeepsCooldown, RowMoves
<1>a. PICK new : Moderated(s, new)
    BY <1>2
<1>3. row' = [row EXCEPT ![s] = new] /\ row[s] \in RowRecords
    BY <1>a DEF Moderated, TypeInv, RowsOK
<1>4. \/ DjMayAct
      \/ new = [row[s] EXCEPT !.cooldown = "expired"]
    BY <1>a, ModeratedFields
<1>5. ~(new = [row[s] EXCEPT !.cooldown = "expired"])
    BY <1>0, <1>3 DEF RowRecords
<1> QED BY <1>4, <1>5

LEMMA CooldownStep ==
    ASSUME InteractUndisturbed, TypeInv, CooldownInv, [Next]_vars
    PROVE  CooldownInv'
<1> SUFFICES ASSUME NEW p \in People, call'[p].pc = "saving", call'[p].op = "interact"
             PROVE  row'[call'[p].row].cooldown # "active"
    BY DEF CooldownInv
<1>0. DOMAIN call = People
    BY DEF TypeInv
<1>1. CASE call'[p] = call[p]
    <2>1. call[p].row \in Rows /\ row[call[p].row].cooldown # "active"
        BY <1>1 DEF CooldownInv, TypeInv, Calls, CallOK, EditOK
    <2>2. ~DjMayAct
        BY <1>1 DEF DjMayAct, Kinds, InteractUndisturbed
    <2> QED BY <1>1, <2>1, <2>2, CooldownBegins
<1>2. CASE Attendee(p)
    <2>1. ASSUME NEW name \in Names, NEW prefs \in JoinPrefs[p],
                 Claim(p, name, prefs) \/ RestJoin(p, name, prefs)
          PROVE  FALSE
        <3>1. PICK r \in Rows \cup {NoRow}, u \in Users, op \in {"join", "restJoin"} :
                call' = [call EXCEPT ![p] = Claimed(r, op, name, prefs, u)]
            BY <2>1, ClaimReads
        <3> QED BY <1>0, <3>1 DEF Claimed, Idle
    <2>2. ~(Enter(p) /\ ~Answer(p))
        <3> SUFFICES ASSUME Enter(p), ~Answer(p) PROVE FALSE
            OBVIOUS
        <3>1. PICK doc :
                call' = [call EXCEPT ![p] = [call[p] EXCEPT !.pc = "joining", !.edited = doc]]
            BY EnterMoves
        <3>2. call[p] \in Calls
            BY DEF TypeInv
        <3>3. call'[p].pc = "joining"
            BY <1>0, <3>1, <3>2 DEF Calls
        <3> QED BY <3>3
    <2>3. ~(Answer(p) \/ SaveJoin(p) \/ JoinFails(p) \/ Save(p) \/ SaveFails(p))
        BY <1>0, BlankType DEF Answer, SaveJoin, JoinFails, Save, SaveFails
    <2>4. PICK r \in Rows : Begins(p, r)
        BY <1>2, <2>1, <2>2, <2>3, AttendeeSteps
    <2>5. PICK op \in Edits : \E doc : Load(p, op, r, doc) /\ Editing(p, op, r, doc)
        BY <2>4, BeginsLoads
    <2>6. PICK doc : Load(p, op, r, doc) /\ Editing(p, op, r, doc)
        BY <2>5
    <2>7. call'[p].op = op /\ call'[p].row = r /\ row' = row
        BY <1>0, <2>6 DEF Load, Idle
    <2>8. row[r].cooldown = "expired"
        BY <2>6, <2>7 DEF Editing
    <2> QED BY <2>7, <2>8
<1>3. ASSUME NEW q \in People, Attendee(q), q # p PROVE call'[p] = call[p]
    BY <1>3, AttendeeMoves
<1>4. ASSUME NEW r \in Rows, DjActs(r) PROVE call'[p] = call[p]
    BY <1>4, DjModerates DEF Moderated
<1>5. CASE UNCHANGED vars
    BY <1>1, <1>5 DEF vars
<1> QED BY <1>1, <1>2, <1>3, <1>4, <1>5 DEF Next, DjActs

\* A cooldown in force is lifted by the DJ or by time, never by the attendee's own
\* requests (ensureParticipantCanInteract clears a cooldown it found over).
THEOREM CooldownHoldsAlways ==
    ASSUME InteractUndisturbed PROVE Spec => CooldownHolds
<1> DEFINE Inv == TypeInv /\ CooldownInv
<1>1. Init => Inv
    BY TypeInit, CooldownInit
<1>2. Inv /\ [Next]_vars => Inv'
    BY TypeStep, CooldownStep
<1>3. Inv /\ [Next]_vars =>
        [\A r \in Rows : row[r].cooldown = "active" /\ row'[r].cooldown = "none"
            => ClearCooldown(r)]_vars
    <2> SUFFICES ASSUME Inv, [Next]_vars, NEW r \in Rows,
                        row[r].cooldown = "active", row'[r].cooldown = "none"
                 PROVE  ClearCooldown(r)
        OBVIOUS
    <2>0. DOMAIN row = Rows
        BY DEF TypeInv, RowsOK
    <2>1. ASSUME NEW p \in People, Save(p) PROVE FALSE
        <3>1. PICK s \in Rows, new \in RowRecords :
                /\ s = call[p].row /\ row' = [row EXCEPT ![s] = new]
                /\ \/ new.cooldown = row[s].cooldown
                   \/ call[p].op = "interact" /\ call[p].pc = "saving"
            BY <2>1, SaveKeeps
        <3>2. s = r
            BY <2>0, <3>1
        <3> QED BY <2>0, <3>1, <3>2 DEF CooldownInv
    <2>2. PICK s \in Rows : \E new : Moderated(s, new)
        BY <2>1, JoinKeepsCooldown, RowMoves
    <2>a. PICK new : Moderated(s, new)
        BY <2>2
    <2>3. row' = [row EXCEPT ![s] = new]
          /\ (row[s].cooldown = "active" /\ new.cooldown = "none" => ClearCooldown(s))
        BY <2>a, ModeratedFields DEF Moderated
    <2> QED BY <2>0, <2>3
<1> HIDE DEF Inv
<1> QED BY <1>1, <1>2, <1>3, PTL DEF Spec, CooldownHolds

-----------------------------------------------------------------------------
(* Masks.                                                                  *)

\* The further bound under which a mask is kept: a rename or a switch of the mask
\* runs alone too.  Without it a rename that was read before a rejoin asked for
\* the mask would put the name back.
NamesAlone == {"rename", "mask"} \subseteq Alone

MaskOK(doc) == ~doc.shows /\ doc.number # 0 => doc.name = doc.number

SameNames(a, b) == a.name = b.name /\ a.number = b.number /\ a.shows = b.shows

\* What a request will write is masked if it should be: a rename or a switch finds
\* the names it read, every other edit leaves them alone.
NamesOK(p) ==
    /\ call[p].pc = "claimed" => MaskOK(call[p].seen)
    /\ call[p].pc = "joining" => MaskOK(call[p].edited)
    /\ call[p].pc = "saving" =>
         IF call[p].op \in {"rename", "mask"}
         THEN SameNames(row[call[p].row], call[p].seen) /\ MaskOK(call[p].edited)
         ELSE SameNames(call[p].edited, call[p].seen)

MaskInv == MaskIsKept /\ \A p \in People : NamesOK(p)

LEMMA MaskInit == Init => MaskInv
<1> SUFFICES ASSUME Init PROVE MaskInv
    OBVIOUS
<1>1. MaskIsKept
    BY DEF Init, MaskIsKept, Blank
<1>2. \A p \in People : NamesOK(p)
    BY BlankType DEF Init, NamesOK
<1> QED BY <1>1, <1>2 DEF MaskInv

\* _applySocialPrefs leaves a document masked as it asks.
LEMMA MaskedIsOK ==
    ASSUME NEW doc \in RowRecords, NEW prefs \in {"show", "hide"},
           NEW number \in Numbers \cup {0}, NEW name \in Names \cup {NoName}
    PROVE  MaskOK(Masked(doc, prefs, number, name))
<1> DEFINE m == Masked(doc, prefs, number, name)
<1>a. m = Masked(doc, prefs, number, name)
    OBVIOUS
<1> HIDE DEF m
<1>1. /\ m.shows = (prefs = "show")
      /\ m.number = IF prefs = "hide" THEN number ELSE doc.number
      /\ prefs = "hide" => m.name = IF number # 0 THEN number ELSE doc.name
    BY <1>a, MaskedFields
<1>2. MaskOK(m)
    BY <1>1 DEF MaskOK
<1> QED BY <1>a, <1>2

LEMMA EnteredIsOK ==
    ASSUME TypeInv, NEW c \in Calls, NEW p \in People, JoinOK(c, p), MaskOK(c.seen)
    PROVE  /\ c.row # NoRow => MaskOK(Rejoined(c.seen, c))
           /\ c.row = NoRow => MaskOK(Joined(c))
<1>1. /\ c.seen \in RowRecords /\ c.user \in Users /\ c.name \in Names
      /\ c.prefs \in {"none", "show", "hide"}
    BY DEF Calls, JoinOK
<1>2. MaskOK(Rejoined(c.seen, c))
    <2> DEFINE open == [c.seen EXCEPT !.left = FALSE, !.kicked = FALSE, !.user = c.user]
    <2>1. open \in RowRecords /\ MaskOK(open) /\ c.seen.number \in Numbers \cup {0}
        BY <1>1 DEF RowRecords, MaskOK
    <2>2. Rejoined(c.seen, c) = IF c.prefs = "none" THEN open
                                ELSE Masked(open, c.prefs, c.seen.number, c.name)
        BY DEF Rejoined
    <2> HIDE DEF open
    <2>3. CASE c.prefs = "none"
        BY <2>1, <2>2, <2>3
    <2>4. CASE c.prefs # "none"
        <3>1. c.prefs \in {"show", "hide"} /\ c.name \in Names \cup {NoName}
            BY <1>1, <2>4
        <3>2. MaskOK(Masked(open, c.prefs, c.seen.number, c.name))
            BY <2>1, <3>1, MaskedIsOK
        <3> QED BY <2>2, <2>4, <3>2
    <2> QED BY <2>3, <2>4
<1>3. MaskOK(Joined(c))
    <2> DEFINE new == [Blank EXCEPT !.exists = TRUE, !.name = c.name, !.user = c.user]
    <2>1. new \in RowRecords /\ MaskOK(new)
        BY <1>1 DEF Blank, RowRecords, AllNames, MaskOK
    <2>2. Joined(c) = IF c.prefs = "none" THEN new
                      ELSE Masked(new, c.prefs, NumberFor(new), c.name)
        BY DEF Joined
    <2> HIDE DEF new
    <2>3. NumberFor(new) \in Numbers \cup {0}
        BY <2>1, NumbersType
    <2>4. CASE c.prefs = "none"
        BY <2>1, <2>2, <2>4
    <2>5. CASE c.prefs # "none"
        <3>1. c.prefs \in {"show", "hide"} /\ c.name \in Names \cup {NoName}
            BY <1>1, <2>5
        <3>2. MaskOK(Masked(new, c.prefs, NumberFor(new), c.name))
            BY <2>1, <2>3, <3>1, MaskedIsOK
        <3> QED BY <2>2, <2>5, <3>2
    <2> QED BY <2>4, <2>5
<1> QED BY <1>2, <1>3

LEMMA EditingIsOK ==
    ASSUME TypeInv, NEW p \in People, NEW r \in Rows, NEW op, NEW doc, Editing(p, op, r, doc)
    PROVE  IF op \in {"rename", "mask"} THEN MaskOK(doc) ELSE SameNames(doc, row[r])
<1>0. row[r] \in RowRecords
    BY DEF TypeInv, RowsOK
<1>1. CASE op = "leave" /\ doc = [row[r] EXCEPT !.left = TRUE]
    BY <1>0, <1>1 DEF SameNames, RowRecords
<1>2. CASE op = "password" /\ doc = [row[r] EXCEPT !.pw = p]
    BY <1>0, <1>2 DEF SameNames, RowRecords
<1>3. CASE op = "rename" /\ \E name \in Names : doc = Renamed(row[r], name)
    BY <1>0, <1>3 DEF Renamed, MaskOK, RowRecords
<1>4. CASE op = "mask" /\ \E prefs \in {"show", "hide"} :
                doc = Masked(row[r], prefs, NumberFor(row[r]), row[r].real)
    <2>1. NumberFor(row[r]) \in Numbers \cup {0} /\ row[r].real \in Names \cup {NoName}
        BY <1>0, NumbersType DEF RowRecords
    <2>2. MaskOK(doc)
        BY <1>0, <1>4, <2>1, MaskedIsOK
    <2> QED BY <1>4, <2>2
<1>5. CASE op = "interact" /\ row[r].cooldown = "expired" /\ doc = [row[r] EXCEPT !.cooldown = "none"]
    BY <1>0, <1>5 DEF SameNames, RowRecords
<1> QED BY <1>1, <1>2, <1>3, <1>4, <1>5 DEF Editing

\* The names of a row change in a join and in the save of an edit only.
LEMMA RowKeepsNames ==
    ASSUME TypeInv, [Next]_vars, NEW r \in Rows,
           \A p \in People : ~SaveJoin(p) /\ ~Save(p)
    PROVE  SameNames(row'[r], row[r])
<1>0. DOMAIN row = Rows
    BY DEF TypeInv, RowsOK
<1>1. CASE row' = row
    BY <1>1 DEF SameNames
<1>2. ASSUME NEW s \in Rows, NEW new, Moderated(s, new) PROVE SameNames(row'[r], row[r])
    <2>1. /\ row' = [row EXCEPT ![s] = new] /\ new.name = row[s].name
          /\ new.number = row[s].number /\ new.shows = row[s].shows
        BY <1>2, ModeratedFields DEF Moderated
    <2> QED BY <1>0, <2>1 DEF SameNames
<1> QED BY <1>1, <1>2, RowMoves

LEMMA MaskIsKeptStep ==
    ASSUME TypeInv, JoinInv, MaskInv, [Next]_vars
    PROVE  MaskIsKept'
<1>0. DOMAIN row = Rows
    BY DEF TypeInv, RowsOK
<1>1. CASE \A p \in People : ~SaveJoin(p) /\ ~Save(p)
    BY <1>1, RowKeepsNames DEF MaskInv, MaskIsKept, SameNames
<1>2. ASSUME NEW p \in People, SaveJoin(p) PROVE MaskIsKept'
    <2>1. PICK r \in Rows, new \in RowRecords :
            /\ row' = [row EXCEPT ![r] = new]
            /\ new.name = call[p].edited.name /\ new.shows = call[p].edited.shows
            /\ new.number = call[p].edited.number
        BY <1>2, JoinIsAtomic
    <2>2. MaskOK(call[p].edited)
        BY <1>2 DEF SaveJoin, MaskInv, NamesOK
    <2> QED BY <1>0, <2>1, <2>2 DEF MaskInv, MaskIsKept, MaskOK
<1>3. ASSUME NEW p \in People, Save(p) PROVE MaskIsKept'
    <2> DEFINE c == call[p]
    <2>1. PICK r \in Rows, new \in RowRecords :
            /\ r = c.row /\ row' = [row EXCEPT ![r] = new]
            /\ new = Saved(row[r], c.seen, c.edited)
        BY <1>3, SaveKeeps
    <2>2. row[r] \in RowRecords /\ c.seen \in RowRecords /\ c.edited \in RowRecords
        BY DEF TypeInv, RowsOK, Calls
    <2>3. /\ new.name = IF c.edited.name # c.seen.name THEN c.edited.name ELSE row[r].name
          /\ new.number = IF c.edited.number # c.seen.number THEN c.edited.number ELSE row[r].number
          /\ new.shows = IF c.edited.shows # c.seen.shows THEN c.edited.shows ELSE row[r].shows
        BY <2>1, <2>2, SavedFields
    <2>4. IF c.op \in {"rename", "mask"} THEN SameNames(row[r], c.seen) /\ MaskOK(c.edited)
          ELSE SameNames(c.edited, c.seen)
        BY <1>3, <2>1 DEF Save, MaskInv, NamesOK
    <2>5. MaskOK(row[r])
        BY <2>1 DEF MaskInv, MaskIsKept, MaskOK
    <2>6. MaskOK(new)
        <3>1. CASE c.op \in {"rename", "mask"}
            <4>1. SameNames(new, c.edited) /\ MaskOK(c.edited)
                BY <2>3, <2>4, <3>1 DEF SameNames
            <4> QED BY <4>1 DEF SameNames, MaskOK
        <3>2. CASE c.op \notin {"rename", "mask"}
            <4>1. SameNames(new, row[r])
                BY <2>3, <2>4, <3>2 DEF SameNames
            <4> QED BY <2>5, <4>1 DEF SameNames, MaskOK
        <3> QED BY <3>1, <3>2
    <2>7. row' = [row EXCEPT ![r] = new]
        BY <2>1
    <2> HIDE DEF c
    <2> QED BY <1>0, <2>6, <2>7 DEF MaskInv, MaskIsKept, MaskOK
<1> QED BY <1>1, <1>2, <1>3

LEMMA NamesStep ==
    ASSUME NamesAlone, TypeInv, AloneInv, MaskInv, [Next]_vars, NEW p \in People
    PROVE  NamesOK(p)'
<1>0. DOMAIN call = People
    BY DEF TypeInv
<1>1. CASE call'[p] = call[p] /\ ~Save(p)
    <2>1. ASSUME call[p].pc = "saving", call[p].op \in {"rename", "mask"}
          PROVE  SameNames(row'[call[p].row], call[p].seen)
        <3>1. call[p].row \in Rows /\ SameNames(row[call[p].row], call[p].seen)
            BY <2>1 DEF MaskInv, NamesOK, TypeInv, Calls, CallOK, EditOK
        <3>2. \A q \in People : q # p => ~Attendee(q)
            BY <2>1, AloneBlocks DEF Kinds, NamesAlone
        <3>3. \A q \in People : ~SaveJoin(q) /\ ~Save(q)
            BY <1>1, <2>1, <3>2 DEF Attendee, SaveJoin
        <3>4. SameNames(row'[call[p].row], row[call[p].row])
            BY <3>1, <3>3, RowKeepsNames
        <3> QED BY <3>1, <3>4 DEF SameNames
    <2> QED BY <1>1, <2>1 DEF MaskInv, NamesOK
<1>2. CASE call'[p] = Idle
    BY <1>2, BlankType DEF NamesOK
<1>3. CASE Attendee(p)
    <2>1. ASSUME NEW name \in Names, NEW prefs \in JoinPrefs[p],
                 Claim(p, name, prefs) \/ RestJoin(p, name, prefs)
          PROVE  NamesOK(p)'
        <3>1. PICK r \in Rows \cup {NoRow}, u \in Users, op \in {"join", "restJoin"} :
                call' = [call EXCEPT ![p] = Claimed(r, op, name, prefs, u)]
            BY <2>1, ClaimReads
        <3>2. /\ call'[p].pc = "claimed"
              /\ call'[p].seen = IF r = NoRow THEN Blank ELSE row[r]
            BY <1>0, <3>1 DEF Claimed, Idle
        <3>3. MaskOK(call'[p].seen)
            BY <3>2 DEF MaskInv, MaskIsKept, MaskOK, Blank
        <3> QED BY <3>2, <3>3 DEF NamesOK
    <2>2. CASE Enter(p) /\ ~Answer(p)
        <3>1. PICK doc :
                /\ call' = [call EXCEPT ![p] = [call[p] EXCEPT !.pc = "joining", !.edited = doc]]
                /\ call[p].row # NoRow => doc = Rejoined(call[p].seen, call[p])
                /\ call[p].row = NoRow => doc = Joined(call[p])
            BY <2>2, EnterMoves
        <3>2. call[p] \in Calls /\ call[p].pc = "claimed" /\ JoinOK(call[p], p)
            BY <2>2 DEF TypeInv, CallOK, Enter
        <3>3. MaskOK(call[p].seen)
            BY <3>2 DEF MaskInv, NamesOK
        <3>4. MaskOK(doc)
            BY <3>1, <3>2, <3>3, EnteredIsOK
        <3>5. call'[p].pc = "joining" /\ call'[p].edited = doc
            BY <1>0, <3>1, <3>2 DEF Calls
        <3> QED BY <3>4, <3>5 DEF NamesOK
    <2>3. CASE Answer(p) \/ SaveJoin(p) \/ JoinFails(p) \/ Save(p) \/ SaveFails(p)
        BY <1>0, <1>2, <2>3 DEF Answer, SaveJoin, JoinFails, Save, SaveFails
    <2>4. CASE \E r \in Rows : Begins(p, r)
        <3>1. PICK r \in Rows : Begins(p, r)
            BY <2>4
        <3>2. PICK op \in Edits : \E doc : Load(p, op, r, doc) /\ Editing(p, op, r, doc)
            BY <3>1, BeginsLoads
        <3>3. PICK doc : Load(p, op, r, doc) /\ Editing(p, op, r, doc)
            BY <3>2
        <3>4. IF op \in {"rename", "mask"} THEN MaskOK(doc) ELSE SameNames(doc, row[r])
            BY <3>3, EditingIsOK
        <3>5. /\ call'[p].pc = "saving" /\ call'[p].op = op /\ call'[p].row = r
              /\ call'[p].seen = row[r] /\ call'[p].edited = doc /\ row' = row
            BY <1>0, <3>3 DEF Load, Idle
        <3> QED BY <3>4, <3>5 DEF NamesOK, SameNames
    <2> QED BY <1>3, <2>1, <2>2, <2>3, <2>4, AttendeeSteps
<1>4. CASE Save(p)
    BY <1>0, <1>2, <1>4 DEF Save, Answer
<1>5. ASSUME NEW q \in People, Attendee(q), q # p PROVE call'[p] = call[p]
    BY <1>5, AttendeeMoves
<1>6. ASSUME NEW r \in Rows, DjActs(r) PROVE call'[p] = call[p]
    BY <1>6, DjModerates DEF Moderated
<1>7. CASE UNCHANGED vars
    BY <1>1, <1>4, <1>7 DEF vars
<1> QED BY <1>1, <1>3, <1>4, <1>5, <1>6, <1>7 DEF Next, DjActs

\* An attendee who hides the display name goes by the mask (_applySocialPrefs and
\* updateProfile keep the public nickname in step with the preference).  MaskIsKept
\* is not inductive: what a request will write has to be masked as well, and still
\* be what the row needs when it is written.
THEOREM MaskIsKeptAlways ==
    ASSUME JoinsUndisturbed, NamesAlone PROVE Spec => []MaskIsKept
<1> DEFINE Inv == TypeInv /\ AloneInv /\ JoinInv /\ MaskInv
<1>1. Init => Inv
    BY TypeInit, AloneInit, JoinInit, MaskInit
<1>2. Inv /\ [Next]_vars => Inv'
    <2> SUFFICES ASSUME Inv, [Next]_vars PROVE Inv'
        OBVIOUS
    <2>1. MaskInv'
        BY MaskIsKeptStep, NamesStep DEF MaskInv
    <2> QED BY <2>1, TypeStep, AloneStep, JoinStep
<1>3. Inv => MaskIsKept
    BY DEF MaskInv
<1> HIDE DEF Inv
<1> QED BY <1>1, <1>2, <1>3, PTL DEF Spec

=============================================================================
