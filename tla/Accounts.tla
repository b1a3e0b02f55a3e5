------------------------------ MODULE Accounts ------------------------------
(***************************************************************************)
(* The account of one e-mail address: its registration, the verification   *)
(* mails of a DJ (auth.service.js, email.service.js) and the event only a  *)
(* verified DJ may create (events.service.js).  Requests are split where   *)
(* they await the database or the mail service.                            *)
(*                                                                         *)
(* A tick is five minutes, the cooldown between two mails and the life of  *)
(* a link; a handler takes less.  Counters stop where nothing tells their  *)
(* values apart any more.                                                  *)
(***************************************************************************)
EXTENDS Naturals, FiniteSets, FiniteSetsExt

CONSTANTS
    Requests,      \* requests that can be in flight at the same time
    MaxMails,   \* MAX_ATTEMPTS
    Day,           \* ATTEMPT_WINDOW_MS in ticks
    LinkIds,       \* bound: tokens that can be told apart
    NoAccount

NoLink == 0

\* The documents of a user.  sentAt is the age of the last mail; Day also
\* stands for none.
Documents ==
    [role : {"ATTENDEE", "DJ"}, registered : BOOLEAN, link : LinkIds \cup {NoLink},
     attempts : 0 .. MaxMails + 1, sentAt : 0 .. Day]

ASSUME AccountsAssumption ==
    /\ MaxMails \in Nat \ {0} /\ Day \in Nat \ {0}
    /\ LinkIds \subseteq Nat \ {0}
    /\ NoAccount \notin Documents
    /\ IsFiniteSet(Requests)

VARIABLES
    account,   \* the user's document, or NoAccount
    handler,   \* what each request is about to do, and the document it holds
    links,     \* tokens that were handed out and have not expired
    mailed,    \* history: mails sent within a day, each its age and its number in its tick
    event      \* the DJ's event: "none", "made", or "owned" with its member row

accountVars == <<account, handler, links, mailed, event>>

Quiet == [pc |-> "idle", doc |-> NoAccount, paths |-> {}]

-----------------------------------------------------------------------------
(* What a handler does with the document.                                  *)

NewUser(role) ==
    [role |-> role, registered |-> FALSE, link |-> NoLink, attempts |-> 0, sentAt |-> Day]

\* document.save sends the paths the handler has set, not the document it read.
SavedWhole(doc, paths) == doc \* mutant
SavedPaths(doc, paths) ==
    [f \in DOMAIN account |-> IF f \in paths THEN doc[f] ELSE account[f]]

\* The checks of sendWelcomeEmail, on the document its caller loaded.
MayMailOnceMore(doc) == doc.sentAt >= 1 /\ (doc.sentAt < Day => doc.attempts <= MaxMails) \* mutant
MayMail(doc) == doc.sentAt >= 1 /\ (doc.sentAt < Day => doc.attempts < MaxMails)

\* Tokens that nobody has been given yet.
FreshLinks ==
    LinkIds \ (links \cup {handler[h].doc.link : h \in {g \in Requests : handler[g].doc # NoAccount}}
                 \cup {account.link})

Finishes(h) == handler' = [handler EXCEPT ![h] = Quiet]
Holds(h, pc) == handler[h].pc = pc
Begins(h, pc, doc, paths) ==
    handler' = [handler EXCEPT ![h] = [pc |-> pc, doc |-> doc, paths |-> paths]]

\* sendWelcomeEmail, up to its save; the caller goes on where it awaits.
Mail(h, doc) ==
    IF MayMail(doc)
    THEN /\ FreshLinks # {}
         /\ Begins(h, "mail", [doc EXCEPT !.attempts = Min({@ + 1, MaxMails + 1}),
                                          !.sentAt = 0, !.link = CHOOSE l \in FreshLinks : TRUE],
                   {"attempts", "sentAt", "link"})
    ELSE Finishes(h)

-----------------------------------------------------------------------------
(* Registration.                                                           *)

\* findOne finds nobody, and the password is hashed.  ADMIN is downgraded.
Register(h) ==
    /\ Holds(h, "idle") /\ account = NoAccount
    /\ \E role \in {"ATTENDEE", "DJ"} : Begins(h, "register", NewUser(role), {})
    /\ UNCHANGED <<account, links, mailed, event>>

\* Two registrations may have come this far: the unique address decides.
SaveUser(h) ==
    /\ Holds(h, "register")
    /\ IF account # NoAccount THEN Finishes(h) /\ UNCHANGED account
       ELSE /\ account' = handler[h].doc
            /\ Begins(h, IF account'.role = "DJ" THEN "welcome" ELSE "idle", NoAccount, {})
    /\ UNCHANGED <<links, mailed, event>>

Welcome(h) ==
    /\ Holds(h, "welcome")
    /\ Mail(h, NewUser("DJ"))
    /\ UNCHANGED <<account, links, mailed, event>>

-----------------------------------------------------------------------------
(* Verification.                                                           *)

\* verifyEmail: another mail.
Resend(h) ==
    /\ Holds(h, "idle") /\ account # NoAccount
    /\ ~account.registered /\ account.role = "DJ"
    /\ Mail(h, account)
    /\ UNCHANGED <<account, links, mailed, event>>

SaveMail(h) ==
    /\ Holds(h, "mail")
    /\ account' = SavedPaths(handler[h].doc, handler[h].paths)
    /\ handler' = [handler EXCEPT ![h].pc = "send"]
    /\ UNCHANGED <<links, mailed, event>>

\* One more mail of this tick.
NextMail == <<0, Cardinality({m \in mailed : m[1] = 0})>>

\* The mail goes out, or the service fails: what was counted stays counted.
SendMail(h) ==
    /\ Holds(h, "send")
    /\ \/ links' = links \cup {handler[h].doc.link} /\ mailed' = mailed \cup {NextMail}
       \/ UNCHANGED <<links, mailed>>
    /\ Finishes(h)
    /\ UNCHANGED <<account, event>>

\* verifyEmailToken with a token that has not expired.
VerifyToken(h) ==
    /\ Holds(h, "idle") /\ account # NoAccount
    /\ account.link \in links /\ ~account.registered
    /\ Begins(h, "save", [account EXCEPT !.registered = TRUE, !.link = NoLink], {"registered", "link"})
    /\ UNCHANGED <<account, links, mailed, event>>

\* updateProfile, updateProfilePicture, markTutorialAsSeen: nothing kept here.
EditUser(h) ==
    /\ Holds(h, "idle") /\ account # NoAccount
    /\ Begins(h, "save", account, {})
    /\ UNCHANGED <<account, links, mailed, event>>

SaveEdit(h) ==
    /\ Holds(h, "save")
    /\ account' = SavedPaths(handler[h].doc, handler[h].paths)
    /\ Finishes(h)
    /\ UNCHANGED <<links, mailed, event>>

-----------------------------------------------------------------------------
(* createEvent.                                                            *)

AssertCanCreate(h) ==
    /\ Holds(h, "idle") /\ account # NoAccount
    /\ account.role = "DJ" /\ account.registered
    /\ event = "none"
    /\ Begins(h, "event", NoAccount, {})
    /\ UNCHANGED <<account, links, mailed, event>>

\* Bound: the DJ has one event.
SaveEvent(h) ==
    /\ Holds(h, "event")
    /\ IF event = "none" THEN event' = "made" /\ Begins(h, "member", NoAccount, {})
       ELSE UNCHANGED event /\ Finishes(h)
    /\ UNCHANGED <<account, links, mailed>>

SaveMember(h) ==
    /\ Holds(h, "member")
    /\ event' = "owned"
    /\ Finishes(h)
    /\ UNCHANGED <<account, links, mailed>>

-----------------------------------------------------------------------------

\* Any of the saves fails, and the handler with it.
UserSaveFails(h) ==
    /\ handler[h].pc \in {"register", "mail", "save", "event", "member"}
    /\ Finishes(h)
    /\ UNCHANGED <<account, links, mailed, event>>

\* Requests take less than a tick.
FiveMinutes ==
    /\ \A h \in Requests : Holds(h, "idle")
    /\ links' = {}
    /\ mailed' = {<<m[1] + 1, m[2]>> : m \in {n \in mailed : n[1] + 1 < Day}}
    /\ account' = IF account = NoAccount THEN account
                  ELSE [account EXCEPT !.sentAt = Min({@ + 1, Day})]
    /\ UNCHANGED <<handler, event>>

AccountsInit ==
    /\ account = NoAccount
    /\ handler = [h \in Requests |-> Quiet]
    /\ links = {}
    /\ mailed = {}
    /\ event = "none"

AccountsNext ==
    \/ FiveMinutes
    \/ \E h \in Requests :
        \/ Register(h) \/ SaveUser(h) \/ Welcome(h)
        \/ Resend(h) \/ SaveMail(h) \/ SendMail(h)
        \/ VerifyToken(h) \/ EditUser(h) \/ SaveEdit(h)
        \/ AssertCanCreate(h) \/ SaveEvent(h) \/ SaveMember(h)
        \/ UserSaveFails(h)

AccountsSpec == AccountsInit /\ [][AccountsNext]_accountVars

-----------------------------------------------------------------------------

\* Types.
AccountTypeOK ==
    /\ account \in Documents \cup {NoAccount}
    /\ links \subseteq LinkIds
    /\ event \in {"none", "made", "owned"}

\* However many requests for a mail overlap, each having read the account before
\* another counted its own, no day sees more mails than MaxMails for each
\* request in flight: a round of them counts once at least and starts a cooldown
\* (sendWelcomeEmail against the documents verifyEmail and register hand it).
MailsAreLimited ==
    Cardinality(mailed) <= MaxMails * Cardinality(Requests)

\* An event has an owner who is a verified DJ, long after the check and although
\* other handlers of the account save what they read before the verification
\* (_assertCanCreateEvent against verifyEmailToken, sendWelcomeEmail, updateProfile).
OwnerIsVerified ==
    event # "none" => account # NoAccount /\ account.role = "DJ" /\ account.registered

=============================================================================
