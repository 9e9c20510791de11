------------------------------ MODULE Accounts ------------------------------
(***************************************************************************)
(* Accounts of sellers: registration, sign-in, sessions, and the links     *)
(* that are mailed to confirm an address or to set a new password          *)
(* (auth.service.ts, token-auth.guard.ts).                                 *)
(*                                                                         *)
(* One mail address.  Rows of before addresses were lowercased may be      *)
(* spelled otherwise, so several accounts can answer to it.  Handlers      *)
(* overlap at every statement, and a server may die at any.  Hashing and   *)
(* mail are left out: whoever knows a link has its row.                    *)
(***************************************************************************)
EXTENDS Integers, Sequences, FiniteSets

CONSTANTS
  Users,         \* accounts that may answer to the address
  Fresh,         \* the one whose stored address is in lower case
  Passwords,
  Handlers,      \* requests handled at the same time
  ResetLife,     \* RESET_TTL_MS, VERIFY_TTL_MS and the days of a session
  VerifyLife,
  SessionLife,
  MustVerify,    \* EMAIL_VERIFICATION_REQUIRED
  MaxRequests,   \* bounds
  MaxTime,
  None

VARIABLES
  account,       \* the users rows
  links,         \* the auth_email_tokens rows, in the order of their creation
  sessions,      \* the personal_access_tokens rows
  handler,       \* where each request is
  requests,      \* how many there were
  time,
  spent          \* links that a finished reset of their user has ended

vars == <<account, links, sessions, handler, requests, time, spent>>

-----------------------------------------------------------------------------
Idle == [kind |-> "none", at |-> "idle", user |-> None, link |-> 0, password |-> None]

Registered == {u \in Users : account[u] # None}

Init ==
  /\ account \in [Users -> {None} \cup [password : Passwords, verified : {TRUE}]]
  /\ account[Fresh] = None
  /\ links = <<>>
  /\ sessions = {}
  /\ handler = [h \in Handlers |-> Idle]
  /\ requests = 0
  /\ time = 0
  /\ spent = {}

Begin(h, rec) ==
  /\ handler[h] = Idle
  /\ requests < MaxRequests
  /\ requests' = requests + 1
  /\ handler' = [handler EXCEPT ![h] = rec]

GoTo(h, step) == handler' = [handler EXCEPT ![h].at = step]

Finish(h) == handler' = [handler EXCEPT ![h] = Idle]

-----------------------------------------------------------------------------
(* register looks for the address in lower case, and creates the account if  *)
(* it is still free: the column is unique.                                   *)
Register(h, p) ==
  /\ account[Fresh] = None
  /\ Begin(h, [Idle EXCEPT !.kind = "register", !.at = "create", !.user = Fresh, !.password = p])
  /\ UNCHANGED <<account, links, sessions, time, spent>>

Create(h) ==
  /\ handler[h].at = "create"
  /\ \/ /\ account[Fresh] = None
        /\ account' = [account EXCEPT ![Fresh] =
                         [password |-> handler[h].password, verified |-> FALSE]]
        /\ GoTo(h, "void")
     \/ account[Fresh] # None /\ Finish(h) /\ UNCHANGED account
  /\ UNCHANGED <<links, sessions, requests, time, spent>>

(* login takes the row in lower case if its password is right, and otherwise *)
(* any row that is spelled the same but for case, if its password is.        *)
Knows(u, p) == account[u] # None /\ account[u].password = p

Login(h, u, p) ==
  /\ Knows(u, p)
  /\ u # Fresh => ~Knows(Fresh, p)
  /\ MustVerify => account[u].verified
  /\ Begin(h, [Idle EXCEPT !.kind = "login", !.at = "session", !.user = u])
  /\ UNCHANGED <<account, links, sessions, time, spent>>

CreateSession(h) ==
  /\ handler[h].at = "session"
  /\ sessions' = sessions \cup {[user |-> handler[h].user, until |-> time + SessionLife]}
  /\ Finish(h)
  /\ UNCHANGED <<account, links, requests, time, spent>>

(* The guard lets a request through with a session that has not expired.     *)
Admitted == {s \in sessions : s.until >= time}

Logout(s) ==
  /\ s \in Admitted
  /\ sessions' = sessions \ {s}
  /\ UNCHANGED <<account, links, handler, requests, time, spent>>

-----------------------------------------------------------------------------
(* forgotPassword and resendVerification: any row that is spelled the same   *)
(* but for case; the user of a session who is not verified.                  *)
Forgot(h, u) ==
  /\ u \in Registered
  /\ Begin(h, [Idle EXCEPT !.kind = "forgot", !.at = "void", !.user = u])
  /\ UNCHANGED <<account, links, sessions, time, spent>>

Resend(h, s) ==
  /\ s \in Admitted /\ ~account[s.user].verified
  /\ Begin(h, [Idle EXCEPT !.kind = "resend", !.at = "void", !.user = s.user])
  /\ UNCHANGED <<account, links, sessions, time, spent>>

Type(kind) == IF kind \in {"forgot", "reset"} THEN "reset" ELSE "verify"

LinksOf(u, type) == {l \in DOMAIN links : links[l].user = u /\ links[l].type = type}

Used(L) == [l \in DOMAIN links |-> IF l \in L THEN [links[l] EXCEPT !.used = TRUE] ELSE links[l]]

(* issueAuthToken ends the links of before and then makes another.           *)
Void(h) ==
  /\ handler[h].at = "void"
  /\ links' = Used(LinksOf(handler[h].user, Type(handler[h].kind)))
  /\ GoTo(h, "issue")
  /\ UNCHANGED <<account, sessions, requests, time, spent>>

Issue(h) ==
  LET type == Type(handler[h].kind)
      life == IF type = "reset" THEN ResetLife ELSE VerifyLife
  IN /\ handler[h].at = "issue"
     /\ links' = Append(links, [user |-> handler[h].user, type |-> type, used |-> FALSE,
                                until |-> time + life])
     /\ IF handler[h].kind = "register" THEN GoTo(h, "session") ELSE Finish(h)
     /\ UNCHANGED <<account, sessions, requests, time, spent>>

-----------------------------------------------------------------------------
(* consumeAuthToken: what it checks is written only by its next statement.   *)
Works(l, type) ==
  l \in DOMAIN links /\ links[l].type = type /\ ~links[l].used /\ links[l].until >= time

FollowLink(h, l, kind, p) ==
  /\ Works(l, kind)
  /\ Begin(h, [kind |-> kind, at |-> "use", user |-> links[l].user, link |-> l, password |-> p])
  /\ UNCHANGED <<account, links, sessions, time, spent>>

UseLink(h) ==
  /\ handler[h].at = "use"
  /\ links' = Used({handler[h].link})
  /\ GoTo(h, "write")
  /\ UNCHANGED <<account, sessions, requests, time, spent>>

WriteUser(h) ==
  LET u == handler[h].user
  IN /\ handler[h].at = "write"
     /\ account' = IF handler[h].kind = "reset"
                   THEN [account EXCEPT ![u].password = handler[h].password]
                   ELSE [account EXCEPT ![u].verified = TRUE]
     /\ GoTo(h, "end")
     /\ UNCHANGED <<links, sessions, requests, time, spent>>

(* Mutant of EndOthers: only the link that was followed is used.             *)
EndNone(h) ==
  /\ handler[h].at = "end"
  /\ spent' = IF handler[h].kind = "reset"
              THEN spent \cup LinksOf(handler[h].user, "reset") ELSE spent
  /\ Finish(h)
  /\ UNCHANGED <<account, links, sessions, requests, time>>

(* "Invalidate other outstanding reset tokens for this user".                *)
EndOthers(h) ==
  LET ended == LinksOf(handler[h].user, Type(handler[h].kind))
  IN /\ handler[h].at = "end"
     /\ links' = Used(ended)
     /\ spent' = IF handler[h].kind = "reset" THEN spent \cup ended ELSE spent
     /\ Finish(h)
     /\ UNCHANGED <<account, sessions, requests, time>>

-----------------------------------------------------------------------------
(* The server dies in the middle of a request.                               *)
Die(h) ==
  /\ handler[h] # Idle
  /\ Finish(h)
  /\ UNCHANGED <<account, links, sessions, requests, time, spent>>

Pass ==
  /\ time < MaxTime
  /\ time' = time + 1
  /\ UNCHANGED <<account, links, sessions, handler, requests, spent>>

Next ==
  \/ \E h \in Handlers :
       \/ Create(h) \/ CreateSession(h) \/ Void(h) \/ Issue(h)
       \/ UseLink(h) \/ WriteUser(h) \/ EndOthers(h) \/ Die(h)
       \/ \E p \in Passwords : Register(h, p) \/ \E u \in Users : Login(h, u, p)
       \/ \E u \in Users : Forgot(h, u)
       \/ \E s \in sessions : Resend(h, s)
       \/ \E l \in DOMAIN links :
            \/ \E p \in Passwords : FollowLink(h, l, "reset", p)
            \/ FollowLink(h, l, "verify", None)
  \/ \E s \in sessions : Logout(s)
  \/ Pass

Spec == Init /\ [][Next]_vars

-----------------------------------------------------------------------------
(* Once somebody was told that their password has been reset, no link to     *)
(* reset it that is older sets it again for a request that comes later,      *)
(* however many were issued and whatever overlapped or was cut off.  (A      *)
(* request that had read its link before still does.)                        *)
OldLinksAreDead == \A l \in spent : ~Works(l, "reset")
=============================================================================
