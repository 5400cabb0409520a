------------------------------- MODULE SignIn -------------------------------
(***************************************************************************)
(* Rate limits, captchas and sessions of one client address: everything    *)
(* that /backoffice/api/auth keeps in Redis, with expiry.  A handler makes *)
(* one Redis command after the other, other handlers run in between, and   *)
(* each command may fail before or after it took effect.                   *)
(***************************************************************************)
EXTENDS Integers, Sequences, FiniteSets

CONSTANTS
    Scopes,      \* rate limits: "login:minute", "login:hour", "api", "webhook"
    Limit,       \* requests admitted by each in a window
    Window,      \* the length of its window, in ticks
    Routes,      \* the scopes each kind of request passes, in order
    Captchas,    \* captcha ids
    NoCaptcha,   \* the captcha of a request that needs none
    Sids,        \* session ids
    Requests,    \* handlers that may run at the same time
    FaultKinds,  \* the kinds of failure that may occur
    MaxFaults    \* bound: failures in a behaviour

ASSUME SignInAssumption ==
    /\ Limit \in [Scopes -> Nat \ {0}]
    /\ Window \in [Scopes -> Nat \ {0}]
    /\ "login" \in DOMAIN Routes
    /\ \A kind \in DOMAIN Routes : Routes[kind] \in Seq(Scopes) \ {<<>>}
    /\ NoCaptcha \notin Captchas
    /\ FaultKinds \subseteq {"redis", "crash"}
    /\ MaxFaults \in Nat

VARIABLES
    counter,   \* rl:{scope}:{identifier}: the count and the time it has left
    captchas,  \* captcha:{id}: challenges that can be answered
    sessions,  \* session:{sid}: sessions that are open
    cookies,   \* session ids a client holds in a cookie
    request,   \* what each handler is doing
    faults,    \* failures so far
    admitted,  \* history: requests admitted in the current window of a scope
    counted,   \* history: handlers counted in that window and not decided yet
    answers,   \* history: how often the present challenge of an id was tested
    closed     \* history: sessions whose logout was confirmed

keys == <<counter, captchas, sessions>>
history == <<admitted, counted, answers, closed>>
vars == <<keys, cookies, request, faults, history>>

Idle == [pc |-> "idle"]
Absent == [count |-> 0, left |-> 0]   \* no such key; left = 0: it never expires

Init ==
    /\ counter = [s \in Scopes |-> Absent]
    /\ captchas = {}
    /\ sessions = {}
    /\ cookies = {}
    /\ request = [r \in Requests |-> Idle]
    /\ faults = 0
    /\ admitted = [s \in Scopes |-> 0]
    /\ counted = [s \in Scopes |-> {}]
    /\ answers = [c \in Captchas |-> 0]
    /\ closed = {}

At(r, pc) == request[r].pc = pc
Goto(r, pc) == request' = [request EXCEPT ![r].pc = pc]
Finish(r) == request' = [request EXCEPT ![r] = Idle]
Fault(kind) ==
    /\ kind \in FaultKinds
    /\ faults < MaxFaults
    /\ faults' = faults + 1

----------------------------------------------------------------------------
(* Time and clients.                                                       *)

\* One tick: a counter whose time is up is gone, and its window is over.
Tick ==
    LET ends(s) == counter[s].left = 1
    IN  /\ \E s \in Scopes : counter[s].left > 0
        /\ counter' = [s \in Scopes |->
                CASE ends(s)              -> Absent
                  [] counter[s].left > 1  -> [counter[s] EXCEPT !.left = @ - 1]
                  [] OTHER                -> counter[s]]
        /\ admitted' = [s \in Scopes |-> IF ends(s) THEN 0 ELSE admitted[s]]
        /\ counted' = [s \in Scopes |-> IF ends(s) THEN {} ELSE counted[s]]
        /\ UNCHANGED <<captchas, sessions, cookies, request, faults, answers, closed>>

ExpireCaptcha(c) ==
    /\ c \in captchas
    /\ captchas' = captchas \ {c}
    /\ UNCHANGED <<counter, sessions, cookies, request, faults, history>>

ExpireSession(sid) ==
    /\ sid \in sessions
    /\ sessions' = sessions \ {sid}
    /\ UNCHANGED <<counter, captchas, cookies, request, faults, history>>

\* A session id is in use while a cookie, a request or Redis has it; UUIDs are
\* fresh, and an id that nobody has any more stands for a new one.
InUse(sid) ==
    \/ sid \in sessions \cup cookies
    \/ \E r \in Requests : request[r].pc \in {"session", "inside"} /\ request[r].sid = sid

DropCookie(sid) ==
    /\ sid \in cookies
    /\ \A r \in Requests : request[r].pc \in {"session", "inside"} => request[r].sid # sid
    /\ cookies' = cookies \ {sid}
    /\ closed' = closed \ {sid}
    /\ UNCHANGED <<keys, request, faults, admitted, counted, answers>>

\* GET /captcha.
IssueCaptcha(c) ==
    /\ c \notin captchas
    /\ captchas' = captchas \cup {c}
    /\ answers' = [answers EXCEPT ![c] = 0]
    /\ UNCHANGED <<counter, sessions, cookies, request, faults, admitted, counted, closed>>

\* A request arrives: a login with the captcha its client has, or one of the
\* other routes that are limited.
Arrive(r, kind, c) ==
    /\ At(r, "idle")
    /\ kind = "login" <=> c # NoCaptcha
    /\ request' = [request EXCEPT ![r] =
            [pc |-> "count", todo |-> Routes[kind], captcha |-> c, count |-> 0]]
    /\ UNCHANGED <<keys, cookies, faults, history>>

\* A request with a session cookie: /me, or /logout, which needs the CSRF token
\* that was derived from the session.
UseSession(r, sid, logout, token) ==
    /\ At(r, "idle")
    /\ sid \in cookies
    /\ request' = [request EXCEPT ![r] =
            [pc |-> "session", sid |-> sid, logout |-> logout, token |-> token]]
    /\ UNCHANGED <<keys, cookies, faults, history>>

----------------------------------------------------------------------------
(* check_rate_limit: INCR, EXPIRE NX, TTL.                                 *)

Scope(r) == Head(request[r].todo)

\* The model's count stops one above the limit; all that is read is count > limit.
Raised(s) ==
    [counter[s] EXCEPT !.count = IF @ <= Limit[s] THEN @ + 1 ELSE @]

Increment(r) ==
    /\ At(r, "count")
    /\ counter' = [counter EXCEPT ![Scope(r)] = Raised(Scope(r))]
    /\ counted' = [counted EXCEPT ![Scope(r)] = @ \cup {r}]
    /\ request' = [request EXCEPT ![r].pc = "expire", ![r].count = Raised(Scope(r)).count]
    /\ UNCHANGED <<captchas, sessions, cookies, faults, admitted, answers, closed>>

\* Slip (not the code): only the first request of a window starts its time.
LimitedOnce(s, count) ==
    IF counter[s].count > 0 /\ count = 1 THEN [counter[s] EXCEPT !.left = Window[s]]
                                          ELSE counter[s]

\* EXPIRE NX: a counter that has no expiry gets one.
Limited(s, count) ==
    IF counter[s].count > 0 /\ counter[s].left = 0
    THEN [counter[s] EXCEPT !.left = Window[s]]
    ELSE counter[s]

\* Slip (not the code): an off-by-one in the comparison.
ExceededByTwo(s, count) == count > Limit[s] + 1

Exceeded(s, count) == count > Limit[s]

\* Slip (not the code): one limit more than there are.
AfterLimitsOneMore(r) == "count"

AfterLimits(r) == IF request[r].captcha = NoCaptcha THEN "done" ELSE "captcha"

\* EXPIRE and TTL, and the decision on the count that INCR answered: TTL's answer
\* only tells the client when to return, so the two are one step; EXPIRE and then
\* a failure of TTL is the failure of RedisFails that took effect.
SetExpiry(r) ==
    LET s == Scope(r)
        rest == Tail(request[r].todo)
    IN  /\ At(r, "expire")
        /\ counter' = [counter EXCEPT ![s] = Limited(s, request[r].count)]
        /\ counted' = [counted EXCEPT ![s] = @ \ {r}]
        /\ IF Exceeded(s, request[r].count)
           THEN Finish(r) /\ UNCHANGED admitted
           ELSE /\ request' = [request EXCEPT
                        ![r].pc = IF rest = <<>> THEN AfterLimits(r) ELSE "count",
                        ![r].todo = rest, ![r].count = 0]
                /\ admitted' = [admitted EXCEPT ![s] = IF r \in counted[s] THEN @ + 1 ELSE @]
        /\ UNCHANGED <<captchas, sessions, cookies, faults, answers, closed>>

\* The rest of a limited route is not modelled here.
Done(r) ==
    /\ At(r, "done")
    /\ Finish(r)
    /\ UNCHANGED <<keys, cookies, faults, history>>

----------------------------------------------------------------------------
(* POST /login after its limits.                                           *)

\* Slip (not the code): only a right answer uses the challenge up.
TakeCaptchaIfRight(c, right) ==
    /\ captchas' = IF right THEN captchas \ {c} ELSE captchas
    /\ answers' = [answers EXCEPT ![c] = @ + 1]

\* GETDEL: whoever reads the challenge removes it.
TakeCaptcha(c, right) ==
    /\ captchas' = captchas \ {c}
    /\ answers' = [answers EXCEPT ![c] = @ + 1]

VerifyCaptcha(r, right) ==
    LET c == request[r].captcha
    IN  /\ At(r, "captcha")
        /\ IF c \in captchas
           THEN /\ TakeCaptcha(c, right)
                /\ IF right THEN Goto(r, "user") ELSE Finish(r)
           ELSE Finish(r) /\ UNCHANGED <<captchas, answers>>
        /\ UNCHANGED <<counter, sessions, cookies, faults, admitted, counted, closed>>

\* The user is found, active and has the password, or not.
CheckUser(r, accepted) ==
    /\ At(r, "user")
    /\ IF accepted THEN Goto(r, "issue") ELSE Finish(r)
    /\ UNCHANGED <<keys, cookies, faults, history>>

\* SET EX, then the cookies are answered.
IssueSession(r, sid) ==
    /\ At(r, "issue")
    /\ ~InUse(sid)
    /\ sessions' = sessions \cup {sid}
    /\ cookies' = cookies \cup {sid}
    /\ Finish(r)
    /\ UNCHANGED <<counter, captchas, faults, history>>

----------------------------------------------------------------------------
(* session_auth, csrf, /me and /logout.                                    *)

\* Slip (not the code): the signed token is believed, Redis is not asked.
LetsInByToken(r) == ~request[r].logout \/ request[r].token = request[r].sid

LetsIn(r) ==
    /\ request[r].sid \in sessions
    /\ request[r].logout => request[r].token = request[r].sid

Authenticate(r) ==
    /\ At(r, "session")
    /\ IF LetsIn(r) THEN Goto(r, "inside") ELSE Finish(r)
    /\ UNCHANGED <<keys, cookies, faults, history>>

Me(r) ==
    /\ At(r, "inside")
    /\ ~request[r].logout
    /\ Finish(r)
    /\ UNCHANGED <<keys, cookies, faults, history>>

Logout(r) ==
    /\ At(r, "inside")
    /\ request[r].logout
    /\ sessions' = sessions \ {request[r].sid}
    /\ closed' = closed \cup {request[r].sid}
    /\ Finish(r)
    /\ UNCHANGED <<counter, captchas, cookies, faults, admitted, counted, answers>>

----------------------------------------------------------------------------
(* Failures.                                                               *)

\* The process dies, or the client hangs up and its handler is dropped.
Abandon(r) ==
    /\ ~At(r, "idle")
    /\ Fault("crash")
    /\ Finish(r)
    /\ counted' = [s \in Scopes |-> counted[s] \ {r}]
    /\ UNCHANGED <<keys, cookies, admitted, answers, closed>>

\* What the command of each phase has done when only its reply is lost.
TookEffect(r) ==
    \/ /\ At(r, "count")
       /\ counter' = [counter EXCEPT ![Scope(r)] = Raised(Scope(r))]
       /\ UNCHANGED <<captchas, sessions, answers>>
    \/ /\ At(r, "expire")
       /\ counter' = [counter EXCEPT ![Scope(r)] = Limited(Scope(r), request[r].count)]
       /\ UNCHANGED <<captchas, sessions, answers>>
    \/ /\ At(r, "captcha")
       /\ captchas' = captchas \ {request[r].captcha}
       /\ UNCHANGED <<counter, sessions, answers>>
    \/ /\ At(r, "issue")
       /\ \E sid \in Sids : ~InUse(sid) /\ sessions' = sessions \cup {sid}
       /\ UNCHANGED <<counter, captchas, answers>>
    \/ /\ At(r, "inside") /\ request[r].logout
       /\ sessions' = sessions \ {request[r].sid}
       /\ UNCHANGED <<counter, captchas, answers>>

\* A Redis command fails and the request is answered with an error.
RedisFails(r) ==
    /\ request[r].pc \in {"count", "expire", "captcha", "issue", "session", "inside"}
    /\ Fault("redis")
    /\ \/ UNCHANGED <<keys, answers>>
       \/ TookEffect(r)
    /\ Finish(r)
    /\ counted' = [s \in Scopes |-> counted[s] \ {r}]
    /\ UNCHANGED <<cookies, admitted, closed>>

Client ==
    \/ \E c \in Captchas : IssueCaptcha(c) \/ ExpireCaptcha(c)
    \/ \E sid \in Sids : ExpireSession(sid) \/ DropCookie(sid)
    \/ \E r \in Requests, kind \in DOMAIN Routes, c \in Captchas \cup {NoCaptcha} :
        Arrive(r, kind, c)
    \/ \E r \in Requests, sid \in Sids, logout \in BOOLEAN, token \in Sids :
        UseSession(r, sid, logout, token)

\* One step of a handler that is under way.
Handle(r) ==
    \/ Increment(r) \/ SetExpiry(r) \/ Done(r)
    \/ \E yes \in BOOLEAN : VerifyCaptcha(r, yes) \/ CheckUser(r, yes)
    \/ \E sid \in Sids : IssueSession(r, sid)
    \/ Authenticate(r) \/ Me(r) \/ Logout(r)

Next ==
    \/ Tick \/ Client
    \/ \E r \in Requests : Handle(r) \/ Abandon(r) \/ RedisFails(r)

Spec == Init /\ [][Next]_vars

\* Clocks advance, and a handler runs on.  Clients need not do anything.
FairSpec ==
    /\ Spec
    /\ WF_vars(Tick)
    /\ \A r \in Requests : WF_vars(Handle(r))

----------------------------------------------------------------------------
(* Properties.                                                             *)

Limiting == [pc : {"count", "expire", "captcha", "user", "issue", "done"},
             todo : UNION {{SubSeq(Routes[kind], i, Len(Routes[kind])) :
                                i \in 1..(Len(Routes[kind]) + 1)} : kind \in DOMAIN Routes},
             captcha : Captchas \cup {NoCaptcha}, count : Nat]
Using == [pc : {"session", "inside"}, sid : Sids, logout : BOOLEAN, token : Sids]

\* Every variable keeps its type, and a handler that counts has a scope left.
TypeOK ==
    /\ counter \in [Scopes -> [count : Nat, left : Nat]]
    /\ captchas \subseteq Captchas
    /\ sessions \subseteq Sids
    /\ cookies \subseteq Sids
    /\ request \in [Requests -> {Idle} \cup Limiting \cup Using]
    /\ \A r \in Requests : request[r].pc \in {"count", "expire"} => request[r].todo # <<>>
    /\ faults \in 0..MaxFaults
    /\ admitted \in [Scopes -> Nat]
    /\ counted \in [Scopes -> SUBSET Requests]
    /\ answers \in [Captchas -> Nat]
    /\ closed \subseteq Sids

\* phase-1-auth-plan.md:32 - of the requests counted in one window no more than
\* the limit are admitted, however the commands of racing handlers interleave.
WithinLimit == \A s \in Scopes : admitted[s] <= Limit[s]

\* phase-1-auth-plan.md:36 - a challenge is answered once: of two logins that
\* race with one captcha, or one that retries, a single one is tested.
OneAnswerPerCaptcha == \A c \in Captchas : answers[c] <= 1

\* goals.md:266 - once a logout is confirmed, no request is let in with its
\* session any more, although the client's token is still signed and valid.
ClosedStaysClosed ==
    [][\A r \in Requests :
        At(r, "session") /\ request'[r].pc = "inside" => request[r].sid \notin closed]_vars

Locked(s) == counter[s].count > Limit[s]
CountedAt(s) == \E r \in Requests : At(r, "count") /\ Scope(r) = s /\ Increment(r)

\* A client that keeps trying is not locked out for ever: its tries do not renew
\* the window, and a counter left without expiry by a failure gets one.
LockoutEnds ==
    \A s \in Scopes :
        []<><<CountedAt(s)>>_vars => (Locked(s) ~> ~Locked(s))
=============================================================================
