---------------------------- MODULE SignInProofs ----------------------------
(***************************************************************************)
(* Theorems about SignIn, for any number of handlers, captchas, sessions   *)
(* and failures.                                                           *)
(***************************************************************************)
EXTENDS SignIn, FiniteSetTheorems, SequenceTheorems, TLAPS

----------------------------------------------------------------------------
(* A challenge is answered once.                                           *)

\* A challenge that can still be answered has not been tested.
CaptchaInv ==
    /\ captchas \subseteq Captchas
    /\ answers \in [Captchas -> {0, 1}]
    /\ \A c \in captchas : answers[c] = 0

\* Only four steps touch a challenge: it is issued, it expires, it is taken and
\* tested, or it is taken and the reply is lost.
LEMMA CaptchaSteps ==
    ASSUME Next
    PROVE  \/ UNCHANGED <<captchas, answers>>
           \/ \E c \in Captchas : captchas' = captchas \cup {c}
                                  /\ answers' = [answers EXCEPT ![c] = 0]
           \/ \E c \in captchas : captchas' = captchas \ {c}
                                  /\ answers' = [answers EXCEPT ![c] = @ + 1]
           \/ \E c : captchas' = captchas \ {c} /\ answers' = answers
<1> USE DEF keys, history
<1>1. CASE Tick
  BY <1>1 DEF Tick
<1>2. CASE Client
  BY <1>2 DEF Client, IssueCaptcha, ExpireCaptcha, ExpireSession, DropCookie, Arrive, UseSession
<1>3. ASSUME NEW r \in Requests, Handle(r)
      PROVE  \/ UNCHANGED <<captchas, answers>>
             \/ \E c \in captchas : captchas' = captchas \ {c}
                                    /\ answers' = [answers EXCEPT ![c] = @ + 1]
  <2>1. ASSUME NEW yes \in BOOLEAN, VerifyCaptcha(r, yes)
        PROVE  \/ UNCHANGED <<captchas, answers>>
               \/ \E c \in captchas : captchas' = captchas \ {c}
                                      /\ answers' = [answers EXCEPT ![c] = @ + 1]
    BY <2>1 DEF VerifyCaptcha, TakeCaptcha
  <2>2. CASE ~\E yes \in BOOLEAN : VerifyCaptcha(r, yes)
    BY <1>3, <2>2
    DEF Handle, Increment, SetExpiry, Done, CheckUser, IssueSession, Authenticate, Me, Logout
  <2> QED
    BY <2>1, <2>2
<1>4. ASSUME NEW r \in Requests, Abandon(r) \/ RedisFails(r)
      PROVE  \/ UNCHANGED <<captchas, answers>>
             \/ \E c : captchas' = captchas \ {c} /\ answers' = answers
  BY <1>4 DEF Abandon, RedisFails, TookEffect
<1> QED
  BY <1>1, <1>2, <1>3, <1>4 DEF Next

\* It is inductive.
LEMMA CaptchaStep == CaptchaInv /\ [Next]_vars => CaptchaInv'
<1> SUFFICES ASSUME CaptchaInv, [Next]_vars PROVE CaptchaInv'
  OBVIOUS
<1>1. CASE UNCHANGED <<captchas, answers>>
  BY <1>1 DEF CaptchaInv
<1>2. ASSUME NEW c \in Captchas, captchas' = captchas \cup {c},
             answers' = [answers EXCEPT ![c] = 0]
      PROVE  CaptchaInv'
  BY <1>2 DEF CaptchaInv
<1>3. ASSUME NEW c \in captchas, captchas' = captchas \ {c},
             answers' = [answers EXCEPT ![c] = @ + 1]
      PROVE  CaptchaInv'
  <2>1. c \in Captchas /\ answers[c] = 0
    BY DEF CaptchaInv
  <2> QED
    BY <1>3, <2>1 DEF CaptchaInv
<1>4. ASSUME NEW c, captchas' = captchas \ {c}, answers' = answers
      PROVE  CaptchaInv'
  BY <1>4 DEF CaptchaInv
<1>5. CASE UNCHANGED vars
  BY <1>1, <1>5 DEF vars, keys, history
<1> QED
  BY <1>1, <1>2, <1>3, <1>4, <1>5, CaptchaSteps

\* Of any number of logins that race with one captcha, one is tested: GETDEL
\* reads the challenge and removes it in one command, right or wrong.
THEOREM CaptchasAreAnsweredOnce == Spec => []OneAnswerPerCaptcha
<1>1. Init => CaptchaInv
  BY DEF Init, CaptchaInv
<1>2. CaptchaInv => OneAnswerPerCaptcha
  BY DEF CaptchaInv, OneAnswerPerCaptcha
<1> QED
  BY <1>1, <1>2, CaptchaStep, PTL DEF Spec

----------------------------------------------------------------------------
(* A closed session stays closed.                                          *)

Inside(h) == h.pc \in {"session", "inside"}

\* A confirmed logout is of a session some client still has the cookie of, so
\* its id is not issued again, and the session is gone from Redis.
SessionInv ==
    /\ DOMAIN request = Requests
    /\ \A r \in Requests : "pc" \in DOMAIN request[r]
    /\ \A r \in Requests : Inside(request[r]) =>
            "sid" \in DOMAIN request[r] /\ request[r].sid \in cookies
    /\ closed \subseteq cookies
    /\ closed \cap sessions = {}

\* A step of a handler changes its own entry only.
LEMMA OneEntry ==
    ASSUME DOMAIN request = Requests, NEW r \in Requests, NEW h,
           request' = [request EXCEPT ![r] = h]
    PROVE  /\ DOMAIN request' = Requests
           /\ request'[r] = h
           /\ \A q \in Requests \ {r} : request'[q] = request[q]
  OBVIOUS

\* What a handler that is under way may turn into: it has left the session
\* routes, or it was let in with an open session.
Turns(r, h) ==
    /\ "pc" \in DOMAIN h
    /\ \/ ~Inside(h)
       \/ /\ request[r].pc = "session"
          /\ request[r].sid \in sessions
          /\ "sid" \in DOMAIN h
          /\ h.sid = request[r].sid

\* Moving on, or ending, is such a turn.
LEMMA TurnsTo ==
    ASSUME SessionInv, NEW r \in Requests
    PROVE  /\ Turns(r, Idle)
           /\ \A pc : ~(pc \in {"session", "inside"}) => Turns(r, [request[r] EXCEPT !.pc = pc])
           /\ \A pc, count : ~(pc \in {"session", "inside"})
                => Turns(r, [request[r] EXCEPT !.pc = pc, !.count = count])
           /\ \A pc, todo, count : ~(pc \in {"session", "inside"})
                => Turns(r, [request[r] EXCEPT !.pc = pc, !.todo = todo, !.count = count])
           /\ At(r, "session") /\ request[r].sid \in sessions
                => Turns(r, [request[r] EXCEPT !.pc = "inside"])
<1>1. "pc" \in DOMAIN request[r]
  BY DEF SessionInv
<1>2. Turns(r, Idle)
  BY DEF Turns, Idle, Inside
<1>3. ASSUME NEW pc, NEW todo, NEW count, ~(pc \in {"session", "inside"})
      PROVE  /\ Turns(r, [request[r] EXCEPT !.pc = pc])
             /\ Turns(r, [request[r] EXCEPT !.pc = pc, !.count = count])
             /\ Turns(r, [request[r] EXCEPT !.pc = pc, !.todo = todo, !.count = count])
  BY <1>1, <1>3 DEF Turns, Inside
<1>4. ASSUME At(r, "session"), request[r].sid \in sessions
      PROVE  Turns(r, [request[r] EXCEPT !.pc = "inside"])
  BY <1>1, <1>4 DEF Turns, At, Inside, SessionInv
<1> QED
  BY <1>2, <1>3, <1>4

\* Every step of a handler under way is a turn of its own entry.
LEMMA HandlerTurns ==
    ASSUME SessionInv, NEW r \in Requests, Handle(r) \/ Abandon(r) \/ RedisFails(r)
    PROVE  \E h : request' = [request EXCEPT ![r] = h] /\ Turns(r, h)
<1>1. CASE Finish(r)
  BY <1>1, TurnsTo DEF Finish
<1>2. ASSUME NEW pc, ~(pc \in {"session", "inside"}), Goto(r, pc)
      PROVE  \E h : request' = [request EXCEPT ![r] = h] /\ Turns(r, h)
  <2>1. request' = [request EXCEPT ![r] = [request[r] EXCEPT !.pc = pc]]
    BY <1>2 DEF Goto
  <2> QED
    BY <1>2, <2>1, TurnsTo
<1>3. CASE Increment(r)
  <2> DEFINE h == [request[r] EXCEPT !.pc = "expire", !.count = Raised(Scope(r)).count]
  <2>1. request' = [request EXCEPT ![r] = h]
    BY <1>3 DEF Increment
  <2>2. Turns(r, h)
    BY TurnsTo
  <2> QED
    BY <2>1, <2>2
<1>4. CASE SetExpiry(r) /\ ~Finish(r)
  <2> DEFINE rest == Tail(request[r].todo)
             pc == IF rest = <<>> THEN AfterLimits(r) ELSE "count"
             h == [request[r] EXCEPT !.pc = pc, !.todo = rest, !.count = 0]
  <2>1. request' = [request EXCEPT ![r] = h]
    BY <1>4 DEF SetExpiry
  <2>2. ~(pc \in {"session", "inside"})
    BY DEF AfterLimits
  <2>3. Turns(r, h)
    BY <2>2, TurnsTo
  <2> QED
    BY <2>1, <2>3
<1>5. CASE Authenticate(r) /\ ~Finish(r)
  <2>1. request' = [request EXCEPT ![r] = [request[r] EXCEPT !.pc = "inside"]]
    BY <1>5 DEF Authenticate, Goto
  <2>2. At(r, "session") /\ request[r].sid \in sessions
    BY <1>5 DEF Authenticate, LetsIn
  <2> QED
    BY <2>1, <2>2, TurnsTo
<1>6. ASSUME NEW yes \in BOOLEAN, VerifyCaptcha(r, yes) \/ CheckUser(r, yes)
      PROVE  \E h : request' = [request EXCEPT ![r] = h] /\ Turns(r, h)
  BY <1>1, <1>2, <1>6 DEF VerifyCaptcha, CheckUser
<1> QED
  BY <1>1, <1>3, <1>4, <1>5, <1>6
  DEF Handle, Done, IssueSession, Me, Logout, Abandon, RedisFails

\* The cookies, sessions and confirmed logouts after a step of a handler.
LEMMA SessionSets ==
    ASSUME SessionInv, NEW r \in Requests, Handle(r) \/ Abandon(r) \/ RedisFails(r)
    PROVE  /\ cookies \subseteq cookies'
           /\ closed' \subseteq cookies'
           /\ closed' \cap sessions' = {}
<1> USE DEF keys, history
<1>1. CASE UNCHANGED <<cookies, sessions, closed>>
  BY <1>1 DEF SessionInv
<1>2. ASSUME NEW sid \in Sids, ~InUse(sid), sessions' = sessions \cup {sid},
             cookies' \in {cookies, cookies \cup {sid}}, closed' = closed
      PROVE  /\ cookies \subseteq cookies'
             /\ closed' \subseteq cookies'
             /\ closed' \cap sessions' = {}
  BY <1>2 DEF InUse, SessionInv
<1>3. CASE /\ request[r].pc = "inside"
           /\ sessions' = sessions \ {request[r].sid}
           /\ closed' \in {closed, closed \cup {request[r].sid}}
           /\ cookies' = cookies
  BY <1>3 DEF SessionInv, Inside
<1>4. CASE Handle(r)
  <2>1. CASE \E sid \in Sids : IssueSession(r, sid)
    BY <2>1, <1>2 DEF IssueSession
  <2>2. CASE Logout(r)
    BY <2>2, <1>3 DEF Logout, At
  <2> QED
    BY <1>1, <1>4, <2>1, <2>2
    DEF Handle, Increment, SetExpiry, Done, VerifyCaptcha, CheckUser, Authenticate, Me
<1>5. CASE RedisFails(r)
  BY <1>1, <1>2, <1>3, <1>5 DEF RedisFails, TookEffect, At
<1>6. CASE Abandon(r)
  BY <1>1, <1>6 DEF Abandon
<1> QED
  BY <1>4, <1>5, <1>6

\* The invariant is inductive.
LEMMA SessionStep == SessionInv /\ [Next]_vars => SessionInv'
<1> SUFFICES ASSUME SessionInv, [Next]_vars PROVE SessionInv'
  OBVIOUS
<1>1. CASE UNCHANGED <<request, cookies, sessions, closed>>
  BY <1>1 DEF SessionInv, Inside
<1>2. ASSUME NEW r \in Requests, Handle(r) \/ Abandon(r) \/ RedisFails(r)
      PROVE  SessionInv'
  <2>1. PICK h : request' = [request EXCEPT ![r] = h] /\ Turns(r, h)
    BY <1>2, HandlerTurns
  <2>2. /\ DOMAIN request' = Requests
        /\ request'[r] = h
        /\ \A q \in Requests \ {r} : request'[q] = request[q]
    BY <2>1, OneEntry DEF SessionInv
  <2>3. /\ cookies \subseteq cookies'
        /\ closed' \subseteq cookies'
        /\ closed' \cap sessions' = {}
    BY <1>2, SessionSets
  <2>4. Inside(h) => "sid" \in DOMAIN h /\ h.sid \in cookies
    BY <2>1 DEF Turns, SessionInv, Inside
  <2> QED
    BY <2>1, <2>2, <2>3, <2>4 DEF SessionInv, Turns
<1>3. ASSUME NEW r \in Requests, NEW kind, NEW c, Arrive(r, kind, c)
      PROVE  SessionInv'
  <2> DEFINE h == [pc |-> "count", todo |-> Routes[kind], captcha |-> c, count |-> 0]
  <2>1. request' = [request EXCEPT ![r] = h] /\ UNCHANGED <<cookies, sessions, closed>>
    BY <1>3 DEF Arrive, keys, history
  <2>2. "pc" \in DOMAIN h /\ ~Inside(h)
    BY DEF Inside
  <2> HIDE DEF h
  <2> QED
    BY <2>1, <2>2, OneEntry DEF SessionInv
<1>4. ASSUME NEW r \in Requests, NEW sid, NEW logout, NEW token,
             UseSession(r, sid, logout, token)
      PROVE  SessionInv'
  <2> DEFINE h == [pc |-> "session", sid |-> sid, logout |-> logout, token |-> token]
  <2>1. request' = [request EXCEPT ![r] = h] /\ UNCHANGED <<cookies, sessions, closed>>
    BY <1>4 DEF UseSession, keys, history
  <2>2. "pc" \in DOMAIN h /\ "sid" \in DOMAIN h /\ h.sid \in cookies
    BY <1>4 DEF UseSession
  <2> HIDE DEF h
  <2> QED
    BY <2>1, <2>2, OneEntry DEF SessionInv
<1>5. ASSUME NEW sid \in Sids, ExpireSession(sid) \/ DropCookie(sid)
      PROVE  SessionInv'
  BY <1>5 DEF ExpireSession, DropCookie, SessionInv, Inside, keys, history
<1>6. CASE Client
  <2>1. CASE \E c \in Captchas : IssueCaptcha(c) \/ ExpireCaptcha(c)
    BY <1>1, <2>1 DEF IssueCaptcha, ExpireCaptcha, history
  <2> QED
    BY <1>3, <1>4, <1>5, <1>6, <2>1 DEF Client
<1> QED
  BY <1>1, <1>2, <1>6 DEF Next, Tick, vars, keys, history

\* It holds at first.
LEMMA SessionInit == Init => SessionInv
  BY DEF Init, SessionInv, Idle, Inside

\* Who is let in had an open session, and a session with a confirmed logout is
\* not open, whatever tokens are still valid.
LEMMA LetInStep ==
    ASSUME SessionInv, [Next]_vars, NEW r \in Requests,
           At(r, "session"), request'[r].pc = "inside"
    PROVE  request[r].sid \notin closed
<1>1. request'[r] # request[r]
  BY DEF At
<1>2. CASE Client
  <2>1. ASSUME NEW q \in Requests, NEW h, request' = [request EXCEPT ![q] = h], At(q, "idle")
        PROVE  FALSE
    BY <1>1, <2>1 DEF At, SessionInv
  <2>2. UNCHANGED request \/ \E q \in Requests : \E h :
            request' = [request EXCEPT ![q] = h] /\ At(q, "idle")
    BY <1>2 DEF Client, IssueCaptcha, ExpireCaptcha, ExpireSession, DropCookie, Arrive, UseSession
  <2> QED
    BY <1>1, <2>1, <2>2
<1>3. ASSUME NEW q \in Requests, Handle(q) \/ Abandon(q) \/ RedisFails(q)
      PROVE  request[r].sid \in sessions
  <2>1. PICK h : request' = [request EXCEPT ![q] = h] /\ Turns(q, h)
    BY <1>3, HandlerTurns
  <2>2. /\ request'[q] = h
        /\ \A i \in Requests \ {q} : request'[i] = request[i]
    BY <2>1, OneEntry DEF SessionInv
  <2>3. q = r /\ Inside(h)
    BY <1>1, <2>2 DEF Inside
  <2> QED
    BY <2>1, <2>3 DEF Turns
<1>4. ~(Tick \/ UNCHANGED vars)
  BY <1>1 DEF Tick, vars
<1> QED
  BY <1>2, <1>3, <1>4 DEF Next, SessionInv

\* goals.md:266 for any number of clients and handlers: a confirmed logout ends
\* the session before its token expires.
THEOREM LogoutsAreFinal == Spec => ClosedStaysClosed
<1>1. SessionInv /\ [Next]_vars
        => [\A r \in Requests : At(r, "session") /\ request'[r].pc = "inside"
                => request[r].sid \notin closed]_vars
  BY LetInStep
<1> QED
  BY <1>1, SessionInit, SessionStep, PTL DEF Spec, ClosedStaysClosed
----------------------------------------------------------------------------
(* Types.                                                                  *)

\* What is left of a route: its scopes from some index on.
Todos == UNION {{SubSeq(Routes[kind], i, Len(Routes[kind])) :
                    i \in 1..(Len(Routes[kind]) + 1)} : kind \in DOMAIN Routes}

\* A request that passes its limits.
LEMMA LimitingIs ==
    Limiting = [pc : {"count", "expire", "captcha", "user", "issue", "done"},
                todo : Todos, captcha : Captchas \cup {NoCaptcha}, count : Nat]
  BY DEF Limiting, Todos

\* A whole route is left at first ...
LEMMA RouteIsTodo ==
    ASSUME NEW kind \in DOMAIN Routes
    PROVE  Routes[kind] \in Todos /\ Routes[kind] # <<>>
<1>1. Routes[kind] \in Seq(Scopes) /\ Routes[kind] # <<>>
  BY SignInAssumption
<1>2. Len(Routes[kind]) \in Nat /\ 1 \in 1..(Len(Routes[kind]) + 1)
  BY <1>1
<1>3. SubSeq(Routes[kind], 1, Len(Routes[kind])) = Routes[kind]
  BY <1>1, SubSeqFull
<1> QED
  BY <1>1, <1>2, <1>3 DEF Todos

\* ... and the next scope is the head of what is left, which goes on with the tail.
LEMMA NextTodo ==
    ASSUME NEW t \in Todos, t # <<>>
    PROVE  Head(t) \in Scopes /\ Tail(t) \in Todos
<1>1. PICK kind \in DOMAIN Routes :
          \E i \in 1..(Len(Routes[kind]) + 1) : t = SubSeq(Routes[kind], i, Len(Routes[kind]))
  BY DEF Todos
<1> DEFINE q == Routes[kind]
           n == Len(q)
<1>2. PICK i \in 1..(n + 1) : t = SubSeq(q, i, n)
  BY <1>1
<1>3. q \in Seq(Scopes) /\ n \in Nat
  BY SignInAssumption
<1>4. i # n + 1
  <2>1. n < n + 1 /\ n \in Int /\ n + 1 \in Int
    BY <1>3
  <2>2. SubSeq(q, n + 1, n) = <<>>
    BY <2>1, SubSeqEmpty
  <2> QED
    BY <1>2, <2>2
<1>5. i \in 1..n /\ n \in i..n /\ i + 1 \in 1..(n + 1)
  BY <1>3, <1>4
<1> HIDE DEF q
<1>6. Head(t) = q[i] /\ Tail(t) = SubSeq(q, i + 1, n)
  BY <1>2, <1>3, <1>5, HeadTailOfSubSeq
<1>7. q[i] \in Scopes
  BY <1>3, <1>5
<1>8. SubSeq(q, i + 1, n) \in Todos
  <2>1. \A k \in 1..(Len(Routes[kind]) + 1) : SubSeq(Routes[kind], k, Len(Routes[kind])) \in Todos
    BY DEF Todos
  <2> QED
    BY <1>5, <2>1 DEF q
<1> QED
  BY <1>6, <1>7, <1>8

\* What a handler may be doing.
Entry(h) ==
    /\ h \in {Idle} \cup Limiting \cup Using
    /\ h.pc \in {"count", "expire"} => h.todo # <<>>

\* The kind of an entry tells its fields.
LEMMA EntryKinds ==
    ASSUME NEW h, Entry(h)
    PROVE  /\ h.pc \in {"count", "expire", "captcha", "user", "issue", "done"} => h \in Limiting
           /\ h.pc \in {"session", "inside"} => h \in Using
           /\ h.pc \in {"count", "expire"} => Head(h.todo) \in Scopes /\ Tail(h.todo) \in Todos
                                              /\ h.count \in Nat
<1>1. h = Idle \/ h \in Limiting \/ h \in Using
  BY DEF Entry
<1>2. /\ h.pc \in {"count", "expire", "captcha", "user", "issue", "done"} => h \in Limiting
      /\ h.pc \in {"session", "inside"} => h \in Using
  BY <1>1, LimitingIs DEF Idle, Using
<1>3. h \in Limiting => h.todo \in Todos /\ h.count \in Nat
  BY LimitingIs
<1> QED
  BY <1>2, <1>3, NextTodo DEF Entry

\* An entry that moves on is an entry.
LEMMA EntryMoves ==
    ASSUME NEW h \in Limiting, NEW n \in Nat, NEW t \in Todos
    PROVE  /\ \A pc \in {"captcha", "user", "issue", "done"} : Entry([h EXCEPT !.pc = pc])
           /\ h.todo # <<>> => Entry([h EXCEPT !.pc = "expire", !.count = n])
           /\ \A pc \in {"count", "captcha", "done"} :
                  (pc = "count" => t # <<>>) => Entry([h EXCEPT !.pc = pc, !.todo = t, !.count = n])
  BY LimitingIs DEF Entry

\* The types, with the entries named.
Types ==
    /\ counter \in [Scopes -> [count : Nat, left : Nat]]
    /\ captchas \subseteq Captchas
    /\ sessions \subseteq Sids
    /\ cookies \subseteq Sids
    /\ DOMAIN request = Requests /\ request = [r \in Requests |-> request[r]]
    /\ \A r \in Requests : Entry(request[r])
    /\ faults \in 0..MaxFaults
    /\ admitted \in [Scopes -> Nat]
    /\ counted \in [Scopes -> SUBSET Requests]
    /\ answers \in [Captchas -> Nat]
    /\ closed \subseteq Sids

\* They are the types that the runs check.
LEMMA TypesAreTypeOK == Types => TypeOK
<1> SUFFICES ASSUME Types PROVE TypeOK
  OBVIOUS
<1>1. request \in [Requests -> {Idle} \cup Limiting \cup Using]
  <2> DEFINE S == {Idle} \cup Limiting \cup Using
  <2>1. \A r \in Requests : request[r] \in S
    BY DEF Types, Entry
  <2> HIDE DEF S
  <2>2. request \in [Requests -> S]
    BY <2>1 DEF Types
  <2> QED
    BY <2>2 DEF S
<1> QED
  BY <1>1 DEF Types, TypeOK, Entry

\* A step of one handler changes its own entry.
LEMMA EntryUpdate ==
    ASSUME Types, NEW r \in Requests, NEW h, Entry(h), request' = [request EXCEPT ![r] = h]
    PROVE  /\ DOMAIN request' = Requests /\ request' = [q \in Requests |-> request'[q]]
           /\ \A q \in Requests : Entry(request'[q])
           /\ request'[r] = h
           /\ \A q \in Requests \ {r} : request'[q] = request[q]
  BY DEF Types

\* A handler's step leads it to an entry.
LEMMA HandlerEntry ==
    ASSUME Types, NEW r \in Requests, Handle(r) \/ Abandon(r) \/ RedisFails(r)
    PROVE  \E h : Entry(h) /\ request' = [request EXCEPT ![r] = h]
<1> DEFINE e == request[r]
<1>0. Entry(e) /\ Entry(Idle)
  BY DEF Types, Entry, Idle
<1>1. CASE Finish(r)
  BY <1>0, <1>1 DEF Finish
<1>2. ASSUME NEW pc \in {"user", "issue"}, Goto(r, pc), At(r, "captcha") \/ At(r, "user")
      PROVE  \E h : Entry(h) /\ request' = [request EXCEPT ![r] = h]
  <2>1. e \in Limiting
    BY <1>0, <1>2, EntryKinds DEF At
  <2>2. e.todo \in Todos /\ 0 \in Nat
    BY <2>1, LimitingIs
  <2>3. Entry([e EXCEPT !.pc = pc])
    BY <2>1, <2>2, EntryMoves
  <2> QED
    BY <1>2, <2>3 DEF Goto
<1>3. CASE Increment(r)
  <2>1. e \in Limiting /\ e.todo # <<>> /\ Scope(r) \in Scopes
    BY <1>0, <1>3, EntryKinds DEF Increment, At, Entry, Scope
  <2>2. Raised(Scope(r)).count \in Nat /\ e.todo \in Todos
    BY <2>1, LimitingIs DEF Types, Raised
  <2>3. Entry([e EXCEPT !.pc = "expire", !.count = Raised(Scope(r)).count])
    BY <2>1, <2>2, EntryMoves
  <2>4. request' = [request EXCEPT ![r] = [e EXCEPT !.pc = "expire", !.count = Raised(Scope(r)).count]]
    BY <1>3 DEF Increment
  <2> QED
    BY <2>3, <2>4
<1>4. CASE SetExpiry(r) /\ ~Finish(r)
  <2> DEFINE rest == Tail(e.todo)
             pc == IF rest = <<>> THEN AfterLimits(r) ELSE "count"
  <2>1. e \in Limiting /\ rest \in Todos
    BY <1>0, <1>4, EntryKinds DEF SetExpiry, At
  <2>2. pc \in {"count", "captcha", "done"} /\ (pc = "count" => rest # <<>>)
    BY DEF AfterLimits
  <2>3. request' = [request EXCEPT ![r] = [e EXCEPT !.pc = pc, !.todo = rest, !.count = 0]]
    BY <1>4 DEF SetExpiry
  <2>4. Entry([e EXCEPT !.pc = pc, !.todo = rest, !.count = 0])
    <3> HIDE DEF rest, pc
    <3> QED
      BY <2>1, <2>2, EntryMoves
  <2> QED
    BY <2>3, <2>4
<1>5. CASE Authenticate(r) /\ ~Finish(r)
  <2>1. e \in Using
    BY <1>0, <1>5, EntryKinds DEF Authenticate, At
  <2>2. Entry([e EXCEPT !.pc = "inside"])
    BY <2>1 DEF Using, Entry
  <2> QED
    BY <1>5, <2>2 DEF Authenticate, Goto
<1>6. ASSUME NEW yes \in BOOLEAN, VerifyCaptcha(r, yes) \/ CheckUser(r, yes)
      PROVE  \E h : Entry(h) /\ request' = [request EXCEPT ![r] = h]
  BY <1>1, <1>2, <1>6 DEF VerifyCaptcha, CheckUser
<1> QED
  BY <1>1, <1>3, <1>4, <1>5, <1>6
  DEF Handle, Done, IssueSession, Me, Logout, Abandon, RedisFails

\* A counter keeps its type when it is raised or given its time.
LEMMA CounterType ==
    ASSUME Types, NEW s \in Scopes, NEW n
    PROVE  /\ Raised(s) \in [count : Nat, left : Nat]
           /\ Limited(s, n) \in [count : Nat, left : Nat]
           /\ Raised(s).left = counter[s].left /\ Limited(s, n).count = counter[s].count
           /\ Raised(s).count = IF counter[s].count <= Limit[s] THEN counter[s].count + 1
                                                                ELSE counter[s].count
<1>1. counter[s] \in [count : Nat, left : Nat] /\ Window[s] \in Nat /\ Limit[s] \in Nat
  BY SignInAssumption DEF Types
<1> QED
  BY <1>1 DEF Raised, Limited

\* One counter replaced.
LEMMA CounterUpdate ==
    ASSUME Types, NEW s \in Scopes, NEW c \in [count : Nat, left : Nat],
           counter' = [counter EXCEPT ![s] = c]
    PROVE  counter' \in [Scopes -> [count : Nat, left : Nat]]
  BY DEF Types

\* One failure more.
LEMMA FaultsType ==
    ASSUME Types, NEW kind, Fault(kind)
    PROVE  faults' \in 0..MaxFaults
  BY SignInAssumption DEF Types, Fault

\* What a handler's step does outside its entry keeps its type.
LEMMA HandlerTypes ==
    ASSUME Types, NEW r \in Requests, Handle(r) \/ Abandon(r) \/ RedisFails(r)
    PROVE  Types'
<1> USE DEF keys, history
<1>0. Entry(request[r])
  BY DEF Types
<1>s. At(r, "count") \/ At(r, "expire") => Scope(r) \in Scopes
  BY <1>0, EntryKinds DEF At, Scope
<1>u. At(r, "session") \/ At(r, "inside") => request[r].sid \in Sids
  BY <1>0, EntryKinds DEF At, Using
<1> DEFINE Rest == /\ counter' \in [Scopes -> [count : Nat, left : Nat]]
                   /\ captchas' \subseteq Captchas
                   /\ sessions' \subseteq Sids
                   /\ cookies' \subseteq Sids
                   /\ faults' \in 0..MaxFaults
                   /\ admitted' \in [Scopes -> Nat]
                   /\ counted' \in [Scopes -> SUBSET Requests]
                   /\ answers' \in [Captchas -> Nat]
                   /\ closed' \subseteq Sids
<1>1. CASE Increment(r)
  <2>1. Scope(r) \in Scopes /\ Raised(Scope(r)) \in [count : Nat, left : Nat]
    BY <1>s, <1>1, CounterType DEF Increment
  <2>2. counter' \in [Scopes -> [count : Nat, left : Nat]]
    BY <1>1, <2>1, CounterUpdate DEF Increment
  <2>3. Rest
    BY <1>1, <2>1, <2>2 DEF Increment, Types
  <2> QED
    BY <1>1, <2>3, HandlerEntry, EntryUpdate DEF Types
<1>2. CASE SetExpiry(r)
  <2>1. Scope(r) \in Scopes /\ Limited(Scope(r), request[r].count) \in [count : Nat, left : Nat]
    BY <1>s, <1>2, CounterType DEF SetExpiry
  <2>2. counter' \in [Scopes -> [count : Nat, left : Nat]]
    BY <1>2, <2>1, CounterUpdate DEF SetExpiry
  <2>3. admitted' \in [Scopes -> Nat]
    BY <1>2, <2>1 DEF SetExpiry, Types
  <2>4. Rest
    BY <1>2, <2>1, <2>2, <2>3 DEF SetExpiry, Types
  <2> QED
    BY <1>2, <2>4, HandlerEntry, EntryUpdate DEF Types
<1>3. ASSUME NEW yes \in BOOLEAN, VerifyCaptcha(r, yes) PROVE Types'
  <2>1. captchas' \subseteq Captchas /\ answers' \in [Captchas -> Nat]
    BY <1>3 DEF VerifyCaptcha, TakeCaptcha, Types
  <2>2. Rest
    BY <1>3, <2>1 DEF VerifyCaptcha, Types
  <2> QED
    BY <2>2, HandlerEntry, EntryUpdate DEF Types
<1>4. CASE Handle(r) /\ UNCHANGED <<keys, cookies, faults, history>>
  <2>1. Rest
    BY <1>4 DEF Types
  <2> QED
    BY <2>1, HandlerEntry, EntryUpdate DEF Types
<1>5. ASSUME NEW sid \in Sids, IssueSession(r, sid) PROVE Types'
  <2>1. Rest
    BY <1>5 DEF IssueSession, Types
  <2> QED
    BY <2>1, HandlerEntry, EntryUpdate DEF Types
<1>6. CASE Logout(r)
  <2>1. Rest
    BY <1>u, <1>6 DEF Logout, Types
  <2> QED
    BY <2>1, HandlerEntry, EntryUpdate DEF Types
<1>7. CASE Abandon(r)
  <2>1. faults' \in 0..MaxFaults
    BY <1>7, FaultsType DEF Abandon
  <2>2. counted' \in [Scopes -> SUBSET Requests]
    BY <1>7 DEF Abandon, Types
  <2>3. Rest
    BY <1>7, <2>1, <2>2 DEF Abandon, Types
  <2> QED
    BY <2>3, HandlerEntry, EntryUpdate DEF Types
<1>8. CASE RedisFails(r)
  <2>1. faults' \in 0..MaxFaults
    BY <1>8, FaultsType DEF RedisFails
  <2>2. counted' \in [Scopes -> SUBSET Requests]
    BY <1>8 DEF RedisFails, Types
  <2>3. counter' \in [Scopes -> [count : Nat, left : Nat]]
    <3>1. CASE counter' = counter
      BY <3>1 DEF Types
    <3>2. CASE At(r, "count") /\ counter' = [counter EXCEPT ![Scope(r)] = Raised(Scope(r))]
      BY <1>s, <3>2, CounterType, CounterUpdate
    <3>3. CASE /\ At(r, "expire")
               /\ counter' = [counter EXCEPT ![Scope(r)] = Limited(Scope(r), request[r].count)]
      BY <1>s, <3>3, CounterType, CounterUpdate
    <3> QED
      BY <1>8, <3>1, <3>2, <3>3 DEF RedisFails, TookEffect
  <2>4. captchas' \subseteq Captchas /\ sessions' \subseteq Sids /\ answers' = answers
    BY <1>8 DEF RedisFails, TookEffect, Types
  <2>5. Rest
    BY <1>8, <2>1, <2>2, <2>3, <2>4 DEF RedisFails, Types
  <2> QED
    BY <2>5, HandlerEntry, EntryUpdate DEF Types
<1> QED
  BY <1>1, <1>2, <1>3, <1>4, <1>5, <1>6, <1>7, <1>8
  DEF Handle, Done, CheckUser, Authenticate, Me

\* Every step keeps the types.
LEMMA TypesStep == Types /\ [Next]_vars => Types'
<1> SUFFICES ASSUME Types, [Next]_vars PROVE Types'
  OBVIOUS
<1> USE DEF keys, history
<1>1. CASE UNCHANGED vars
  BY <1>1 DEF vars, Types
<1>2. CASE Tick
  <2>1. counter' \in [Scopes -> [count : Nat, left : Nat]]
    <3> SUFFICES ASSUME NEW s \in Scopes
                 PROVE  (CASE counter[s].left = 1     -> Absent
                           [] counter[s].left > 1     -> [counter[s] EXCEPT !.left = @ - 1]
                           [] OTHER                   -> counter[s]) \in [count : Nat, left : Nat]
      BY <1>2 DEF Tick
    <3>1. counter[s] \in [count : Nat, left : Nat]
      BY DEF Types
    <3>2. Absent \in [count : Nat, left : Nat]
      BY DEF Absent
    <3>3. counter[s].left > 1 => [counter[s] EXCEPT !.left = @ - 1] \in [count : Nat, left : Nat]
      BY <3>1
    <3> QED
      BY <3>1, <3>2, <3>3
  <2>2. admitted' \in [Scopes -> Nat] /\ counted' \in [Scopes -> SUBSET Requests]
    BY <1>2 DEF Tick, Types
  <2> QED
    BY <1>2, <2>1, <2>2 DEF Tick, Types
<1>3. ASSUME NEW c \in Captchas, IssueCaptcha(c) \/ ExpireCaptcha(c) PROVE Types'
  BY <1>3 DEF IssueCaptcha, ExpireCaptcha, Types
<1>4. ASSUME NEW sid \in Sids, ExpireSession(sid) \/ DropCookie(sid) PROVE Types'
  BY <1>4 DEF ExpireSession, DropCookie, Types
<1>5. ASSUME NEW r \in Requests, NEW kind \in DOMAIN Routes, NEW c \in Captchas \cup {NoCaptcha},
             Arrive(r, kind, c)
      PROVE  Types'
  <2> DEFINE h == [pc |-> "count", todo |-> Routes[kind], captcha |-> c, count |-> 0]
  <2>1. Entry(h)
    BY RouteIsTodo, LimitingIs DEF Entry
  <2>2. request' = [request EXCEPT ![r] = h] /\ UNCHANGED <<keys, cookies, faults, history>>
    BY <1>5 DEF Arrive
  <2> HIDE DEF h
  <2> QED
    BY <2>1, <2>2, EntryUpdate DEF Types
<1>6. ASSUME NEW r \in Requests, NEW sid \in Sids, NEW logout \in BOOLEAN, NEW token \in Sids,
             UseSession(r, sid, logout, token)
      PROVE  Types'
  <2> DEFINE h == [pc |-> "session", sid |-> sid, logout |-> logout, token |-> token]
  <2>1. Entry(h)
    BY DEF Entry, Using
  <2>2. request' = [request EXCEPT ![r] = h] /\ UNCHANGED <<keys, cookies, faults, history>>
    BY <1>6 DEF UseSession
  <2> HIDE DEF h
  <2> QED
    BY <2>1, <2>2, EntryUpdate DEF Types
<1> QED
  BY <1>1, <1>2, <1>3, <1>4, <1>5, <1>6, HandlerTypes DEF Next, Client

\* At first everything is empty.
LEMMA TypesInit == Init => Types
<1> SUFFICES ASSUME Init PROVE Types
  OBVIOUS
<1>1. \A r \in Requests : Entry(request[r])
  BY DEF Init, Idle, Entry
<1>2. Absent \in [count : Nat, left : Nat]
  BY DEF Absent
<1> QED
  BY <1>1, <1>2, SignInAssumption DEF Init, Types

\* What Redis keeps for a client address, and what its handlers do with it, has
\* the types that the code gives it, for any routes, limits and windows.
THEOREM SignInTypes == Spec => []TypeOK
  BY TypesInit, TypesStep, TypesAreTypeOK, PTL DEF Spec

----------------------------------------------------------------------------
(* The limits.                                                             *)

\* The handlers counted in the present window of a scope whose count the limit
\* admits: they have read it and act on it later.
Within(s) == {r \in counted[s] : request[r].count <= Limit[s]}

\* Each admission, past or to come, has used up a count of its own: the handlers
\* that will be admitted are as many as the counts they took.
LimitInv ==
    \A s \in Scopes :
        /\ \A r \in counted[s] : At(r, "expire") /\ Scope(r) = s
        /\ IsFiniteSet(Within(s))
        /\ admitted[s] + Cardinality(Within(s)) <= counter[s].count
        /\ admitted[s] + Cardinality(Within(s)) <= Limit[s]

\* The same of one scope, for the state after a step: nobody new, perhaps fewer.
LEMMA FewerWithin ==
    ASSUME Types, LimitInv, NEW s \in Scopes, NEW W, W \subseteq Within(s)
    PROVE  /\ IsFiniteSet(W) /\ Cardinality(W) \in Nat /\ Cardinality(Within(s)) \in Nat
           /\ Cardinality(W) <= Cardinality(Within(s))
           /\ admitted[s] + Cardinality(W) <= counter[s].count
           /\ admitted[s] + Cardinality(W) <= Limit[s]
<1>1. IsFiniteSet(Within(s))
  BY DEF LimitInv
<1>2. /\ IsFiniteSet(W) /\ Cardinality(W) \in Nat /\ Cardinality(Within(s)) \in Nat
      /\ Cardinality(W) <= Cardinality(Within(s))
  BY <1>1, FS_Subset, FS_CardinalityType
<1>3. admitted[s] \in Nat /\ counter[s].count \in Nat /\ Limit[s] \in Nat
  BY SignInAssumption DEF Types
<1> QED
  BY <1>2, <1>3 DEF LimitInv

\* A step that neither counts nor admits, and drops handlers at most.
LEMMA LimitQuiet ==
    ASSUME Types, LimitInv,
           admitted' = admitted,
           \A s \in Scopes : counter'[s].count \in Nat /\ counter'[s].count >= counter[s].count,
           \A s \in Scopes : counted'[s] \subseteq counted[s],
           \A s \in Scopes : \A r \in counted'[s] : request'[r] = request[r]
    PROVE  LimitInv'
<1> SUFFICES ASSUME NEW s \in Scopes
             PROVE  /\ \A r \in counted'[s] : At(r, "expire")' /\ Scope(r)' = s
                    /\ IsFiniteSet(Within(s)')
                    /\ admitted'[s] + Cardinality(Within(s)') <= counter'[s].count
                    /\ admitted'[s] + Cardinality(Within(s)') <= Limit[s]
  BY DEF LimitInv
<1>1. \A r \in counted'[s] : At(r, "expire")' /\ Scope(r)' = s
  BY DEF LimitInv, At, Scope
<1>2. Within(s)' \subseteq Within(s)
  BY DEF Within
<1> DEFINE W == Within(s)'
<1>3. /\ IsFiniteSet(W) /\ Cardinality(W) \in Nat
      /\ admitted[s] + Cardinality(W) <= counter[s].count
      /\ admitted[s] + Cardinality(W) <= Limit[s]
  BY <1>2, FewerWithin
<1>4. admitted[s] \in Nat /\ counter[s].count \in Nat
  BY DEF Types
<1> HIDE DEF W
<1>5. admitted'[s] + Cardinality(W) <= counter'[s].count /\ admitted'[s] + Cardinality(W) <= Limit[s]
  BY <1>3, <1>4
<1> QED
  BY <1>1, <1>3, <1>5 DEF W

\* A count below the limit is a new place, above it none.
LEMMA LimitIncrement ==
    ASSUME Types, LimitInv, NEW r \in Requests, Increment(r), NEW q \in Scopes, q = Scope(r)
    PROVE  LimitInv'
<1> DEFINE n == Raised(q).count
           h == [request[r] EXCEPT !.pc = "expire", !.count = n]
<1>0. At(r, "count") /\ Entry(request[r])
  BY DEF Types, Increment
<1>1. /\ request' = [request EXCEPT ![r] = h] /\ admitted' = admitted
      /\ counted' = [counted EXCEPT ![q] = @ \cup {r}]
      /\ counter' = [counter EXCEPT ![q] = Raised(q)]
  BY DEF Increment
<1>2. /\ h.pc = "expire" /\ h.count = n /\ h.todo = request[r].todo
  <2>1. request[r] \in Limiting
    BY <1>0, EntryKinds DEF At
  <2> QED
    BY <2>1, LimitingIs
<1>3. /\ request'[r] = h /\ \A p \in Requests : p # r => request'[p] = request[p]
  BY <1>1 DEF Types
<1>4. \A s \in Scopes : counted[s] \subseteq Requests /\ r \notin counted[s]
  BY <1>0 DEF LimitInv, Types, At
<1>5. /\ n = IF counter[q].count <= Limit[q] THEN counter[q].count + 1 ELSE counter[q].count
      /\ counter[q].count \in Nat /\ Limit[q] \in Nat /\ admitted[q] \in Nat
  BY <1>0, CounterType, SignInAssumption DEF Types
<1>6. counter'[q].count = n /\ \A s \in Scopes : s # q => counter'[s] = counter[s]
  BY <1>0, <1>1 DEF Types
<1>7. counted'[q] = counted[q] \cup {r} /\ \A s \in Scopes : s # q => counted'[s] = counted[s]
  BY <1>0, <1>1 DEF Types
<1> HIDE DEF h, n
<1>8. ASSUME NEW s \in Scopes, NEW p \in counted'[s]
      PROVE  At(p, "expire")' /\ Scope(p)' = s
  <2>1. CASE p = r
    <3>1. s = q
      BY <1>4, <1>7, <1>8, <2>1
    <3>2. Scope(r)' = Head(h.todo) /\ At(r, "expire")'
      BY <1>2, <1>3 DEF Scope, At
    <3> QED
      BY <1>2, <2>1, <3>1, <3>2 DEF Scope
  <2>2. CASE p # r
    <3>1. p \in counted[s] /\ request'[p] = request[p]
      BY <1>3, <1>4, <1>7, <1>8, <2>2
    <3>2. At(p, "expire") /\ Scope(p) = s
      BY <3>1 DEF LimitInv
    <3> QED
      BY <3>1, <3>2 DEF At, Scope
  <2> QED
    BY <2>1, <2>2
<1>9. ASSUME NEW s \in Scopes, s # q
      PROVE  Within(s)' = Within(s) /\ counter'[s] = counter[s] /\ admitted'[s] = admitted[s]
  BY <1>1, <1>3, <1>4, <1>6, <1>7, <1>9 DEF Within
<1>10. Within(q)' = IF n <= Limit[q] THEN Within(q) \cup {r} ELSE Within(q)
  <2>1. \A p \in counted[q] : request'[p].count = request[p].count
    BY <1>0, <1>3, <1>4
  <2>2. request'[r].count = n
    BY <1>2, <1>3
  <2> QED
    BY <1>7, <2>1, <2>2 DEF Within
<1> DEFINE W == Within(q)
<1>11. /\ IsFiniteSet(W) /\ Cardinality(W) \in Nat /\ r \notin W
       /\ admitted[q] + Cardinality(W) <= counter[q].count
       /\ admitted[q] + Cardinality(W) <= Limit[q]
  <2>1. r \notin W
    BY <1>0, <1>4 DEF Within
  <2> QED
    BY <1>0, <2>1, FewerWithin
<1> HIDE DEF W
<1>12. /\ IsFiniteSet(Within(q)')
       /\ admitted[q] + Cardinality(Within(q)') <= n
       /\ admitted[q] + Cardinality(Within(q)') <= Limit[q]
  <2>1. CASE n <= Limit[q]
    <3>1. Within(q)' = W \cup {r}
      BY <1>10, <2>1 DEF W
    <3>2. IsFiniteSet(W \cup {r}) /\ Cardinality(W \cup {r}) = Cardinality(W) + 1
      BY <1>11, FS_AddElement
    <3>3. n = counter[q].count + 1
      BY <1>5, <2>1
    <3> QED
      BY <1>5, <1>11, <2>1, <3>1, <3>2, <3>3
  <2>2. CASE ~(n <= Limit[q])
    <3>1. Within(q)' = W
      BY <1>10, <2>2 DEF W
    <3> QED
      BY <1>5, <1>11, <2>2, <3>1
  <2> QED
    BY <2>1, <2>2
<1>13. ASSUME NEW s \in Scopes
       PROVE  /\ IsFiniteSet(Within(s)')
              /\ admitted'[s] + Cardinality(Within(s)') <= counter'[s].count
              /\ admitted'[s] + Cardinality(Within(s)') <= Limit[s]
  <2>1. CASE s = q
    BY <1>1, <1>6, <1>12, <2>1
  <2>2. CASE s # q
    BY <1>9, <2>2 DEF LimitInv
  <2> QED
    BY <2>1, <2>2
<1> QED
  BY <1>8, <1>13 DEF LimitInv

\* The place a handler holds becomes its admission, unless its window is over.
LEMMA LimitDecide ==
    ASSUME Types, LimitInv, NEW r \in Requests, SetExpiry(r), NEW q \in Scopes, q = Scope(r)
    PROVE  LimitInv'
<1> DEFINE n == request[r].count
<1>0. At(r, "expire") /\ Entry(request[r]) /\ n \in Nat
  BY EntryKinds DEF Types, SetExpiry, At
<1>1. /\ counted' = [counted EXCEPT ![q] = @ \ {r}]
      /\ counter' = [counter EXCEPT ![q] = Limited(q, n)]
      /\ \/ Exceeded(q, n) /\ admitted' = admitted
         \/ /\ ~Exceeded(q, n)
            /\ admitted' = [admitted EXCEPT ![q] = IF r \in counted[q] THEN @ + 1 ELSE @]
  BY DEF SetExpiry
<1>2. \A p \in Requests : p # r => request'[p] = request[p]
  BY HandlerEntry, EntryUpdate DEF Handle
<1>3. \A s \in Scopes : counted[s] \subseteq Requests /\ (s # q => r \notin counted[s])
  BY <1>0 DEF LimitInv, Types
<1>4. \A s \in Scopes : counter'[s].count = counter[s].count
  BY <1>0, <1>1, CounterType DEF Types
<1>5. counted'[q] = counted[q] \ {r} /\ \A s \in Scopes : s # q => counted'[s] = counted[s]
  BY <1>0, <1>1 DEF Types
<1>6. \A s \in Scopes : s # q => admitted'[s] = admitted[s]
  BY <1>0, <1>1 DEF Types
<1>7. /\ admitted[q] \in Nat /\ counter[q].count \in Nat /\ Limit[q] \in Nat
      /\ admitted'[q] = IF r \in counted[q] /\ n <= Limit[q] THEN admitted[q] + 1 ELSE admitted[q]
  <2>1. admitted[q] \in Nat /\ counter[q].count \in Nat /\ Limit[q] \in Nat
    BY <1>0, SignInAssumption DEF Types
  <2>2. Exceeded(q, n) <=> ~(n <= Limit[q])
    BY <1>0, <2>1 DEF Exceeded
  <2> HIDE DEF n
  <2> QED
    BY <1>0, <1>1, <2>1, <2>2 DEF Types
<1>8. ASSUME NEW s \in Scopes, NEW p \in counted'[s]
      PROVE  At(p, "expire")' /\ Scope(p)' = s
  <2>1. p \in counted[s] /\ p # r
    BY <1>3, <1>5, <1>8
  <2>2. request'[p] = request[p] /\ At(p, "expire") /\ Scope(p) = s
    BY <1>2, <1>3, <2>1 DEF LimitInv
  <2> QED
    BY <2>2 DEF At, Scope
<1>9. \A s \in Scopes : s # q => Within(s)' = Within(s)
  BY <1>2, <1>3, <1>5 DEF Within
<1>10. Within(q)' = Within(q) \ {r}
  <2> QED
    BY <1>0, <1>2, <1>3, <1>5 DEF Within
<1>11. r \in Within(q) <=> r \in counted[q] /\ n <= Limit[q]
  BY DEF Within
<1> DEFINE W == Within(q)
<1>12. /\ IsFiniteSet(W) /\ Cardinality(W) \in Nat
       /\ admitted[q] + Cardinality(W) <= counter[q].count
       /\ admitted[q] + Cardinality(W) <= Limit[q]
  BY <1>0, FewerWithin
<1> HIDE DEF W, n
<1>13. /\ IsFiniteSet(Within(q)')
       /\ admitted'[q] + Cardinality(Within(q)') <= counter[q].count
       /\ admitted'[q] + Cardinality(Within(q)') <= Limit[q]
  <2>1. CASE r \in W
    <3>1. IsFiniteSet(W \ {r}) /\ Cardinality(W \ {r}) = Cardinality(W) - 1
      BY <1>12, <2>1, FS_RemoveElement
    <3>2. admitted'[q] = admitted[q] + 1
      BY <1>7, <1>11, <2>1 DEF W
    <3> QED
      BY <1>7, <1>10, <1>12, <3>1, <3>2 DEF W
  <2>2. CASE r \notin W
    <3>1. W \ {r} = W /\ admitted'[q] = admitted[q]
      BY <1>7, <1>11, <2>2 DEF W
    <3> QED
      BY <1>10, <1>12, <3>1 DEF W
  <2> QED
    BY <2>1, <2>2
<1>14. ASSUME NEW s \in Scopes
       PROVE  /\ IsFiniteSet(Within(s)')
              /\ admitted'[s] + Cardinality(Within(s)') <= counter'[s].count
              /\ admitted'[s] + Cardinality(Within(s)') <= Limit[s]
  <2>1. CASE s = q
    BY <1>4, <1>13, <2>1
  <2>2. CASE s # q
    BY <1>4, <1>6, <1>9, <2>2 DEF LimitInv
  <2> QED
    BY <2>1, <2>2
<1> QED
  BY <1>8, <1>14 DEF LimitInv

\* The end of a window ends its counts and its admissions together.
LEMMA LimitTick ==
    ASSUME Types, LimitInv, Tick
    PROVE  LimitInv'
<1> SUFFICES ASSUME NEW s \in Scopes
             PROVE  /\ \A r \in counted'[s] : At(r, "expire")' /\ Scope(r)' = s
                    /\ IsFiniteSet(Within(s)')
                    /\ admitted'[s] + Cardinality(Within(s)') <= counter'[s].count
                    /\ admitted'[s] + Cardinality(Within(s)') <= Limit[s]
  BY DEF LimitInv
<1>1. request' = request /\ counter[s] \in [count : Nat, left : Nat] /\ Limit[s] \in Nat
  BY SignInAssumption DEF Tick, Types
<1>2. CASE counter[s].left = 1
  <2>1. counter'[s] = Absent /\ admitted'[s] = 0 /\ counted'[s] = {}
    BY <1>2 DEF Tick
  <2>2. Within(s)' = {} /\ counter'[s].count = 0
    BY <2>1 DEF Within, Absent
  <2> QED
    BY <1>1, <2>1, <2>2, FS_EmptySet
<1>3. CASE counter[s].left # 1
  <2>1. admitted'[s] = admitted[s] /\ counted'[s] = counted[s] /\ counter'[s].count = counter[s].count
    BY <1>1, <1>3 DEF Tick
  <2>2. Within(s)' = Within(s)
    BY <1>1, <2>1 DEF Within
  <2> QED
    BY <1>1, <2>1, <2>2 DEF LimitInv, At, Scope
<1> QED
  BY <1>2, <1>3

\* A handler that fails gives up its place, and a count whose reply was lost is
\* used up for nothing.
LEMMA LimitFailure ==
    ASSUME Types, LimitInv, NEW r \in Requests, Abandon(r) \/ RedisFails(r)
    PROVE  LimitInv'
<1>1. \A p \in Requests : p # r => request'[p] = request[p]
  BY HandlerEntry, EntryUpdate
<1>2. counted' = [s \in Scopes |-> counted[s] \ {r}] /\ admitted' = admitted
  BY DEF Abandon, RedisFails
<1>3. \A s \in Scopes : counted'[s] \subseteq counted[s] \ {r} /\ counted[s] \subseteq Requests
  BY <1>2 DEF Types
<1>s. At(r, "count") \/ At(r, "expire") => Scope(r) \in Scopes
  BY EntryKinds DEF Types, At, Scope
<1>4. \/ counter' = counter
      \/ \E q \in Scopes : counter' = [counter EXCEPT ![q] = Raised(q)]
      \/ \E q \in Scopes : \E n : counter' = [counter EXCEPT ![q] = Limited(q, n)]
  BY <1>s DEF Abandon, RedisFails, TookEffect, keys
<1>5. ASSUME NEW s \in Scopes
      PROVE  counter'[s].count \in Nat /\ counter'[s].count >= counter[s].count
  <2>1. counter[s].count \in Nat /\ counter \in [Scopes -> [count : Nat, left : Nat]]
    BY DEF Types
  <2>2. CASE counter' = counter
    BY <2>1, <2>2
  <2>3. ASSUME NEW q \in Scopes, counter' = [counter EXCEPT ![q] = Raised(q)]
        PROVE  counter'[s].count \in Nat /\ counter'[s].count >= counter[s].count
    BY <2>1, <2>3, CounterType
  <2>4. ASSUME NEW q \in Scopes, NEW n, counter' = [counter EXCEPT ![q] = Limited(q, n)]
        PROVE  counter'[s].count \in Nat /\ counter'[s].count >= counter[s].count
    BY <2>1, <2>4, CounterType
  <2> QED
    BY <1>4, <2>2, <2>3, <2>4
<1> QED
  BY <1>1, <1>2, <1>3, <1>5, LimitQuiet

\* Every step keeps the counts and the admissions apart.
LEMMA LimitStep == Types /\ LimitInv /\ [Next]_vars => LimitInv'
<1> SUFFICES ASSUME Types, LimitInv, [Next]_vars PROVE LimitInv'
  OBVIOUS
<1> USE DEF keys, history
<1>0. \A s \in Scopes : counter[s].count \in Nat /\ counted[s] \subseteq Requests
  BY DEF Types
<1>1. ASSUME UNCHANGED <<counter, admitted, counted>>,
             \A r \in Requests : At(r, "expire") => request'[r] = request[r]
      PROVE  LimitInv'
  <2>1. \A s \in Scopes : \A r \in counted'[s] : request'[r] = request[r]
    BY <1>0, <1>1 DEF LimitInv
  <2>2. \A s \in Scopes : counter'[s].count >= counter[s].count /\ counter'[s].count \in Nat
    BY <1>0, <1>1
  <2> QED
    BY <1>1, <2>1, <2>2, LimitQuiet
<1>2. ASSUME UNCHANGED <<counter, admitted, counted, request>> PROVE LimitInv'
  BY <1>1, <1>2
<1>3. ASSUME UNCHANGED <<counter, admitted, counted>>, NEW r \in Requests, NEW h,
             ~At(r, "expire"), request' = [request EXCEPT ![r] = h]
      PROVE  LimitInv'
  <2>1. \A p \in Requests : At(p, "expire") => request'[p] = request[p]
    BY <1>3 DEF Types, At
  <2> QED
    BY <1>1, <1>3, <2>1
<1>4. CASE Client
  <2>1. ASSUME NEW c \in Captchas, IssueCaptcha(c) \/ ExpireCaptcha(c) PROVE LimitInv'
    BY <1>2, <2>1 DEF IssueCaptcha, ExpireCaptcha
  <2>2. ASSUME NEW sid \in Sids, ExpireSession(sid) \/ DropCookie(sid) PROVE LimitInv'
    BY <1>2, <2>2 DEF ExpireSession, DropCookie
  <2>3. ASSUME NEW r \in Requests, NEW kind \in DOMAIN Routes,
               NEW c \in Captchas \cup {NoCaptcha}, Arrive(r, kind, c)
        PROVE  LimitInv'
    BY <1>3, <2>3 DEF Arrive, At
  <2>4. ASSUME NEW r \in Requests, NEW sid \in Sids, NEW logout \in BOOLEAN, NEW token \in Sids,
               UseSession(r, sid, logout, token)
        PROVE  LimitInv'
    BY <1>3, <2>4 DEF UseSession, At
  <2> QED
    BY <1>4, <2>1, <2>2, <2>3, <2>4 DEF Client
<1>5. ASSUME NEW r \in Requests, Handle(r) PROVE LimitInv'
  <2>1. CASE Increment(r) \/ SetExpiry(r)
    <3>1. Entry(request[r]) /\ (At(r, "count") \/ At(r, "expire"))
      BY <2>1 DEF Types, Increment, SetExpiry
    <3>2. Scope(r) \in Scopes
      BY <3>1, EntryKinds DEF At, Scope
    <3> QED
      BY <2>1, <3>2, LimitIncrement, LimitDecide
  <2>2. CASE ~(Increment(r) \/ SetExpiry(r))
    <3>1. ~At(r, "expire") /\ UNCHANGED <<counter, admitted, counted>>
      BY <1>5, <2>2 DEF Handle, Done, VerifyCaptcha, CheckUser, IssueSession,
                        Authenticate, Me, Logout, At
    <3>2. PICK h : Entry(h) /\ request' = [request EXCEPT ![r] = h]
      BY <1>5, HandlerEntry
    <3> QED
      BY <1>3, <3>1, <3>2
  <2> QED
    BY <2>1, <2>2
<1>6. CASE UNCHANGED vars
  BY <1>2, <1>6 DEF vars
<1> QED
  BY <1>4, <1>5, <1>6, LimitTick, LimitFailure DEF Next

\* It holds at first.
LEMMA LimitInit == Init => LimitInv
<1> SUFFICES ASSUME Init, NEW s \in Scopes
             PROVE  /\ \A r \in counted[s] : At(r, "expire") /\ Scope(r) = s
                    /\ IsFiniteSet(Within(s))
                    /\ admitted[s] + Cardinality(Within(s)) <= counter[s].count
                    /\ admitted[s] + Cardinality(Within(s)) <= Limit[s]
  BY DEF LimitInv
<1>1. counted[s] = {} /\ Within(s) = {} /\ admitted[s] = 0 /\ counter[s].count = 0
  BY DEF Init, Within, Absent
<1>2. Limit[s] \in Nat
  BY SignInAssumption
<1> QED
  BY <1>1, <1>2, FS_EmptySet

\* No window admits more requests than its limit, though a handler reads the
\* count in one command and is admitted two commands later: for any number of
\* handlers, scopes, limits and windows, and whatever commands fail.
THEOREM LimitsAreKept == Spec => []WithinLimit
<1>1. Types /\ LimitInv => WithinLimit
  <2> SUFFICES ASSUME Types, LimitInv, NEW s \in Scopes PROVE admitted[s] <= Limit[s]
    BY DEF WithinLimit
  <2> DEFINE W == Within(s)
  <2>1. Cardinality(W) \in Nat /\ admitted[s] + Cardinality(W) <= Limit[s]
    BY FewerWithin
  <2>2. admitted[s] \in Nat /\ Limit[s] \in Nat
    BY SignInAssumption DEF Types
  <2> HIDE DEF W
  <2> QED
    BY <2>1, <2>2
<1> QED
  BY <1>1, TypesInit, TypesStep, LimitInit, LimitStep, PTL DEF Spec
=============================================================================
