------------------------------ MODULE GameBridge ------------------------------
(***************************************************************************)
(* The rest of /api/v1 (http/bridge/mod.rs): the cached catalogue of       *)
(* providers and games, the launch of a game, balances, the status of a    *)
(* transfer, calls, and the return-to-player (RTP) settings.               *)
(*                                                                         *)
(* A handler validates its body and looks up what it needs, asks the       *)
(* platform, and then maps what the platform answers: external usernames   *)
(* become the usernames of the toko that asks, lists go into the cache.    *)
(* It is cut at the call of the platform, before the usernames are loaded  *)
(* and before the cache is written.                                        *)
(***************************************************************************)
EXTENDS PlatformClient, Sequences, FiniteSets

CONSTANTS
    Toko,            \* tenants
    Codes,           \* external usernames
    Requests,        \* handlers that may run at the same time
    Wallet,          \* the number the platform reports of each user
    InitialPlayers,  \* the players table at the start
    NewPlayers,      \* rows that POST /user/create inserts meanwhile
    Ttl,             \* ticks of the clock for which a list stays in the cache
    Groups,          \* which endpoints are called, and by how many handlers
    FaultKinds,      \* the kinds of failure that may occur
    MaxCalls,        \* bound: calls on the platform
    MaxEdits,        \* bound: changes of each list of the catalogue
    MaxFaults        \* bound: failures in a behaviour

Lists == {"providers", "games", "games_v2"}
Commands == {"game_launch", "call_apply", "control_rtp", "control_users_rtp"}
Mapped == {"money_info", "call_players", "call_history"}
Ops == Lists \cup Commands \cup Mapped
           \cup {"balance", "merchant_active", "transfer_status", "call_list", "call_cancel"}

Row == [toko : Toko, name : Text, code : Codes]

\* The players table: external usernames are unique, and so are the usernames
\* of a toko, which are stored as validation leaves them.
Allows(rows, row) ==
    /\ row.name = Fold(row.name)
    /\ \A other \in rows : /\ other.code # row.code
                           /\ other.toko = row.toko => other.name # row.name

ASSUME GameAssumption ==
    /\ Absent \notin Codes
    /\ Wallet \in [Codes -> RawNumber]
    /\ InitialPlayers \cup NewPlayers \subseteq Row
    /\ \A row \in InitialPlayers : Allows(InitialPlayers \ {row}, row)
    /\ Ttl \in Nat \ {0}
    /\ Groups \subseteq [ops : SUBSET Ops, by : SUBSET Requests]
    /\ FaultKinds \subseteq {"lost", "empty", "absent", "malformed", "nameless", "broken"}
    /\ MaxCalls \in Nat /\ MaxEdits \in Nat /\ MaxFaults \in Nat

\* What is cached: one list of providers, and two lists of games per provider.
NoKey == <<"none", Missing>>
Keys == {<<"providers", Missing>>} \cup ({"games", "games_v2"} \X {Trim(t) : t \in CodeTexts})

\* The content of a list is told apart by its key and its edition.
Content(k, edition) == {[key |-> k, edition |-> edition]}
Items == [key : Keys, edition : 0..MaxEdits]
Miss == [list |-> {}, left |-> 0]

\* A record that names a user of the platform, and one that names a player.
Shown == [name : Text, number : Int]
Reported == [user_code : Codes \cup {Absent}, number : Int]

\* What a handler keeps of the request it validated.
NoArgs == [key |-> NoKey, all_users |-> FALSE, offset |-> 0, limit |-> 0, call_id |-> 0]
Args == [key : Keys \cup {NoKey}, all_users : BOOLEAN, offset : Int, limit : Int, call_id : Int]

VARIABLES
    group,      \* the endpoints that this behaviour calls
    players,    \* the players table
    balances,   \* the tokos that have a row in the balances table
    catalogue,  \* the edition of each list on the platform (external)
    calls,      \* the calls on the platform, oldest first (external)
    cache,      \* the lists in Redis, and how long they stay
    request,    \* what each handler is doing, and what it answered
    faults      \* failures so far

vars == <<group, players, balances, catalogue, calls, cache, request, faults>>

Results == {"ok", "unprocessable", "not_found", "database", "internal", "upstream", "broken"}

Idle ==
    [phase |-> "idle", op |-> "none", toko |-> Missing, args |-> NoArgs,
     names |-> {}, rows |-> {},         \* the usernames it is about, and their players
     list |-> {}, answer |-> {},        \* what the platform answered
     shown |-> {}, result |-> "ok",     \* what the handler answers
     known |-> {}, did |-> {}]          \* history: the toko's players when the platform
                                        \* answered, and the users it did it for

Init ==
    /\ group \in Groups
    /\ players = InitialPlayers
    /\ balances = {}
    /\ catalogue = [k \in Keys |-> 0]
    /\ calls = <<>>
    /\ cache = [k \in Keys |-> Miss]
    /\ request = [r \in Requests |-> Idle]
    /\ faults = 0

Fault(kind) ==
    /\ kind \in FaultKinds
    /\ faults < MaxFaults
    /\ faults' = faults + 1

----------------------------------------------------------------------------
(* The start of a handler.                                                 *)

\* LOWER(username) = $2; /users/rtp looks the username up as it is stored.
Found(op, t, name) ==
    {row \in players : /\ row.toko = t
                       /\ name = IF op = "control_users_rtp" THEN row.name ELSE Lower(row.name)}

\* LIMIT 1: one player for each name, whichever the table gives first.
Picks(op, t, names) ==
    {{pick[n] : n \in names} :
        pick \in {f \in [names -> players] : \A n \in names : f[n] \in Found(op, t, n)}}

\* Both fields of LaunchPlayer are read from the columns the query selects.
LaunchPlayer == {"username", "ext_username"}
Selected(op) == IF op = "game_launch" THEN {"ext_username"} ELSE {"username", "ext_username"}

Closed(h, result) == [h EXCEPT !.phase = "done", !.result = result]

\* Slip (not the code): /users/rtp passes over usernames that no player has.
LookupSkipping(h, ready) ==
    LET there == {n \in h.names : Found(h.op, h.toko, n) # {}}
    IN  IF h.op # "control_users_rtp" /\ there # h.names THEN {Closed(h, "not_found")}
        ELSE {[h EXCEPT !.phase = "ask", !.rows = rows] : rows \in Picks(h.op, h.toko, there)}

\* The players are looked up, and the client checks what it is to send.
Lookup(h, ready) ==
    IF \E n \in h.names : Found(h.op, h.toko, n) = {} THEN {Closed(h, "not_found")}
    ELSE IF h.names # {} /\ ~(LaunchPlayer \subseteq Selected(h.op)) THEN {Closed(h, "database")}
    ELSE IF ~ready THEN {Closed(h, "internal")}
    ELSE {[h EXCEPT !.phase = "ask", !.rows = rows] : rows \in Picks(h.op, h.toko, h.names)}

Called(r, op) == op \in group.ops /\ r \in group.by /\ request[r].phase = "idle"

Starts(r, h) ==
    /\ request' = [request EXCEPT ![r] = h]
    /\ UNCHANGED <<group, players, catalogue, calls, cache, faults>>

\* An endpoint about the players with these names.
Admit(r, op, t, q, args, names, ready) ==
    /\ Called(r, op)
    /\ UNCHANGED balances
    /\ LET h == [Idle EXCEPT !.op = op, !.toko = t]
       IN  IF q = Rejected THEN Starts(r, Closed(h, "unprocessable"))
           ELSE \E looked \in Lookup([h EXCEPT !.args = args, !.names = names], ready) :
                    Starts(r, looked)

GameLaunch(r) == \E t \in Toko, b \in GameLaunchBody :
    LET q == validate_game_launch_request(b)
    IN  Admit(r, "game_launch", t, q, NoArgs, {q.username}, game_launch_params(q))

TransferStatus(r) == \E t \in Toko, b \in TransferStatusBody :
    LET q == validate_transfer_status_request(b)
    IN  Admit(r, "transfer_status", t, q, NoArgs, {q.username}, transfer_status_params(q))

CallPlayers(r) == \E t \in Toko : Admit(r, "call_players", t, NoArgs, NoArgs, {}, TRUE)

CallList(r) == \E t \in Toko, b \in CallListBody :
    LET q == validate_call_list_request(b)
    IN  Admit(r, "call_list", t, q, NoArgs, {}, call_list_params(q))

CallApply(r) == \E t \in Toko, b \in CallApplyBody :
    LET q == validate_call_apply_request(b)
    IN  Admit(r, "call_apply", t, q, NoArgs, {q.username}, call_apply_params(q))

CallHistory(r) == \E t \in Toko, b \in CallHistoryBody :
    LET q == validate_call_history_request(b)
    IN  Admit(r, "call_history", t, q,
              [NoArgs EXCEPT !.offset = q.offset, !.limit = q.limit], {}, TRUE)

CallCancel(r) == \E t \in Toko, b \in CallCancelBody :
    LET q == validate_call_cancel_request(b)
    IN  Admit(r, "call_cancel", t, q, [NoArgs EXCEPT !.call_id = q.call_id], {}, TRUE)

ControlRtp(r) == \E t \in Toko, b \in ControlRtpBody :
    LET q == validate_control_rtp_request(b)
    IN  Admit(r, "control_rtp", t, q, NoArgs, {q.username}, control_rtp_params(q))

ControlUsersRtp(r) == \E t \in Toko, b \in ControlUsersRtpBody :
    LET q == validate_control_users_rtp_request(b)
    IN  Admit(r, "control_users_rtp", t, q, NoArgs, q.user_codes, control_users_rtp_params(q))

\* A toko that has no balance gets one, whatever becomes of the request.
load_or_create_balance(t) == balances' = balances \cup {t}

MoneyInfo(r) == \E t \in Toko, b \in MoneyInfoBody :
    LET q == validate_money_info_request(b)
        h == [Idle EXCEPT !.op = "money_info", !.toko = t]
    IN  /\ Called(r, "money_info")
        /\ \/ /\ q = Rejected
              /\ Starts(r, Closed(h, "unprocessable"))
              /\ UNCHANGED balances
           \/ /\ q # Rejected
              /\ load_or_create_balance(t)
              /\ \E looked \in Lookup([h EXCEPT !.args = [NoArgs EXCEPT !.all_users = q.all_users],
                                               !.names = {q.username} \ {Missing}], TRUE) :
                     Starts(r, looked)

Balance(r) == \E t \in Toko :
    /\ Called(r, "balance")
    /\ load_or_create_balance(t)
    /\ Starts(r, Closed([Idle EXCEPT !.op = "balance", !.toko = t], "ok"))

MerchantActive(r) == \E t \in Toko :
    /\ Called(r, "merchant_active")
    /\ load_or_create_balance(t)
    /\ Starts(r, Closed([Idle EXCEPT !.op = "merchant_active", !.toko = t], "ok"))

----------------------------------------------------------------------------
(* The cached lists: GET, or ask the platform and SET EX.                  *)

\* Slip (not the code): a list that is read stays for another Ttl.
KeptOnHit(k) == cache' = [cache EXCEPT ![k].left = Ttl]

\* A list that is read stays as long as it would have.
OnHit(k) == cache' = cache

LoadCached(r, op, k, ready) ==
    LET h == [Idle EXCEPT !.op = op, !.args = [NoArgs EXCEPT !.key = k]]
    IN  /\ UNCHANGED <<group, players, balances, catalogue, calls, faults>>
        /\ \/ /\ cache[k] # Miss
              /\ request' = [request EXCEPT ![r] = Closed([h EXCEPT !.list = cache[k].list], "ok")]
              /\ OnHit(k)
           \/ /\ cache[k] = Miss
              /\ request' = [request EXCEPT ![r] =
                                 IF ready THEN [h EXCEPT !.phase = "ask"] ELSE Closed(h, "internal")]
              /\ UNCHANGED cache

Providers(r) ==
    /\ Called(r, "providers")
    /\ LoadCached(r, "providers", <<"providers", Missing>>, TRUE)

ListGames(r, op) == \E b \in GamesBody :
    LET q == validate_provider_code(b.provider_code)
    IN  /\ Called(r, op)
        /\ \/ /\ q = Rejected
              /\ Starts(r, Closed([Idle EXCEPT !.op = op], "unprocessable"))
              /\ UNCHANGED balances
           \/ q # Rejected /\ LoadCached(r, op, <<op, q>>, game_list_params(q))

Games(r) == ListGames(r, "games")
GamesV2(r) == ListGames(r, "games_v2")

----------------------------------------------------------------------------
(* The platform.                                                           *)

\* A number of the platform's answer; number is the right one.
Sent(kind, number) ==
    IF kind = "absent" THEN Absent ELSE IF kind = "malformed" THEN Malformed ELSE number
One == [tenths |-> 10, exponent |-> 0]

UserRecord(kind, c) ==
    [user_code |-> IF kind = "nameless" THEN Absent ELSE c,
     balance |-> Sent(kind, Wallet[c]), user_prev |-> Sent(kind, Wallet[c])]
UserRecords(kind, codes) ==
    IF kind = "empty" THEN Absent ELSE {UserRecord(kind, c) : c \in codes}

CodesOf(rows) == {row.code : row \in rows}

\* The users whose calls are on the page: the history pages over all calls.
Page(args) == {calls[i].code : i \in DOMAIN calls \cap (args.offset + 1)..(args.offset + args.limit)}

\* The answer to a handler, as the client reads it, with this status; the kind
\* says what is wrong with it.
Answer(h, status, kind) ==
    LET list == IF kind = "empty" THEN Absent ELSE Content(h.args.key, catalogue[h.args.key])
        users(codes) == [status |-> status, data |-> UserRecords(kind, codes)]
        changed == [status |-> status, changed_rtp |-> Sent(kind, One)]
    IN  CASE h.op = "providers" -> provider_list([status |-> status, providers |-> list])
          [] h.op = "games" -> game_list([status |-> status, games |-> list])
          [] h.op = "games_v2" -> game_list_v2([status |-> status, games |-> list])
          [] h.op = "game_launch" ->
                 game_launch([status |-> status, launch_url |-> Sent(kind, One)])
          [] h.op = "money_info" ->
                 money_info([status |-> status,
                             user |-> UserRecords(kind, CodesOf(h.rows)),
                             user_list |-> UserRecords(kind, IF h.args.all_users THEN Codes ELSE {})])
          [] h.op = "transfer_status" ->
                 transfer_status([status |-> status, amount |-> Sent(kind, One),
                     agent_balance |-> Sent(kind, One),
                     user_balance |-> Sent(kind, Wallet[CHOOSE c \in CodesOf(h.rows) : TRUE])])
          [] h.op = "call_players" -> call_players(users(Codes))
          [] h.op = "call_list" -> call_list([status |-> status])
          [] h.op = "call_apply" ->
                 call_apply([status |-> status, called_money |-> Sent(kind, One)])
          [] h.op = "call_history" -> call_history(users(Page(h.args)))
          [] h.op = "call_cancel" ->
                 call_cancel([status |-> status, canceled_money |-> Sent(kind, One)])
          [] h.op = "control_rtp" -> control_rtp(changed)
          [] h.op = "control_users_rtp" -> control_users_rtp(changed)

\* What the platform can do, and what it does.
Possible(h) ==
    /\ h.op = "call_apply" => Len(calls) < MaxCalls
    /\ h.op = "call_cancel" => h.args.call_id \in DOMAIN calls /\ calls[h.args.call_id].open

Effect(h) ==
    IF h.op = "call_apply"
    THEN calls' = Append(calls, [code |-> CHOOSE c \in CodesOf(h.rows) : TRUE, open |-> TRUE])
    ELSE IF h.op = "call_cancel" THEN calls' = [calls EXCEPT ![h.args.call_id].open = FALSE]
    ELSE calls' = calls

Done(h) == IF h.op \in Commands THEN CodesOf(h.rows) ELSE {}

----------------------------------------------------------------------------
(* The answer of the platform.                                             *)

\* The map_*_error functions.
MapError(error) == IF error = "InvalidConfig" THEN "internal" ELSE "upstream"

\* The player that is asked about, with the number that is answered.
AskedRecords(rows, numbers) ==
    {[name |-> x[1].name, number |-> x[2]] : x \in rows \X numbers}

PlayersOf(t) == {row \in players : row.toko = t}

\* What becomes of a handler when the platform answers.  Usernames are loaded
\* for every list of calls, and for a list of users that is not empty.
Received(h, a) ==
    IF a.error # "none" THEN Closed(h, MapError(a.error))
    ELSE IF h.op \in Lists THEN [h EXCEPT !.phase = "store", !.list = a.records]
    ELSE IF h.op \in Mapped /\ (h.op = "money_info" => a.records # {})
    THEN [h EXCEPT !.phase = "map", !.answer = a.records, !.known = PlayersOf(h.toko),
                   !.shown = AskedRecords(h.rows, a.user)]
    ELSE Closed([h EXCEPT !.shown = AskedRecords(h.rows, a.user)], "ok")

Receives(r, h) ==
    /\ request' = [request EXCEPT ![r] = h]
    /\ UNCHANGED <<group, players, balances, catalogue, cache>>

Asking(r) == request[r].phase = "ask"

\* The platform does what it is asked for; an answer that succeeds may still
\* lack something (external).
Answered(r) ==
    /\ Asking(r)
    /\ Possible(request[r])
    /\ Effect(request[r])
    /\ \E kind \in {"none", "empty", "absent", "malformed", "nameless"} :
          /\ IF kind = "none" THEN UNCHANGED faults ELSE Fault(kind)
          /\ Receives(r, [Received(request[r], Answer(request[r], 1, kind))
                              EXCEPT !.did = Done(request[r])])

\* The platform refuses: it answers with another status.
Refused(r) ==
    /\ Asking(r)
    /\ Receives(r, Received(request[r], Answer(request[r], 0, "none")))
    /\ UNCHANGED <<calls, faults>>

\* The call ends in a transport error, whether the platform got it or not.
Lost(r) ==
    /\ Asking(r)
    /\ Fault("lost")
    /\ \/ /\ Possible(request[r])
          /\ Effect(request[r])
          /\ Receives(r, [Received(request[r], Failed("Transport"))
                              EXCEPT !.did = Done(request[r])])
       \/ /\ Receives(r, Received(request[r], Failed("Transport")))
          /\ UNCHANGED calls

\* Slip (not the code): the usernames of every toko are loaded.
UsernamesOfAll(h) == players

\* load_player_username_map, after the platform has answered.
Usernames(h) == PlayersOf(h.toko)

\* A record whose user is none of the toko's players is left out.
MapRecords(rows, records) ==
    {[name |-> x[1].name, number |-> x[2].number] :
        x \in {y \in rows \X records : y[1].code = y[2].user_code}}

MapUsernames(r) ==
    /\ request[r].phase = "map"
    /\ request' = [request EXCEPT
                       ![r].phase = "done", ![r].result = "ok",
                       ![r].shown = @ \cup MapRecords(Usernames(request[r]), request[r].answer)]
    /\ UNCHANGED <<group, players, balances, catalogue, calls, cache, faults>>

\* Slip (not the code): the time to live is added to what is left of it.
CacheExtending(h) ==
    cache' = [cache EXCEPT ![h.args.key] = [list |-> h.list, left |-> @.left + Ttl]]

\* SET EX: the list, and the whole time to live.
Cache(h) == cache' = [cache EXCEPT ![h.args.key] = [list |-> h.list, left |-> Ttl]]

StoreList(r) ==
    /\ request[r].phase = "store"
    /\ Cache(request[r])
    /\ request' = [request EXCEPT ![r] = Closed(@, "ok")]
    /\ UNCHANGED <<group, players, balances, catalogue, calls, faults>>

\* PostgreSQL or Redis fails, the process dies, or the client hangs up: the
\* handler ends at its next step, and a SET may have reached Redis.
Break(r) ==
    /\ request[r].phase \in {"ask", "map", "store"}
    /\ Fault("broken")
    /\ request' = [request EXCEPT ![r] = Closed(@, "broken")]
    /\ \/ UNCHANGED cache
       \/ request[r].phase = "store" /\ Cache(request[r])
    /\ UNCHANGED <<group, players, balances, catalogue, calls>>

\* The answer is read, and the next request comes.
Leave(r) ==
    /\ request[r].phase = "done"
    /\ request' = [request EXCEPT ![r] = Idle]
    /\ UNCHANGED <<group, players, balances, catalogue, calls, cache, faults>>

----------------------------------------------------------------------------
(* The world around the handlers.                                          *)

\* POST /user/create inserts a player.
Join(row) ==
    /\ row \in NewPlayers
    /\ group.ops \cap Lists = {}
    /\ Allows(players, row)
    /\ players' = players \cup {row}
    /\ UNCHANGED <<group, balances, catalogue, calls, cache, request, faults>>

\* The platform changes a list (external).
Publish(k) ==
    /\ k[1] \in group.ops
    /\ catalogue[k] < MaxEdits
    /\ catalogue' = [catalogue EXCEPT ![k] = @ + 1]
    /\ UNCHANGED <<group, players, balances, calls, cache, request, faults>>

\* Time passes for what is in the cache.
Tick ==
    /\ \E k \in Keys : cache[k] # Miss
    /\ cache' = [k \in Keys |-> IF cache[k].left <= 1 THEN Miss
                                ELSE [cache[k] EXCEPT !.left = @ - 1]]
    /\ UNCHANGED <<group, players, balances, catalogue, calls, request, faults>>

Start(r) ==
    \/ Balance(r) \/ MerchantActive(r) \/ Providers(r) \/ Games(r) \/ GamesV2(r)
    \/ GameLaunch(r) \/ MoneyInfo(r) \/ TransferStatus(r)
    \/ CallPlayers(r) \/ CallList(r) \/ CallApply(r) \/ CallHistory(r) \/ CallCancel(r)
    \/ ControlRtp(r) \/ ControlUsersRtp(r)

Step(r) ==
    \/ Answered(r) \/ Refused(r) \/ Lost(r)
    \/ MapUsernames(r) \/ StoreList(r) \/ Break(r) \/ Leave(r)

World ==
    \/ \E row \in NewPlayers : Join(row)
    \/ \E k \in Keys : Publish(k)
    \/ Tick

Next == World \/ \E r \in Requests : Start(r) \/ Step(r)

Spec == Init /\ [][Next]_vars

\* Redis expires its keys, and a SET that is sent is answered.
FairSpec ==
    /\ Spec
    /\ WF_vars(Tick)
    /\ \A r \in Requests : WF_vars(StoreList(r))

----------------------------------------------------------------------------
(* Properties.                                                             *)

Handling ==
    [phase : {"idle", "ask", "map", "store", "done"}, op : Ops \cup {"none"},
     toko : Toko \cup {Missing}, args : Args,
     names : SUBSET Text, rows : SUBSET Row,
     list : SUBSET Items, answer : SUBSET Reported, shown : SUBSET Shown,
     result : Results, known : SUBSET Row, did : SUBSET Codes]

\* Every variable holds a value the program can hold; the cache holds lists,
\* and a handler that has not answered has decided on no result.
TypeOK ==
    /\ group \in Groups
    /\ players \subseteq Row
    /\ balances \subseteq Toko
    /\ catalogue \in [Keys -> 0..MaxEdits]
    /\ calls \in Seq([code : Codes, open : BOOLEAN])
    /\ cache \in [Keys -> [list : SUBSET Items, left : 0..Ttl]]
    /\ request \in [Requests -> Handling]
    /\ faults \in 0..MaxFaults

\* What may be shown of a user: the whole part of its number, or 0 once there was
\* a failure, as when the platform leaves a number out.
Tells(n, c, failures) == WholePart(n, Wallet[c]) \/ (failures # 0 /\ n = 0)

Own(h, name) == {row \in players : row.toko = h.toko /\ row.name = name}

\* The players a username may stand for: case does not matter.
Meant(h, name) == {row \in players : row.toko = h.toko /\ Lower(row.name) = Lower(name)}

\* What a handler answers of the platform's users is about players of the toko
\* that asks, each with the number of its own user.
ShowsOwn(h) ==
    \A s \in h.shown : \E row \in Own(h, s.name) : Tells(s.number, row.code, faults)

\* And no player is missing: who was a player when the platform answered, and is
\* in its answer, is in the handler's.
ShowsAll(h) ==
    \A a \in h.answer, row \in h.known :
        row.code = a.user_code => [name |-> row.name, number |-> a.number] \in h.shown

\* A list of balances or calls shows the players of the toko that asks, all of
\* those the platform reports, and nobody else, although players are created
\* while the platform is asked: the usernames are loaded after it has answered
\* (load_player_username_map in money_info, call_players and call_history).  The
\* number beside a username is the platform's, without its fraction
\* (parse_money_text).
AnswersOwnPlayers ==
    \A r \in Requests :
        request[r].phase = "done" /\ request[r].result = "ok"
        => ShowsOwn(request[r]) /\ ShowsAll(request[r])

\* A command that is answered with success has been carried out by the platform
\* for each of the usernames that were asked for, and for nobody else; a call
\* that was cancelled is closed.  An answer lost on the way is no success, and a
\* list of users with one that does not exist changes none of them.
AnsweredIsDone ==
    \A r \in Requests :
        LET h == request[r]
        IN  /\ h.did \subseteq UNION {CodesOf(Meant(h, n)) : n \in h.names}
            /\ h.phase = "done" /\ h.result = "ok" =>
                  /\ h.op \in Commands =>
                        \A n \in h.names : CodesOf(Meant(h, n)) \cap h.did # {}
                  /\ h.op = "call_cancel" => ~calls[h.args.call_id].open

\* The client never refuses what a handler hands it: whatever passes a validator
\* of http/bridge/mod.rs passes the checks of nexusggr_client, whose refusal
\* would be answered as a fault of the server.
ValidatedIsCallable == \A r \in Requests : request[r].result # "internal"

\* A list that changed is not shown from the cache for ever: once the platform's
\* lists stay as they are, every list in the cache is the platform's, although
\* handlers that asked before the change fill the cache after it, and although a
\* list may be cached empty when the platform leaves it out.
NewListsAreShown ==
    \A k \in Keys :
        <>[](cache[k] = Miss \/ cache[k].list = Content(k, catalogue[k]))

\* Refuted (docs/contracts.md): a launch of a game for a player that exists is
\* answered with the platform's launch_url or with the platform's failure.
LaunchAnswered ==
    \A r \in Requests :
        request[r].op = "game_launch" => request[r].result # "database"
=============================================================================
