---------------------------- MODULE NexusBridge ----------------------------
(***************************************************************************)
(* The players of a toko and their money on the NexusGGR platform: POST    *)
(* /user/create, /user/deposit, /user/withdraw and /user/withdraw-reset.   *)
(* Each handler changes two systems that share no transaction, the         *)
(* platform (over HTTP) and PostgreSQL, in an order of its own: create and *)
(* withdraw call the platform before they write, a deposit calls it from   *)
(* inside a database transaction that holds the balance row FOR UPDATE.    *)
(*                                                                         *)
(* A handler is a sequence of steps, cut at every call of the platform;    *)
(* between the cuts the row lock makes a database transaction one step.    *)
(***************************************************************************)
EXTENDS Integers, Functions

CONSTANTS
    Toko,            \* tenants
    Names,           \* usernames, trimmed and lower-cased by validation
    Codes,           \* external usernames (ULIDs)
    Requests,        \* handlers that may run at the same time
    NoOne,           \* nobody: an unlocked balance row
    Amounts,         \* amounts of deposits, withdrawals and top-ups
    GameResults,     \* what a game may leave in a wallet
    InitialBalance,  \* balances.nexusggr of each toko
    ResetScopes,     \* the kinds of withdraw-reset that are called
    FaultKinds,      \* the kinds of failure that may occur
    MaxFaults,       \* bound: failures in a behaviour
    MaxStarts        \* bound: requests and top-ups in a behaviour

ASSUME NexusAssumption ==
    /\ NoOne \notin Requests
    /\ Amounts \subseteq Nat \ {0}
    /\ GameResults \subseteq Nat
    /\ InitialBalance \in [Toko -> Nat]
    /\ ResetScopes \subseteq {"single", "all", "both"}
    /\ FaultKinds \subseteq {"upstream", "db", "crash"}
    /\ MaxFaults \in Nat
    /\ MaxStarts \in Nat

Player == [toko : Toko, name : Names, code : Codes]

\* What a handler holds: the player it creates, the player and the amount it
\* moves, the users it resets, or what the platform took from them.
Create == [pc : {"create_checked", "create_made"}, player : Player]
Transfer == [pc : {"deposit_found", "deposit_locked", "deposit_given",
                   "withdraw_found", "withdraw_asked", "withdraw_taken"},
             player : Player, amount : Amounts]
ResetCall == [pc : {"reset_found"}, toko : Toko, scope : SUBSET Codes]
ResetResult == [pc : {"reset_taken"}, toko : Toko, records : [Codes -> Nat]]

VARIABLES
    players,   \* the players table
    upstream,  \* codes of the users the platform knows (external)
    wallet,    \* the balance of each user on the platform (external)
    balance,   \* balances.nexusggr of each toko, as committed
    lock,      \* who holds each toko's balance row
    request,   \* what each handler is doing
    started,   \* requests and top-ups so far
    faults,    \* failures so far
    topped,    \* history: top-ups booked for each toko
    given,     \* history: what the platform put into each wallet
    taken,     \* history: what the platform took out of each wallet
    booked,    \* history: the transactions of category nexusggr of each player
    unrecorded \* history: what resets took from users of no player of their toko

platform == <<upstream, wallet, given, taken>>
accounts == <<balance, topped, booked, unrecorded>>
vars == <<players, platform, accounts, lock, request, started, faults>>

Idle == [pc |-> "idle"]
NoBooking == [deposit |-> 0, withdrawal |-> 0, reset |-> 0]

Init ==
    /\ players = {}
    /\ upstream = {}
    /\ wallet = [c \in Codes |-> 0]
    /\ balance = InitialBalance
    /\ lock = [k \in Toko |-> NoOne]
    /\ request = [r \in Requests |-> Idle]
    /\ started = 0
    /\ faults = 0
    /\ topped = [k \in Toko |-> 0]
    /\ given = [c \in Codes |-> 0]
    /\ taken = [c \in Codes |-> 0]
    /\ booked = [c \in Codes |-> NoBooking]
    /\ unrecorded = [c \in Codes |-> 0]

Fault(kind) ==
    /\ kind \in FaultKinds
    /\ faults < MaxFaults
    /\ faults' = faults + 1

Starts == started < MaxStarts /\ started' = started + 1

At(r, pc) == request[r].pc = pc
Goto(r, pc) == request' = [request EXCEPT ![r].pc = pc]
Finish(r) == request' = [request EXCEPT ![r] = Idle]
Unlock(r) == lock' = [k \in Toko |-> IF lock[k] = r THEN NoOne ELSE lock[k]]

\* ULIDs are fresh: no user and no other request has the code.
Fresh(c) ==
    /\ c \notin upstream
    /\ \A r \in Requests : request[r].pc \in {"create_checked", "create_made"}
                            => request[r].player.code # c

----------------------------------------------------------------------------
(* The world around the handlers.                                          *)

\* A game moves a player's wallet, never below zero; /game/launch resolves the
\* username, so only players play.
Play(c, result) ==
    /\ \E p \in players : p.code = c
    /\ wallet' = [wallet EXCEPT ![c] = result]
    /\ UNCHANGED <<players, upstream, given, taken, accounts, lock, request,
                   started, faults>>

\* process_nexusggr_topup credits the toko; its UPDATE waits for the row lock.
TopUp(k, amount) ==
    /\ Starts
    /\ lock[k] = NoOne
    /\ balance' = [balance EXCEPT ![k] = @ + amount]
    /\ topped' = [topped EXCEPT ![k] = @ + amount]
    /\ UNCHANGED <<players, platform, booked, unrecorded, lock, request, faults>>

\* The process dies, or the client hangs up and the handler is dropped at its
\* next await: an open database transaction rolls back, the platform does not.
Abandon(r) ==
    /\ ~At(r, "idle")
    /\ Fault("crash")
    /\ Finish(r)
    /\ Unlock(r)
    /\ UNCHANGED <<players, platform, accounts, started>>

----------------------------------------------------------------------------
(* POST /user/create.                                                      *)

Taken(k, n) == \E p \in players : p.toko = k /\ p.name = n

CheckUsername(r, p) ==
    /\ Starts
    /\ At(r, "idle")
    /\ ~Taken(p.toko, p.name)
    /\ Fresh(p.code)
    /\ request' = [request EXCEPT ![r] = [pc |-> "create_checked", player |-> p]]
    /\ UNCHANGED <<players, platform, accounts, lock, faults>>

CreateUpstream(r) ==
    /\ At(r, "create_checked")
    /\ upstream' = upstream \cup {request[r].player.code}
    /\ Goto(r, "create_made")
    /\ UNCHANGED <<players, wallet, given, taken, accounts, lock, started, faults>>

\* Slip (not the code): an error of the platform is ignored.
CreateUpstreamErrorIgnored(r) ==
    /\ At(r, "create_checked")
    /\ Goto(r, "create_made")
    /\ UNCHANGED <<players, platform, accounts, lock, started, faults>>

\* The platform refuses, or its answer is lost.
CreateUpstreamFails(r) ==
    /\ At(r, "create_checked")
    /\ \/ UNCHANGED <<upstream, faults>>
       \/ Fault("upstream") /\ upstream' = upstream \cup {request[r].player.code}
    /\ Finish(r)
    /\ UNCHANGED <<players, wallet, given, taken, accounts, lock, started>>

\* Slip (not the code): no unique index on (toko_id, username).
InsertPlayerTwice(r) ==
    /\ At(r, "create_made")
    /\ players' = players \cup {request[r].player}
    /\ Finish(r)
    /\ UNCHANGED <<platform, accounts, lock, started, faults>>

\* The unique index decides a race of two creates; the loser answers "already
\* taken" and leaves its user on the platform.
InsertPlayer(r) ==
    /\ At(r, "create_made")
    /\ LET p == request[r].player
       IN  players' = IF Taken(p.toko, p.name) THEN players ELSE players \cup {p}
    /\ Finish(r)
    /\ UNCHANGED <<platform, accounts, lock, started, faults>>

----------------------------------------------------------------------------
(* POST /user/deposit.                                                     *)

FindPlayer(r, pc, p, amount) ==
    /\ Starts
    /\ At(r, "idle")
    /\ p \in players
    /\ request' = [request EXCEPT ![r] = [pc |-> pc, player |-> p, amount |-> amount]]
    /\ UNCHANGED <<players, platform, accounts, lock, faults>>

TokoBalance(r) == balance[request[r].player.toko]

\* Slip (not the code): the balance read without FOR UPDATE.
LockBalanceWithoutLock(r) ==
    /\ At(r, "deposit_found")
    /\ TokoBalance(r) > request[r].amount
    /\ Goto(r, "deposit_locked")
    /\ UNCHANGED <<players, platform, accounts, lock, started, faults>>

\* SELECT ... FOR UPDATE; the amount must be LESS than the balance.  The UPDATE
\* that follows is seen by nobody before the commit.
LockBalance(r) ==
    /\ At(r, "deposit_found")
    /\ lock[request[r].player.toko] = NoOne
    /\ TokoBalance(r) > request[r].amount
    /\ lock' = [lock EXCEPT ![request[r].player.toko] = r]
    /\ Goto(r, "deposit_locked")
    /\ UNCHANGED <<players, platform, accounts, started, faults>>

RefuseDeposit(r) ==
    /\ At(r, "deposit_found")
    /\ lock[request[r].player.toko] = NoOne
    /\ TokoBalance(r) <= request[r].amount
    /\ Finish(r)
    /\ UNCHANGED <<players, platform, accounts, lock, started, faults>>

\* What the platform does when it accepts a deposit or a withdrawal.
Gives(p, amount) ==
    /\ wallet' = [wallet EXCEPT ![p.code] = @ + amount]
    /\ given' = [given EXCEPT ![p.code] = @ + amount]
    /\ UNCHANGED <<upstream, taken>>
Takes(p, amount) ==
    /\ wallet[p.code] >= amount
    /\ wallet' = [wallet EXCEPT ![p.code] = @ - amount]
    /\ taken' = [taken EXCEPT ![p.code] = @ + amount]
    /\ UNCHANGED <<upstream, given>>

\* The platform is called while the row is locked.
DepositUpstream(r) ==
    /\ At(r, "deposit_locked")
    /\ Gives(request[r].player, request[r].amount)
    /\ Goto(r, "deposit_given")
    /\ UNCHANGED <<players, accounts, lock, started, faults>>

\* Slip (not the code): an error path that leaves the row locked.
DepositUpstreamFailsLocked(r) ==
    /\ At(r, "deposit_locked")
    /\ Finish(r)
    /\ UNCHANGED <<players, platform, accounts, lock, started, faults>>

\* The platform refuses, or its answer is lost: the transaction rolls back.
DepositUpstreamFails(r) ==
    /\ At(r, "deposit_locked")
    /\ \/ UNCHANGED <<platform, faults>>
       \/ Fault("upstream") /\ Gives(request[r].player, request[r].amount)
    /\ Finish(r)
    /\ Unlock(r)
    /\ UNCHANGED <<players, accounts, started>>

\* Slip (not the code): the ledger row signed.
BookDepositSigned(p, amount) ==
    /\ balance' = [balance EXCEPT ![p.toko] = @ - amount]
    /\ booked' = [booked EXCEPT ![p.code].deposit = @ - amount]
    /\ UNCHANGED <<topped, unrecorded>>

BookDeposit(p, amount) ==
    /\ balance' = [balance EXCEPT ![p.toko] = @ - amount]
    /\ booked' = [booked EXCEPT ![p.code].deposit = @ + amount]
    /\ UNCHANGED <<topped, unrecorded>>

CommitDeposit(r) ==
    /\ At(r, "deposit_given")
    /\ BookDeposit(request[r].player, request[r].amount)
    /\ Finish(r)
    /\ Unlock(r)
    /\ UNCHANGED <<players, platform, started, faults>>

----------------------------------------------------------------------------
(* POST /user/withdraw.                                                    *)

\* money_info: the wallet is read before the database transaction begins, and
\* may have changed when the withdrawal is called.  It may hold too little, and
\* the platform may refuse, or answer without the user.
AskWallet(r) ==
    /\ At(r, "withdraw_found")
    /\ \/ wallet[request[r].player.code] >= request[r].amount /\ Goto(r, "withdraw_asked")
       \/ Finish(r)
    /\ UNCHANGED <<players, platform, accounts, lock, started, faults>>

WithdrawUpstream(r) ==
    /\ At(r, "withdraw_asked")
    /\ Takes(request[r].player, request[r].amount)
    /\ Goto(r, "withdraw_taken")
    /\ UNCHANGED <<players, accounts, lock, started, faults>>

\* The platform refuses (a game emptied the wallet), or its answer is lost.
WithdrawUpstreamFails(r) ==
    /\ At(r, "withdraw_asked")
    /\ \/ UNCHANGED <<platform, faults>>
       \/ Fault("upstream") /\ Takes(request[r].player, request[r].amount)
    /\ Finish(r)
    /\ UNCHANGED <<players, accounts, lock, started>>

BookWithdrawal(p, amount) ==
    /\ lock[p.toko] = NoOne
    /\ balance' = [balance EXCEPT ![p.toko] = @ + amount]
    /\ booked' = [booked EXCEPT ![p.code].withdrawal = @ + amount]
    /\ UNCHANGED <<topped, unrecorded>>

\* Slip (not the code): a locked row is not waited for (NOWAIT).
CommitWithdrawNoWait(r) ==
    /\ At(r, "withdraw_taken")
    /\ \/ BookWithdrawal(request[r].player, request[r].amount)
       \/ lock[request[r].player.toko] # NoOne /\ UNCHANGED accounts
    /\ Finish(r)
    /\ UNCHANGED <<players, platform, lock, started, faults>>

\* The transaction was opened before the platform was called, but its only
\* statement until here inserts the balance row unless it is there, and locks
\* none that is.  The UPDATE waits for the row lock; UPDATE, INSERT and COMMIT
\* are one step.
CommitWithdraw(r) ==
    /\ At(r, "withdraw_taken")
    /\ BookWithdrawal(request[r].player, request[r].amount)
    /\ Finish(r)
    /\ UNCHANGED <<players, platform, lock, started, faults>>

----------------------------------------------------------------------------
(* POST /user/withdraw-reset.                                              *)

\* One player, or every user of the agent: the request carries the agent's
\* credentials and no toko.  What a request that names a player and all users
\* empties is the platform's to say.
FindReset(r, k, scope) ==
    /\ Starts
    /\ At(r, "idle")
    /\ \/ \E p \in players : "single" \in ResetScopes /\ p.toko = k /\ scope = {p.code}
       \/ "all" \in ResetScopes /\ scope = upstream
       \/ \E p \in players : /\ "both" \in ResetScopes /\ p.toko = k
                             /\ scope \in {{p.code}, upstream}
    /\ request' = [request EXCEPT ![r] = [pc |-> "reset_found", toko |-> k, scope |-> scope]]
    /\ UNCHANGED <<players, platform, accounts, lock, faults>>

\* The platform empties the wallets and reports what was in each.
Empties(scope) ==
    /\ wallet' = [c \in Codes |-> IF c \in scope THEN 0 ELSE wallet[c]]
    /\ taken' = [c \in Codes |-> IF c \in scope THEN taken[c] + wallet[c] ELSE taken[c]]
    /\ UNCHANGED <<upstream, given>>

ResetUpstream(r) ==
    /\ At(r, "reset_found")
    /\ Empties(request[r].scope)
    /\ request' = [request EXCEPT ![r] =
            [pc |-> "reset_taken", toko |-> request[r].toko,
             records |-> [c \in Codes |-> IF c \in request[r].scope THEN wallet[c] ELSE 0]]]
    /\ UNCHANGED <<players, accounts, lock, started, faults>>

ResetUpstreamFails(r) ==
    /\ At(r, "reset_found")
    /\ \/ UNCHANGED <<platform, faults>>
       \/ Fault("upstream") /\ Empties(request[r].scope)
    /\ Finish(r)
    /\ UNCHANGED <<players, accounts, lock, started>>

\* load_player_username_map: the codes of the toko's own players.
OwnCodes(k) == {p.code : p \in {q \in players : q.toko = k}}

\* A reset that is called may empty users of other toko.
ReachesAll == ResetScopes \cap {"all", "both"} # {}

\* Slips (not the code): the toko is credited what a reset took; a player's
\* record that is met twice is booked twice.
BookResetCredits(k, records) ==
    /\ booked' = [c \in Codes |->
            IF c \in OwnCodes(k)
            THEN [booked[c] EXCEPT !.reset = @ + records[c]]
            ELSE booked[c]]
    /\ unrecorded' = [c \in Codes |->
            IF c \in OwnCodes(k) THEN unrecorded[c] ELSE unrecorded[c] + records[c]]
    /\ balance' = [balance EXCEPT ![k] = @ + SumFunction(records)]
    /\ UNCHANGED topped
BookResetTwice(k, records) ==
    /\ booked' = [c \in Codes |->
            IF c \in OwnCodes(k)
            THEN [booked[c] EXCEPT !.reset = @ + 2 * records[c]]
            ELSE booked[c]]
    /\ unrecorded' = [c \in Codes |->
            IF c \in OwnCodes(k) THEN unrecorded[c] ELSE unrecorded[c] + records[c]]
    /\ UNCHANGED <<balance, topped>>

\* A withdrawal is recorded for each player of the toko, once however often the
\* answer names it; no balance changes.  A user that is no player of the toko is
\* skipped, though the platform has emptied its wallet.
BookReset(k, records) ==
    /\ booked' = [c \in Codes |->
            IF c \in OwnCodes(k)
            THEN [booked[c] EXCEPT !.reset = @ + records[c]]
            ELSE booked[c]]
    /\ unrecorded' = [c \in Codes |->
            IF c \in OwnCodes(k) THEN unrecorded[c] ELSE unrecorded[c] + records[c]]
    /\ UNCHANGED <<balance, topped>>

CommitReset(r) ==
    /\ At(r, "reset_taken")
    /\ BookReset(request[r].toko, request[r].records)
    /\ Finish(r)
    /\ UNCHANGED <<players, platform, lock, started, faults>>

----------------------------------------------------------------------------
\* The last database step of a handler fails, though its commit may have taken
\* effect.
WriteFails(r) ==
    /\ Fault("db")
    /\ Finish(r)
    /\ Unlock(r)
    /\ \/ request[r].pc # "idle" /\ UNCHANGED <<players, accounts>>
       \/ /\ At(r, "deposit_given")
          /\ BookDeposit(request[r].player, request[r].amount)
          /\ UNCHANGED players
       \/ /\ At(r, "withdraw_taken")
          /\ BookWithdrawal(request[r].player, request[r].amount)
          /\ UNCHANGED players
       \/ /\ At(r, "reset_taken")
          /\ BookReset(request[r].toko, request[r].records)
          /\ UNCHANGED players
       \/ /\ At(r, "create_made")
          /\ ~Taken(request[r].player.toko, request[r].player.name)
          /\ players' = players \cup {request[r].player}
          /\ UNCHANGED accounts
    /\ UNCHANGED <<platform, started>>

WorldStep ==
    \/ \E c \in Codes, b \in GameResults : Play(c, b)
    \/ \E k \in Toko, a \in Amounts : TopUp(k, a)

Begin(r) ==
    \/ \E p \in Player : CheckUsername(r, p)
    \/ \E p \in players, a \in Amounts :
        FindPlayer(r, "deposit_found", p, a) \/ FindPlayer(r, "withdraw_found", p, a)
    \/ \E k \in Toko, scope \in SUBSET upstream : FindReset(r, k, scope)

\* What a handler does by itself, and what waits for the platform's answer.
Local(r) ==
    \/ InsertPlayer(r) \/ LockBalance(r) \/ RefuseDeposit(r) \/ CommitDeposit(r)
    \/ CommitWithdraw(r) \/ CommitReset(r)
Answered(r) ==
    \/ CreateUpstream(r) \/ CreateUpstreamFails(r)
    \/ DepositUpstream(r) \/ DepositUpstreamFails(r)
    \/ AskWallet(r) \/ WithdrawUpstream(r) \/ WithdrawUpstreamFails(r)
    \/ ResetUpstream(r) \/ ResetUpstreamFails(r)

Next ==
    \/ WorldStep
    \/ \E r \in Requests :
        Begin(r) \/ Local(r) \/ Answered(r) \/ WriteFails(r) \/ Abandon(r)

Spec == Init /\ [][Next]_vars

\* A handler runs on, row locks are granted in turn (strong fairness), and the
\* platform answers every call in the end; the HTTP client has no timeout, so
\* the last is an assumption about the platform and not about the code.
FairSpec ==
    /\ Spec
    /\ \A r \in Requests : SF_vars(Local(r)) /\ WF_vars(Answered(r))

----------------------------------------------------------------------------
(* Properties.                                                             *)

\* Every variable keeps its type; a handler carries what its step needs.
TypeOK ==
    /\ players \subseteq Player
    /\ upstream \subseteq Codes
    /\ wallet \in [Codes -> Nat]
    /\ balance \in [Toko -> Int]
    /\ lock \in [Toko -> Requests \cup {NoOne}]
    /\ request \in [Requests -> {Idle} \cup Create \cup Transfer
                                     \cup ResetCall \cup ResetResult]
    /\ started \in Nat
    /\ faults \in Nat
    /\ topped \in [Toko -> Nat]
    /\ given \in [Codes -> Nat]
    /\ taken \in [Codes -> Nat]
    /\ booked \in [Codes -> [deposit : Nat, withdrawal : Nat, reset : Nat]]
    /\ unrecorded \in [Codes -> Nat]

\* task.md:697 - deposits never use up a toko's balance, however many run at
\* once: the balance that was checked is the balance that is charged, although
\* the platform is called in between.
BalanceStaysPositive == \A k \in Toko : InitialBalance[k] > 0 => balance[k] > 0

\* Two creates of one username may both pass the check and both reach the
\* platform; one player results, and no code belongs to two players.
OnePlayerPerName ==
    \A p, q \in players :
        p # q => /\ p.code # q.code
                 /\ p.toko # q.toko \/ p.name # q.name

\* task.md:637 - a player in the table is known to the platform, so every
\* request that resolves a username sends a code that exists.
PlayersExist == \A p \in players : p.code \in upstream

\* contracts.md:50 - a toko is never charged for money a player did not get,
\* and no withdrawal is recorded that the platform did not make, whatever
\* fails between the two systems.
BookedIsDone ==
    \A c \in Codes :
        /\ booked[c].deposit <= given[c]
        /\ booked[c].withdrawal + booked[c].reset <= taken[c]

\* goals.md:124 - a toko's balance follows from its top-ups and the recorded
\* deposits and withdrawals of its players; a reset, though it records
\* withdrawals, is no part of it (mod.rs:2094-2106).
Net(k) == [c \in OwnCodes(k) |-> booked[c].withdrawal - booked[c].deposit]
BalanceExplained ==
    \A k \in Toko : balance[k] = InitialBalance[k] + topped[k] + SumFunction(Net(k))

\* What handlers have moved on the platform and not booked yet.
Moved(c, pc) ==
    [r \in {q \in Requests : At(q, pc) /\ request[q].player.code = c} |-> request[r].amount]
Swept(c) == [r \in {q \in Requests : At(q, "reset_taken")} |-> request[r].records[c]]
InFlight(c, pc) == SumFunction(Moved(c, pc))
InReset(c) == SumFunction(Swept(c))

\* While nothing fails the two systems agree on every player, to the amounts
\* that are in the hands of a handler: no race of handlers strands money.  What a
\* reset takes and records nowhere is what it took from a player of another toko,
\* and only a reset for which all users were asked does that.
NothingStranded ==
    \A c \in Codes :
        /\ faults = 0 =>
            /\ given[c] = booked[c].deposit + InFlight(c, "deposit_given")
            /\ taken[c] = booked[c].withdrawal + InFlight(c, "withdraw_taken")
                            + booked[c].reset + InReset(c) + unrecorded[c]
        /\ unrecorded[c] # 0 =>
            \E p \in players : p.code = c /\ ReachesAll /\ Toko # {p.toko}

\* Every request ends: a deposit that waits for the platform holds its toko's
\* row, but neither it nor those that wait for the row wait for each other.
RequestEnds == \A r \in Requests : ~At(r, "idle") ~> At(r, "idle")
============================================================================
