------------------------- MODULE NexusBridgeProofs -------------------------
(***************************************************************************)
(* Theorems about NexusBridge, for every number of toko, players, handlers *)
(* and failures.                                                           *)
(***************************************************************************)
EXTENDS NexusBridge, SumTheorems, TLAPS

Handler == {Idle} \cup Create \cup Transfer \cup ResetCall \cup ResetResult

----------------------------------------------------------------------------
(* What the phase of a handler says of its record.                         *)

\* A handler between the check of a username and the INSERT holds a player.
LEMMA CreateShape ==
    ASSUME NEW h \in Handler, h.pc \in {"create_checked", "create_made"}
    PROVE  h \in Create
  BY DEF Handler, Idle, Create, Transfer, ResetCall, ResetResult

\* A handler of a deposit or a withdrawal holds a player and an amount.
LEMMA TransferShape ==
    ASSUME NEW h \in Handler,
           h.pc \in {"deposit_found", "deposit_locked", "deposit_given",
                     "withdraw_found", "withdraw_asked", "withdraw_taken"}
    PROVE  h \in Transfer
  BY DEF Handler, Idle, Create, Transfer, ResetCall, ResetResult

\* A handler that resets holds the users it names, then what they had.
LEMMA ResetShape ==
    ASSUME NEW h \in Handler
    PROVE  /\ h.pc = "reset_found" => h \in ResetCall
           /\ h.pc = "reset_taken" => h \in ResetResult
  BY DEF Handler, Idle, Create, Transfer, ResetCall, ResetResult

\* A handler that moves on inside its operation keeps its shape.
LEMMA NextPhase ==
    ASSUME NEW h, NEW pc
    PROVE  /\ h \in Create /\ pc = "create_made" => [h EXCEPT !.pc = pc] \in Create
           /\ h \in Transfer /\ pc \in {"deposit_locked", "deposit_given",
                                        "withdraw_asked", "withdraw_taken"}
                => [h EXCEPT !.pc = pc] \in Transfer
  BY DEF Create, Transfer

\* Changing one handler keeps the table of handlers well typed.
LEMMA TableUpdate ==
    ASSUME NEW f \in [Requests -> Handler], NEW r \in Requests, NEW h \in Handler
    PROVE  [f EXCEPT ![r] = h] \in [Requests -> Handler]
  OBVIOUS

\* Raising one entry of a table of naturals keeps it one.
LEMMA NatRaise ==
    ASSUME NEW S, NEW f \in [S -> Nat], NEW x \in S, NEW n \in Nat
    PROVE  [f EXCEPT ![x] = @ + n] \in [S -> Nat]
  OBVIOUS

\* Booking raises one field of one player's bookings.
LEMMA BookingUpdate ==
    ASSUME NEW f \in [Codes -> [deposit : Nat, withdrawal : Nat, reset : Nat]],
           NEW c \in Codes, NEW n \in Nat
    PROVE  /\ [f EXCEPT ![c].deposit = @ + n]
                \in [Codes -> [deposit : Nat, withdrawal : Nat, reset : Nat]]
           /\ [f EXCEPT ![c].withdrawal = @ + n]
                \in [Codes -> [deposit : Nat, withdrawal : Nat, reset : Nat]]
           /\ [f[c] EXCEPT !.reset = @ + n] \in [deposit : Nat, withdrawal : Nat, reset : Nat]
  OBVIOUS

----------------------------------------------------------------------------
(* Types.                                                                  *)

\* The tables of the platform, of the database and of the handlers.
PlatformType ==
    /\ upstream \subseteq Codes
    /\ wallet \in [Codes -> Nat]
    /\ given \in [Codes -> Nat]
    /\ taken \in [Codes -> Nat]
AccountsType ==
    /\ balance \in [Toko -> Int]
    /\ topped \in [Toko -> Nat]
    /\ booked \in [Codes -> [deposit : Nat, withdrawal : Nat, reset : Nat]]
    /\ unrecorded \in [Codes -> Nat]
LockType == lock \in [Toko -> Requests \cup {NoOne}]
RequestType == request \in [Requests -> Handler]
CountersType == started \in Nat /\ faults \in Nat

TypeInv ==
    /\ players \subseteq Player
    /\ PlatformType
    /\ AccountsType
    /\ LockType
    /\ RequestType
    /\ CountersType

\* TypeOK, part by part.
LEMMA TypeParts == TypeOK <=> TypeInv
  BY DEF TypeInv, TypeOK, PlatformType, AccountsType, LockType, RequestType, CountersType, Handler

\* The initial state is well typed.
LEMMA TypeInit == Init => TypeOK
  BY NexusAssumption DEF Init, TypeOK, Idle, NoBooking

\* What the platform does keeps its tables well typed.
LEMMA PlatformStep ==
    ASSUME PlatformType, NEW p \in Player, NEW amount \in Nat
    PROVE  /\ Gives(p, amount) => PlatformType'
           /\ Takes(p, amount) => PlatformType'
<1>1. p.code \in Codes
  BY DEF Player
<1>2. ASSUME Gives(p, amount) PROVE PlatformType'
  BY <1>1, <1>2, NatRaise DEF Gives, PlatformType
<1>3. ASSUME Takes(p, amount) PROVE PlatformType'
  <2>1. taken' \in [Codes -> Nat]
    BY <1>1, <1>3, NatRaise DEF Takes, PlatformType
  <2>2. wallet[p.code] - amount \in Nat
    BY <1>1, <1>3 DEF Takes, PlatformType
  <2>3. wallet' \in [Codes -> Nat]
    BY <1>1, <1>3, <2>2 DEF Takes, PlatformType
  <2> QED
    BY <1>3, <2>1, <2>3 DEF Takes, PlatformType
<1> QED
  BY <1>2, <1>3

\* A reset by the platform keeps them well typed too.
LEMMA EmptiesStep ==
    ASSUME PlatformType, NEW scope, Empties(scope)
    PROVE  PlatformType'
  BY DEF PlatformType, Empties

\* Booking keeps the accounts well typed.
LEMMA AccountsStep ==
    ASSUME AccountsType, NEW p \in Player, NEW amount \in Nat
    PROVE  /\ BookDeposit(p, amount) => AccountsType'
           /\ BookWithdrawal(p, amount) => AccountsType'
<1>1. p.code \in Codes /\ p.toko \in Toko
  BY DEF Player
<1>2. ASSUME BookDeposit(p, amount) PROVE AccountsType'
  <2>1. booked' \in [Codes -> [deposit : Nat, withdrawal : Nat, reset : Nat]]
    BY <1>1, <1>2, BookingUpdate DEF BookDeposit, AccountsType
  <2> QED
    BY <1>1, <1>2, <2>1 DEF BookDeposit, AccountsType
<1>3. ASSUME BookWithdrawal(p, amount) PROVE AccountsType'
  <2>1. booked' \in [Codes -> [deposit : Nat, withdrawal : Nat, reset : Nat]]
    BY <1>1, <1>3, BookingUpdate DEF BookWithdrawal, AccountsType
  <2> QED
    BY <1>1, <1>3, <2>1 DEF BookWithdrawal, AccountsType
<1> QED
  BY <1>2, <1>3

\* And so does the record of a reset.
LEMMA ResetStep ==
    ASSUME AccountsType, NEW k, NEW records \in [Codes -> Nat], BookReset(k, records)
    PROVE  AccountsType'
<1>1. ASSUME NEW c \in Codes
      PROVE  [booked[c] EXCEPT !.reset = @ + records[c]]
                \in [deposit : Nat, withdrawal : Nat, reset : Nat]
  BY <1>1, BookingUpdate DEF AccountsType
<1> QED
  BY <1>1 DEF AccountsType, BookReset

\* A failure is counted.
LEMMA FaultStep ==
    ASSUME CountersType, NEW kind, Fault(kind)
    PROVE  faults' \in Nat
  BY DEF CountersType, Fault

\* Releasing a row, and taking it, keep the table of locks well typed.
LEMMA UnlockStep ==
    ASSUME LockType, NEW r, Unlock(r)
    PROVE  LockType'
  BY DEF LockType, Unlock

\* Ending a handler keeps the table of handlers well typed.
LEMMA FinishStep ==
    ASSUME RequestType, NEW r \in Requests, Finish(r)
    PROVE  RequestType'
<1>1. Idle \in Handler
  BY DEF Handler
<1> QED
  BY <1>1, TableUpdate DEF RequestType, Finish

\* Moving a handler on keeps the table well typed when its record stays one.
LEMMA GotoStep ==
    ASSUME RequestType, NEW r \in Requests, NEW pc,
           [request[r] EXCEPT !.pc = pc] \in Handler, Goto(r, pc)
    PROVE  RequestType'
<1>1. request' = [request EXCEPT ![r] = [request[r] EXCEPT !.pc = pc]]
  BY DEF Goto
<1> QED
  BY <1>1, TableUpdate DEF RequestType

\* A handler that creates moves on as a creating one, and holds a player.
LEMMA CreateMoves ==
    ASSUME RequestType, NEW r \in Requests, request[r].pc \in {"create_checked", "create_made"}
    PROVE  /\ [request[r] EXCEPT !.pc = "create_made"] \in Handler
           /\ request[r].player \in Player
<1>1. request[r] \in Create
  BY CreateShape DEF RequestType
<1> QED
  BY <1>1, NextPhase DEF Handler, Create

\* A handler that moves money goes on as such, and holds a player and an amount.
LEMMA TransferMoves ==
    ASSUME RequestType, NEW r \in Requests,
           request[r].pc \in {"deposit_found", "deposit_locked", "deposit_given",
                              "withdraw_found", "withdraw_asked", "withdraw_taken"},
           NEW pc \in {"deposit_locked", "deposit_given", "withdraw_asked", "withdraw_taken"}
    PROVE  /\ [request[r] EXCEPT !.pc = pc] \in Handler
           /\ request[r].player \in Player
           /\ request[r].player.toko \in Toko
           /\ request[r].amount \in Nat \ {0}
<1>1. request[r] \in Transfer
  BY TransferShape DEF RequestType
<1>2. request[r].player \in Player /\ request[r].amount \in Nat \ {0}
  BY <1>1, NexusAssumption DEF Transfer
<1>3. [request[r] EXCEPT !.pc = pc] \in Handler
  BY <1>1, NextPhase DEF Handler
<1> QED
  BY <1>2, <1>3 DEF Player

\* A handler that resets holds the users it names, then what they had.
LEMMA ResetMoves ==
    ASSUME RequestType, NEW r \in Requests
    PROVE  /\ request[r].pc = "reset_found" => request[r] \in ResetCall
           /\ request[r].pc = "reset_taken" => request[r].records \in [Codes -> Nat]
<1>1. request[r] \in Handler
  BY DEF RequestType
<1> QED
  BY <1>1, ResetShape DEF ResetResult

\* What a step leaves alone keeps its type, and a start is counted.
LEMMA Frame ==
    ASSUME TypeInv
    PROVE  /\ players' = players => players' \subseteq Player
           /\ UNCHANGED platform => PlatformType'
           /\ UNCHANGED accounts => AccountsType'
           /\ UNCHANGED lock => LockType'
           /\ UNCHANGED request => RequestType'
           /\ UNCHANGED started => started' \in Nat
           /\ UNCHANGED faults => faults' \in Nat
           /\ Starts => started' \in Nat
  BY DEF TypeInv, PlatformType, AccountsType, LockType, RequestType, CountersType,
         platform, accounts, Starts

\* The world moves wallets and top-ups between naturals.
LEMMA WorldTypes == ASSUME TypeInv, WorldStep PROVE TypeInv'
<1>1. ASSUME NEW c \in Codes, NEW b \in GameResults, Play(c, b)
      PROVE  TypeInv'
  <2>1. PlatformType'
    BY <1>1, NexusAssumption DEF Play, PlatformType, TypeInv
  <2> QED
    BY <1>1, <2>1, Frame DEF Play, TypeInv, CountersType
<1>2. ASSUME NEW k \in Toko, NEW a \in Amounts, TopUp(k, a)
      PROVE  TypeInv'
  <2>1. a \in Nat
    BY NexusAssumption
  <2>2. topped' \in [Toko -> Nat]
    BY <1>2, <2>1, NatRaise DEF TopUp, AccountsType, TypeInv
  <2>3. AccountsType'
    BY <1>2, <2>1, <2>2 DEF TopUp, AccountsType, TypeInv
  <2> QED
    BY <1>2, <2>3, Frame DEF TopUp, TypeInv, CountersType
<1> QED
  BY <1>1, <1>2 DEF WorldStep

\* A request that begins stores what its later steps need.
LEMMA BeginTypes == ASSUME TypeInv, NEW r \in Requests, Begin(r) PROVE TypeInv'
<1>1. ASSUME NEW p \in Player, CheckUsername(r, p)
      PROVE  TypeInv'
  <2>1. [pc |-> "create_checked", player |-> p] \in Handler
    BY DEF Handler, Create
  <2>2. RequestType'
    BY <1>1, <2>1, TableUpdate DEF CheckUsername, RequestType, TypeInv
  <2> QED
    BY <1>1, <2>2, Frame DEF CheckUsername, TypeInv, CountersType
<1>2. ASSUME NEW p \in players, NEW a \in Amounts,
             NEW pc \in {"deposit_found", "withdraw_found"}, FindPlayer(r, pc, p, a)
      PROVE  TypeInv'
  <2>1. p \in Player
    BY DEF TypeInv
  <2>2. [pc |-> pc, player |-> p, amount |-> a] \in Handler
    BY <2>1 DEF Handler, Transfer
  <2>3. RequestType'
    BY <1>2, <2>2, TableUpdate DEF FindPlayer, RequestType, TypeInv
  <2> QED
    BY <1>2, <2>3, Frame DEF FindPlayer, TypeInv, CountersType
<1>3. ASSUME NEW k \in Toko, NEW scope \in SUBSET upstream, FindReset(r, k, scope)
      PROVE  TypeInv'
  <2>1. scope \in SUBSET Codes
    BY DEF TypeInv, PlatformType
  <2>2. [pc |-> "reset_found", toko |-> k, scope |-> scope] \in Handler
    BY <2>1 DEF Handler, ResetCall
  <2>3. RequestType'
    BY <1>3, <2>2, TableUpdate DEF FindReset, RequestType, TypeInv
  <2> QED
    BY <1>3, <2>3, Frame DEF FindReset, TypeInv, CountersType
<1> QED
  BY <1>1, <1>2, <1>3 DEF Begin

\* The steps a handler takes by itself keep the types.
LEMMA LocalTypes == ASSUME TypeInv, NEW r \in Requests, Local(r) PROVE TypeInv'
<1> USE DEF At
<1>r. RequestType /\ LockType /\ AccountsType
  BY DEF TypeInv
<1>1. CASE InsertPlayer(r)
  <2>1. request[r].player \in Player
    BY <1>1, <1>r, CreateMoves DEF InsertPlayer
  <2>2. players' \subseteq Player
    BY <1>1, <2>1 DEF InsertPlayer, TypeInv
  <2> QED
    BY <1>1, <1>r, <2>2, FinishStep, Frame DEF InsertPlayer, TypeInv, CountersType
<1>2. CASE LockBalance(r)
  <2>1. request[r].player.toko \in Toko
        /\ [request[r] EXCEPT !.pc = "deposit_locked"] \in Handler
    BY <1>2, <1>r, TransferMoves DEF LockBalance
  <2>2. RequestType'
    BY <1>2, <1>r, <2>1, GotoStep DEF LockBalance
  <2>3. LockType'
    BY <1>2, <1>r, <2>1 DEF LockBalance, LockType
  <2> QED
    BY <1>2, <2>2, <2>3, Frame DEF LockBalance, TypeInv, CountersType
<1>3. CASE RefuseDeposit(r)
  BY <1>3, <1>r, FinishStep, Frame DEF RefuseDeposit, TypeInv, CountersType
<1>4. CASE CommitDeposit(r)
  <2>1. request[r].player \in Player /\ request[r].amount \in Nat
    BY <1>4, <1>r, TransferMoves DEF CommitDeposit
  <2>2. AccountsType'
    BY <1>4, <1>r, <2>1, AccountsStep DEF CommitDeposit
  <2> QED
    BY <1>4, <1>r, <2>2, FinishStep, UnlockStep, Frame
    DEF CommitDeposit, TypeInv, CountersType
<1>5. CASE CommitWithdraw(r)
  <2>1. request[r].player \in Player /\ request[r].amount \in Nat
    BY <1>5, <1>r, TransferMoves DEF CommitWithdraw
  <2>2. AccountsType'
    BY <1>5, <1>r, <2>1, AccountsStep DEF CommitWithdraw
  <2> QED
    BY <1>5, <1>r, <2>2, FinishStep, Frame DEF CommitWithdraw, TypeInv, CountersType
<1>6. CASE CommitReset(r)
  <2>1. request[r].records \in [Codes -> Nat]
    BY <1>6, <1>r, ResetMoves DEF CommitReset
  <2>2. AccountsType'
    BY <1>6, <1>r, <2>1, ResetStep DEF CommitReset
  <2> QED
    BY <1>6, <1>r, <2>2, FinishStep, Frame DEF CommitReset, TypeInv, CountersType
<1> QED
  BY <1>1, <1>2, <1>3, <1>4, <1>5, <1>6 DEF Local

\* So do the steps that wait for the platform.
LEMMA AnsweredTypes == ASSUME TypeInv, NEW r \in Requests, Answered(r) PROVE TypeInv'
<1> USE DEF At
<1>r. RequestType /\ LockType /\ PlatformType
  BY DEF TypeInv
<1>f. ASSUME NEW kind, Fault(kind) PROVE faults' \in Nat
  BY <1>f, FaultStep DEF TypeInv
<1>1. CASE CreateUpstream(r)
  <2>1. request[r].player \in Player
        /\ [request[r] EXCEPT !.pc = "create_made"] \in Handler
    BY <1>1, <1>r, CreateMoves DEF CreateUpstream
  <2>2. RequestType'
    BY <1>1, <1>r, <2>1, GotoStep DEF CreateUpstream
  <2>3. PlatformType'
    BY <1>1, <1>r, <2>1 DEF CreateUpstream, PlatformType, Player
  <2> QED
    BY <1>1, <2>2, <2>3, Frame DEF CreateUpstream, TypeInv, CountersType
<1>2. CASE CreateUpstreamFails(r)
  <2>1. request[r].player \in Player
    BY <1>2, <1>r, CreateMoves DEF CreateUpstreamFails
  <2>2. PlatformType' /\ faults' \in Nat
    BY <1>2, <1>r, <1>f, <2>1, Frame DEF CreateUpstreamFails, PlatformType, Player
  <2> QED
    BY <1>2, <1>r, <2>2, FinishStep, Frame DEF CreateUpstreamFails, TypeInv, CountersType
<1>3. CASE DepositUpstream(r)
  <2>1. request[r].player \in Player /\ request[r].amount \in Nat
        /\ [request[r] EXCEPT !.pc = "deposit_given"] \in Handler
    BY <1>3, <1>r, TransferMoves DEF DepositUpstream
  <2>2. RequestType'
    BY <1>3, <1>r, <2>1, GotoStep DEF DepositUpstream
  <2>3. PlatformType'
    BY <1>3, <1>r, <2>1, PlatformStep DEF DepositUpstream
  <2> QED
    BY <1>3, <2>2, <2>3, Frame DEF DepositUpstream, TypeInv, CountersType
<1>4. CASE DepositUpstreamFails(r)
  <2>1. request[r].player \in Player /\ request[r].amount \in Nat
    BY <1>4, <1>r, TransferMoves DEF DepositUpstreamFails
  <2>2. PlatformType' /\ faults' \in Nat
    BY <1>4, <1>r, <1>f, <2>1, PlatformStep, Frame DEF DepositUpstreamFails
  <2> QED
    BY <1>4, <1>r, <2>2, FinishStep, UnlockStep, Frame
    DEF DepositUpstreamFails, TypeInv, CountersType
<1>5. CASE AskWallet(r)
  <2>1. [request[r] EXCEPT !.pc = "withdraw_asked"] \in Handler
    BY <1>5, <1>r, TransferMoves DEF AskWallet
  <2>2. RequestType'
    BY <1>5, <1>r, <2>1, GotoStep, FinishStep DEF AskWallet
  <2> QED
    BY <1>5, <2>2, Frame DEF AskWallet, TypeInv, CountersType
<1>6. CASE WithdrawUpstream(r)
  <2>1. request[r].player \in Player /\ request[r].amount \in Nat
        /\ [request[r] EXCEPT !.pc = "withdraw_taken"] \in Handler
    BY <1>6, <1>r, TransferMoves DEF WithdrawUpstream
  <2>2. RequestType'
    BY <1>6, <1>r, <2>1, GotoStep DEF WithdrawUpstream
  <2>3. PlatformType'
    BY <1>6, <1>r, <2>1, PlatformStep DEF WithdrawUpstream
  <2> QED
    BY <1>6, <2>2, <2>3, Frame DEF WithdrawUpstream, TypeInv, CountersType
<1>7. CASE WithdrawUpstreamFails(r)
  <2>1. request[r].player \in Player /\ request[r].amount \in Nat
    BY <1>7, <1>r, TransferMoves DEF WithdrawUpstreamFails
  <2>2. PlatformType' /\ faults' \in Nat
    BY <1>7, <1>r, <1>f, <2>1, PlatformStep, Frame DEF WithdrawUpstreamFails
  <2> QED
    BY <1>7, <1>r, <2>2, FinishStep, Frame DEF WithdrawUpstreamFails, TypeInv, CountersType
<1>8. CASE ResetUpstream(r)
  <2>1. PlatformType'
    BY <1>8, <1>r, EmptiesStep DEF ResetUpstream
  <2>2. request[r] \in ResetCall
    BY <1>8, <1>r, ResetMoves DEF ResetUpstream
  <2> DEFINE result == [pc |-> "reset_taken", toko |-> request[r].toko,
                        records |-> [c \in Codes |->
                            IF c \in request[r].scope THEN wallet[c] ELSE 0]]
  <2>3. result \in ResetResult
    BY <1>r, <2>2 DEF ResetCall, ResetResult, PlatformType
  <2>4. result \in Handler
    BY <2>3 DEF Handler
  <2>5. RequestType'
    BY <1>8, <1>r, <2>4, TableUpdate DEF ResetUpstream, RequestType
  <2> QED
    BY <1>8, <2>1, <2>5, Frame DEF ResetUpstream, TypeInv, CountersType
<1>9. CASE ResetUpstreamFails(r)
  <2>1. PlatformType' /\ faults' \in Nat
    BY <1>9, <1>r, <1>f, EmptiesStep, Frame DEF ResetUpstreamFails
  <2> QED
    BY <1>9, <1>r, <2>1, FinishStep, Frame DEF ResetUpstreamFails, TypeInv, CountersType
<1> QED
  BY <1>1, <1>2, <1>3, <1>4, <1>5, <1>6, <1>7, <1>8, <1>9 DEF Answered

\* And so does a handler that fails or is dropped.
LEMMA FailTypes ==
    ASSUME TypeInv, NEW r \in Requests, WriteFails(r) \/ Abandon(r)
    PROVE  TypeInv'
<1> USE DEF At
<1>r. RequestType /\ LockType /\ AccountsType
  BY DEF TypeInv
<1>f. ASSUME NEW kind, Fault(kind) PROVE faults' \in Nat
  BY <1>f, FaultStep DEF TypeInv
<1>1. CASE Abandon(r)
  BY <1>1, <1>r, <1>f, FinishStep, UnlockStep, Frame DEF Abandon, TypeInv, CountersType
<1>2. CASE WriteFails(r)
  <2>1. players' \subseteq Player /\ AccountsType'
    <3>1. CASE UNCHANGED <<players, accounts>>
      BY <3>1, Frame
    <3>2. CASE /\ request[r].pc \in {"deposit_given", "withdraw_taken"}
               /\ \/ BookDeposit(request[r].player, request[r].amount)
                  \/ BookWithdrawal(request[r].player, request[r].amount)
               /\ UNCHANGED players
      <4>1. request[r].player \in Player /\ request[r].amount \in Nat
        BY <3>2, <1>r, TransferMoves
      <4> QED
        BY <3>2, <1>r, <4>1, AccountsStep, Frame
    <3>3. CASE /\ request[r].pc = "reset_taken"
               /\ BookReset(request[r].toko, request[r].records)
               /\ UNCHANGED players
      <4>1. request[r].records \in [Codes -> Nat]
        BY <3>3, <1>r, ResetMoves
      <4> QED
        BY <3>3, <1>r, <4>1, ResetStep, Frame
    <3>4. CASE /\ request[r].pc = "create_made"
               /\ players' = players \cup {request[r].player}
               /\ UNCHANGED accounts
      <4>1. request[r].player \in Player
        BY <3>4, <1>r, CreateMoves
      <4> QED
        BY <3>4, <4>1, Frame DEF TypeInv
    <3> QED
      BY <1>2, <3>1, <3>2, <3>3, <3>4 DEF WriteFails
  <2> QED
    BY <1>2, <1>r, <1>f, <2>1, FinishStep, UnlockStep, Frame
    DEF WriteFails, TypeInv, CountersType
<1> QED
  BY <1>1, <1>2

\* Every step keeps every variable's type.
LEMMA TypeStep == TypeInv /\ [Next]_vars => TypeInv'
<1> SUFFICES ASSUME TypeInv, [Next]_vars PROVE TypeInv'
  OBVIOUS
<1>1. CASE UNCHANGED vars
  BY <1>1, Frame DEF vars, TypeInv, CountersType
<1>2. CASE WorldStep
  BY <1>2, WorldTypes
<1>3. ASSUME NEW r \in Requests,
             Begin(r) \/ Local(r) \/ Answered(r) \/ WriteFails(r) \/ Abandon(r)
      PROVE  TypeInv'
  BY <1>3, BeginTypes, LocalTypes, AnsweredTypes, FailTypes
<1> QED
  BY <1>1, <1>2, <1>3 DEF Next

\* Every reachable state is well typed: a handler always holds what its next
\* step reads, whatever failed before it.
THEOREM TypeCorrect == Spec => []TypeOK
  BY TypeInit, TypeStep, TypeParts, PTL DEF Spec

----------------------------------------------------------------------------
(* The balance that was checked is the balance that is charged.            *)

Holding(h) == h.pc \in {"deposit_locked", "deposit_given"}

\* A deposit past its check holds the row of its toko, and the balance there
\* still is what it checked.
HoldsRow(r) ==
    Holding(request[r]) =>
        /\ lock[request[r].player.toko] = r
        /\ balance[request[r].player.toko] > request[r].amount

BalanceInv ==
    /\ TypeInv
    /\ \A r \in Requests : HoldsRow(r)
    /\ BalanceStaysPositive

\* Ending a handler, or moving it on, leaves the other handlers alone.
LEMMA OneHandler ==
    ASSUME RequestType, NEW r \in Requests
    PROVE  /\ Finish(r) => /\ \A q \in Requests \ {r} : request'[q] = request[q]
                           /\ request'[r] = Idle
           /\ \A pc : Goto(r, pc) =>
                /\ \A q \in Requests \ {r} : request'[q] = request[q]
                /\ request'[r] = [request[r] EXCEPT !.pc = pc]
           /\ \A h : request' = [request EXCEPT ![r] = h] =>
                /\ \A q \in Requests \ {r} : request'[q] = request[q]
                /\ request'[r] = h
  BY DEF RequestType, Finish, Goto

\* Moving on changes the phase of a handler and nothing it holds.
LEMMA PhaseOnly ==
    ASSUME RequestType, NEW r \in Requests, request[r] \in Create \cup Transfer, NEW pc
    PROVE  LET h == [request[r] EXCEPT !.pc = pc]
           IN  /\ h.pc = pc
               /\ h.player = request[r].player
               /\ request[r] \in Transfer => h.amount = request[r].amount
  BY DEF Create, Transfer

\* A step of r that touches no row another handler holds breaks nobody's hold.
LEMMA OthersHold ==
    ASSUME BalanceInv, NEW r \in Requests,
           \A q \in Requests \ {r} : request'[q] = request[q],
           \A k \in Toko : lock[k] \in Requests \ {r}
                => lock'[k] = lock[k] /\ balance'[k] = balance[k],
           HoldsRow(r)'
    PROVE  \A q \in Requests : HoldsRow(q)'
<1> SUFFICES ASSUME NEW q \in Requests \ {r}, Holding(request[q])
             PROVE  /\ lock'[request[q].player.toko] = q
                    /\ balance'[request[q].player.toko] > request[q].amount
  BY DEF HoldsRow
<1>1. request[q].player.toko \in Toko
  BY TransferMoves DEF BalanceInv, TypeInv, Holding
<1>2. HoldsRow(q)
  BY DEF BalanceInv
<1> QED
  BY <1>1, <1>2 DEF HoldsRow

\* What the others hold is safe from a handler that ends and lets go of its own
\* row, and from one that leaves the locks alone.
LEMMA EndsHolding ==
    ASSUME BalanceInv, NEW r \in Requests, Finish(r),
           Unlock(r) \/ UNCHANGED lock,
           \A k \in Toko : lock[k] \in Requests \ {r} => balance'[k] = balance[k]
    PROVE  \A q \in Requests : HoldsRow(q)'
<1>1. /\ \A q \in Requests \ {r} : request'[q] = request[q]
      /\ request'[r] = Idle
  BY OneHandler DEF BalanceInv, TypeInv
<1>2. HoldsRow(r)'
  BY <1>1 DEF HoldsRow, Holding, Idle
<1>3. \A k \in Toko : lock[k] \in Requests \ {r} => lock'[k] = lock[k]
  BY DEF Unlock, BalanceInv, TypeInv, LockType
<1> QED
  BY <1>1, <1>2, <1>3, OthersHold

\* A handler that moves on without the row holds nothing before and after.
LEMMA KeepsHolding ==
    ASSUME BalanceInv, NEW r \in Requests, UNCHANGED <<lock, accounts>>,
           \A q \in Requests \ {r} : request'[q] = request[q],
           ~Holding(request'[r])
    PROVE  (\A q \in Requests : HoldsRow(q)') /\ BalanceStaysPositive'
<1>1. HoldsRow(r)'
  BY DEF HoldsRow
<1>2. \A q \in Requests : HoldsRow(q)'
  BY <1>1, OthersHold DEF accounts
<1> QED
  BY <1>2 DEF BalanceInv, BalanceStaysPositive, accounts

\* A charge is smaller than the balance of the locked row, a withdrawal only
\* adds to a free row, and no handler but the charging one holds either.
LEMMA Charge ==
    ASSUME BalanceInv, NEW r \in Requests, request[r].pc = "deposit_given",
           BookDeposit(request[r].player, request[r].amount)
    PROVE  /\ BalanceStaysPositive'
           /\ \A k \in Toko : lock[k] \in Requests \ {r} => balance'[k] = balance[k]
<1>1. /\ request[r].player.toko \in Toko
      /\ request[r].amount \in Nat
  BY TransferMoves DEF BalanceInv, TypeInv
<1>2. /\ lock[request[r].player.toko] = r
      /\ balance[request[r].player.toko] > request[r].amount
  BY DEF BalanceInv, HoldsRow, Holding
<1>3. balance \in [Toko -> Int]
  BY DEF BalanceInv, TypeInv, AccountsType
<1>4. balance' = [balance EXCEPT ![request[r].player.toko] = @ - request[r].amount]
  BY DEF BookDeposit
<1>5. BalanceStaysPositive
  BY DEF BalanceInv
<1> QED
  BY <1>1, <1>2, <1>3, <1>4, <1>5 DEF BalanceStaysPositive

\* A recorded withdrawal raises the balance of a row nobody holds.
LEMMA Raise ==
    ASSUME BalanceInv, NEW p \in Player, NEW amount \in Nat, BookWithdrawal(p, amount)
    PROVE  /\ BalanceStaysPositive'
           /\ \A k \in Toko : lock[k] \in Requests => balance'[k] = balance[k]
<1>1. p.toko \in Toko
  BY DEF Player
<1>2. balance \in [Toko -> Int]
  BY DEF BalanceInv, TypeInv, AccountsType
<1>3. /\ lock[p.toko] = NoOne
      /\ balance' = [balance EXCEPT ![p.toko] = @ + amount]
  BY DEF BookWithdrawal
<1>4. BalanceStaysPositive
  BY DEF BalanceInv
<1> QED
  BY <1>1, <1>2, <1>3, <1>4, NexusAssumption DEF BalanceStaysPositive

\* The steps of the world and those that begin a request.
LEMMA BalanceWorld ==
    ASSUME BalanceInv, WorldStep
    PROVE  (\A q \in Requests : HoldsRow(q)') /\ BalanceStaysPositive'
<1>1. ASSUME NEW c \in Codes, NEW b \in GameResults, Play(c, b)
      PROVE  (\A q \in Requests : HoldsRow(q)') /\ BalanceStaysPositive'
  BY <1>1 DEF Play, accounts, BalanceInv, HoldsRow, BalanceStaysPositive
<1>2. ASSUME NEW k \in Toko, NEW a \in Amounts, TopUp(k, a)
      PROVE  (\A q \in Requests : HoldsRow(q)') /\ BalanceStaysPositive'
  <2>1. a \in Nat /\ balance \in [Toko -> Int]
    BY NexusAssumption DEF BalanceInv, TypeInv, AccountsType
  <2>2. BalanceStaysPositive'
    BY <1>2, <2>1 DEF TopUp, BalanceInv, BalanceStaysPositive
  <2>3. \A i \in Toko : lock[i] \in Requests => balance'[i] = balance[i]
    BY <1>2, <2>1, NexusAssumption DEF TopUp
  <2>4. ASSUME NEW q \in Requests PROVE HoldsRow(q)'
    <3>1. HoldsRow(q)'
      <4>1. CASE ~Holding(request[q])
        BY <1>2, <4>1 DEF TopUp, HoldsRow
      <4>2. CASE Holding(request[q])
        <5>1. request[q].player.toko \in Toko
          BY <4>2, TransferMoves DEF BalanceInv, TypeInv, Holding
        <5> QED
          BY <1>2, <2>3, <4>2, <5>1 DEF TopUp, HoldsRow, BalanceInv
      <4> QED
        BY <4>1, <4>2
    <3> QED
      BY <3>1
  <2> QED
    BY <2>2, <2>4
<1> QED
  BY <1>1, <1>2 DEF WorldStep

\* The steps of a handler.
LEMMA BalanceHandler ==
    ASSUME BalanceInv, NEW r \in Requests,
           Begin(r) \/ Local(r) \/ Answered(r) \/ WriteFails(r) \/ Abandon(r)
    PROVE  (\A q \in Requests : HoldsRow(q)') /\ BalanceStaysPositive'
<1> USE DEF At
<1>r. RequestType /\ LockType /\ TypeInv
  BY DEF BalanceInv, TypeInv
<1>1. CASE Begin(r)
  <2>1. PICK h : /\ request' = [request EXCEPT ![r] = h]
                 /\ ~Holding(h)
                 /\ UNCHANGED <<lock, accounts>>
    BY <1>1 DEF Begin, CheckUsername, FindPlayer, FindReset, Holding
  <2>2. /\ \A q \in Requests \ {r} : request'[q] = request[q]
        /\ request'[r] = h
    BY <1>r, <2>1, OneHandler
  <2>3. ~Holding(request'[r])
    BY <2>1, <2>2
  <2> QED
    BY <2>1, <2>2, <2>3, KeepsHolding
<1>2. CASE Finish(r) /\ UNCHANGED accounts /\ (Unlock(r) \/ UNCHANGED lock)
  BY <1>2, EndsHolding DEF accounts, BalanceInv, BalanceStaysPositive
<1>3. CASE LockBalance(r)
  <2>1. request[r] \in Transfer /\ request[r].player.toko \in Toko
    BY <1>3, <1>r, TransferMoves, TransferShape DEF LockBalance, RequestType
  <2>2. /\ \A q \in Requests \ {r} : request'[q] = request[q]
        /\ request'[r] = [request[r] EXCEPT !.pc = "deposit_locked"]
    BY <1>3, <1>r, OneHandler DEF LockBalance
  <2>3. /\ request'[r].player = request[r].player
        /\ request'[r].amount = request[r].amount
    BY <1>r, <2>1, <2>2, PhaseOnly
  <2>4. HoldsRow(r)'
    BY <1>3, <1>r, <2>1, <2>3 DEF LockBalance, HoldsRow, TokoBalance, LockType, accounts
  <2>5. \A k \in Toko : lock[k] \in Requests \ {r}
            => lock'[k] = lock[k] /\ balance'[k] = balance[k]
    BY <1>3, <1>r, <2>1, NexusAssumption DEF LockBalance, LockType, accounts
  <2> QED
    BY <1>3, <2>2, <2>4, <2>5, OthersHold
    DEF LockBalance, BalanceInv, BalanceStaysPositive, accounts
<1>4. CASE DepositUpstream(r)
  <2>1. request[r] \in Transfer
    BY <1>4, <1>r, TransferShape DEF DepositUpstream, RequestType
  <2>2. /\ \A q \in Requests \ {r} : request'[q] = request[q]
        /\ request'[r] = [request[r] EXCEPT !.pc = "deposit_given"]
    BY <1>4, <1>r, OneHandler DEF DepositUpstream
  <2>3. /\ request'[r].player = request[r].player
        /\ request'[r].amount = request[r].amount
    BY <1>r, <2>1, <2>2, PhaseOnly
  <2>4. HoldsRow(r)'
    BY <1>4, <2>3 DEF DepositUpstream, HoldsRow, Holding, BalanceInv, accounts
  <2> QED
    BY <1>4, <2>2, <2>4, OthersHold
    DEF DepositUpstream, BalanceInv, BalanceStaysPositive, accounts
<1>5. CASE CreateUpstream(r) \/ WithdrawUpstream(r)
           \/ (AskWallet(r) /\ Goto(r, "withdraw_asked"))
  <2>1. PICK pc \in {"create_made", "withdraw_taken", "withdraw_asked"} :
            Goto(r, pc) /\ UNCHANGED <<lock, accounts>>
    BY <1>5 DEF CreateUpstream, WithdrawUpstream, AskWallet
  <2>2. request[r] \in Create \cup Transfer
    BY <1>5, <1>r, CreateShape, TransferShape
    DEF CreateUpstream, WithdrawUpstream, AskWallet, RequestType
  <2>3. /\ \A q \in Requests \ {r} : request'[q] = request[q]
        /\ request'[r] = [request[r] EXCEPT !.pc = pc]
    BY <1>r, <2>1, OneHandler
  <2>4. request'[r].pc = pc
    BY <1>r, <2>2, <2>3, PhaseOnly
  <2> QED
    BY <2>1, <2>3, <2>4, KeepsHolding DEF Holding
<1>6. CASE ResetUpstream(r)
  <2>1. PICK h : /\ request' = [request EXCEPT ![r] = h]
                 /\ ~Holding(h)
                 /\ UNCHANGED <<lock, accounts>>
    BY <1>6 DEF ResetUpstream, Holding
  <2>2. /\ \A q \in Requests \ {r} : request'[q] = request[q]
        /\ request'[r] = h
    BY <1>r, <2>1, OneHandler
  <2>3. ~Holding(request'[r])
    BY <2>1, <2>2
  <2> QED
    BY <2>1, <2>2, <2>3, KeepsHolding
<1>7. CASE /\ request[r].pc = "deposit_given"
           /\ BookDeposit(request[r].player, request[r].amount)
           /\ Finish(r)
           /\ Unlock(r)
  BY <1>7, Charge, EndsHolding
<1>8. CASE /\ request[r].pc = "withdraw_taken"
           /\ BookWithdrawal(request[r].player, request[r].amount)
           /\ Finish(r)
           /\ Unlock(r) \/ UNCHANGED lock
  <2>1. request[r].player \in Player /\ request[r].amount \in Nat
    BY <1>8, <1>r, TransferMoves
  <2> QED
    BY <1>8, <2>1, Raise, EndsHolding
<1>9. CASE /\ BookReset(request[r].toko, request[r].records)
           /\ Finish(r)
           /\ Unlock(r) \/ UNCHANGED lock
  BY <1>9, EndsHolding DEF BookReset, BalanceInv, BalanceStaysPositive
<1>10. CASE Local(r)
  BY <1>10, <1>2, <1>3, <1>7, <1>8, <1>9
  DEF Local, InsertPlayer, RefuseDeposit, CommitDeposit, CommitWithdraw, CommitReset
<1>11. CASE Answered(r)
  <2>1. CASE AskWallet(r)
    BY <2>1, <1>2, <1>5 DEF AskWallet
  <2>2. CASE \/ CreateUpstreamFails(r) \/ DepositUpstreamFails(r)
             \/ WithdrawUpstreamFails(r) \/ ResetUpstreamFails(r)
    BY <2>2, <1>2
    DEF CreateUpstreamFails, DepositUpstreamFails, WithdrawUpstreamFails, ResetUpstreamFails
  <2> QED
    BY <1>11, <1>4, <1>5, <1>6, <2>1, <2>2 DEF Answered
<1>12. CASE WriteFails(r) \/ Abandon(r)
  BY <1>12, <1>2, <1>7, <1>8, <1>9 DEF WriteFails, Abandon
<1> QED
  BY <1>1, <1>10, <1>11, <1>12

\* The strengthened invariant is inductive.
LEMMA BalanceStep == BalanceInv /\ [Next]_vars => BalanceInv'
<1> SUFFICES ASSUME BalanceInv, [Next]_vars PROVE BalanceInv'
  OBVIOUS
<1>1. TypeInv'
  BY TypeStep DEF BalanceInv
<1>2. (\A q \in Requests : HoldsRow(q)') /\ BalanceStaysPositive'
  <2>1. CASE UNCHANGED vars
    BY <2>1 DEF vars, accounts, BalanceInv, HoldsRow, BalanceStaysPositive
  <2> QED
    BY <2>1, BalanceWorld, BalanceHandler DEF Next
<1> QED
  BY <1>1, <1>2 DEF BalanceInv

\* It holds at first: no handler runs.
LEMMA BalanceInit == Init => BalanceInv
  BY TypeInit, TypeParts
  DEF Init, BalanceInv, HoldsRow, Holding, Idle, BalanceStaysPositive

\* A deposit never uses up a toko's balance, for any number of deposits,
\* withdrawals and top-ups at once, and whatever fails: the row stays locked
\* from the check of the balance to the charge, over the call of the platform.
THEOREM DepositsLeaveBalance == Spec => []BalanceStaysPositive
<1>1. BalanceInv => BalanceStaysPositive
  BY DEF BalanceInv
<1> QED
  BY <1>1, BalanceInit, BalanceStep, PTL DEF Spec

----------------------------------------------------------------------------
(* One player of a name, whom the platform knows.                          *)

Creating(h) == h.pc \in {"create_checked", "create_made"}

\* The code of a user being created is on the platform once the platform has
\* made it and not before, no player has it, and no other handler creates it.
CodeIsOwn(r) ==
    Creating(request[r]) =>
        /\ request[r].pc = "create_made" <=> request[r].player.code \in upstream
        /\ \A p \in players : p.code # request[r].player.code
        /\ \A q \in Requests \ {r} :
            Creating(request[q]) => request[q].player.code # request[r].player.code

PlayerInv ==
    /\ TypeInv
    /\ \A r \in Requests : CodeIsOwn(r)
    /\ PlayersExist
    /\ OnePlayerPerName

PlayerGoal == (\A r \in Requests : CodeIsOwn(r)) /\ PlayersExist /\ OnePlayerPerName

\* A step that makes no user and no player, and starts no create, keeps all.
LEMMA NoCreate ==
    ASSUME PlayerInv, UNCHANGED <<players, upstream>>,
           \A q \in Requests : Creating(request'[q]) => request'[q] = request[q]
    PROVE  PlayerGoal'
  BY DEF PlayerInv, PlayerGoal, CodeIsOwn, PlayersExist, OnePlayerPerName

\* So does a handler that ends: it lets its code go, on the platform or not.
LEMMA CreateEnds ==
    ASSUME PlayerInv, NEW r \in Requests, UNCHANGED players, Finish(r),
           \/ UNCHANGED upstream
           \/ /\ Creating(request[r])
              /\ upstream' = upstream \cup {request[r].player.code}
    PROVE  PlayerGoal'
<1>1. /\ \A q \in Requests \ {r} : request'[q] = request[q]
      /\ ~Creating(request'[r])
  BY OneHandler DEF PlayerInv, TypeInv, Creating, Idle
<1>2. ASSUME NEW q \in Requests PROVE CodeIsOwn(q)'
  BY <1>1 DEF PlayerInv, CodeIsOwn
<1>3. PlayersExist' /\ OnePlayerPerName'
  BY DEF PlayerInv, PlayersExist, OnePlayerPerName
<1> QED
  BY <1>2, <1>3 DEF PlayerGoal

\* The INSERT of a user the platform has made, under the unique index.
LEMMA CreateInserts ==
    ASSUME PlayerInv, NEW r \in Requests, request[r].pc = "create_made", Finish(r),
           ~Taken(request[r].player.toko, request[r].player.name),
           players' = players \cup {request[r].player}, UNCHANGED upstream
    PROVE  PlayerGoal'
<1>1. /\ \A q \in Requests \ {r} : request'[q] = request[q]
      /\ ~Creating(request'[r])
  BY OneHandler DEF PlayerInv, TypeInv, Creating, Idle
<1>2. CodeIsOwn(r) /\ Creating(request[r])
  BY DEF PlayerInv, Creating
<1>3. ASSUME NEW q \in Requests PROVE CodeIsOwn(q)'
  BY <1>1, <1>2 DEF PlayerInv, CodeIsOwn
<1>4. PlayersExist'
  BY <1>2 DEF PlayerInv, PlayersExist, CodeIsOwn
<1>5. OnePlayerPerName'
  BY <1>2 DEF PlayerInv, OnePlayerPerName, CodeIsOwn, Taken
<1> QED
  BY <1>3, <1>4, <1>5 DEF PlayerGoal

\* The platform makes the user of a create that has checked its name.
LEMMA CreateMakes ==
    ASSUME PlayerInv, NEW r \in Requests, CreateUpstream(r)
    PROVE  PlayerGoal'
<1>1. request[r] \in Create /\ Creating(request[r])
  BY CreateShape DEF CreateUpstream, At, Creating, PlayerInv, TypeInv, RequestType
<1>2. /\ \A q \in Requests \ {r} : request'[q] = request[q]
      /\ request'[r] = [request[r] EXCEPT !.pc = "create_made"]
  BY OneHandler DEF PlayerInv, TypeInv, CreateUpstream
<1>3. request'[r].pc = "create_made" /\ request'[r].player = request[r].player
  BY <1>1, <1>2, PhaseOnly DEF PlayerInv, TypeInv
<1>4. /\ upstream' = upstream \cup {request[r].player.code}
      /\ players' = players
  BY DEF CreateUpstream
<1>5. ASSUME NEW q \in Requests PROVE CodeIsOwn(q)'
  <2>1. CodeIsOwn(q) /\ CodeIsOwn(r)
    BY DEF PlayerInv
  <2>2. CASE q = r
    BY <1>1, <1>2, <1>3, <1>4, <2>1, <2>2 DEF CodeIsOwn, Creating
  <2>3. CASE q # r
    <3>1. \A i \in Requests : Creating(request'[i])
            => Creating(request[i]) /\ request'[i].player = request[i].player
      BY <1>1, <1>2, <1>3
    <3>2. request'[q] = request[q]
      BY <1>2, <2>3
    <3> QED
      BY <1>1, <1>4, <2>1, <2>3, <3>1, <3>2 DEF CodeIsOwn
  <2> QED
    BY <2>2, <2>3
<1> QED
  BY <1>4, <1>5 DEF PlayerGoal, PlayerInv, PlayersExist, OnePlayerPerName

\* A create that begins brings a fresh code.
LEMMA CreateBegins ==
    ASSUME PlayerInv, NEW r \in Requests, NEW n \in Player, CheckUsername(r, n)
    PROVE  PlayerGoal'
<1>1. /\ \A q \in Requests \ {r} : request'[q] = request[q]
      /\ request'[r] = [pc |-> "create_checked", player |-> n]
  BY OneHandler DEF PlayerInv, TypeInv, CheckUsername
<1>2. /\ n.code \notin upstream
      /\ \A q \in Requests : Creating(request[q]) => request[q].player.code # n.code
      /\ \A p \in players : p.code # n.code
  BY DEF CheckUsername, Fresh, Creating, PlayerInv, PlayersExist
<1>3. players' = players /\ upstream' = upstream
  BY DEF CheckUsername, platform
<1>4. ASSUME NEW q \in Requests PROVE CodeIsOwn(q)'
  BY <1>1, <1>2, <1>3 DEF PlayerInv, CodeIsOwn, Creating
<1> QED
  BY <1>3, <1>4 DEF PlayerGoal, PlayerInv, PlayersExist, OnePlayerPerName

\* The steps of a handler.
LEMMA PlayerHandler ==
    ASSUME PlayerInv, NEW r \in Requests,
           Begin(r) \/ Local(r) \/ Answered(r) \/ WriteFails(r) \/ Abandon(r)
    PROVE  PlayerGoal'
<1> USE DEF At
<1>r. RequestType
  BY DEF PlayerInv, TypeInv
<1>1. CASE Finish(r) /\ UNCHANGED <<players, upstream>>
  BY <1>1, CreateEnds
<1>2. CASE \E h : /\ request' = [request EXCEPT ![r] = h]
                  /\ ~Creating(h)
                  /\ UNCHANGED <<players, upstream>>
  <2>1. PICK h : /\ request' = [request EXCEPT ![r] = h]
                 /\ ~Creating(h)
                 /\ UNCHANGED <<players, upstream>>
    BY <1>2
  <2>2. \A q \in Requests : Creating(request'[q]) => request'[q] = request[q]
    BY <1>r, <2>1, OneHandler
  <2> QED
    BY <2>1, <2>2, NoCreate
<1>3. CASE \/ LockBalance(r) \/ DepositUpstream(r) \/ WithdrawUpstream(r)
           \/ (AskWallet(r) /\ Goto(r, "withdraw_asked"))
  <2>1. PICK pc \in {"deposit_locked", "deposit_given", "withdraw_asked", "withdraw_taken"} :
            Goto(r, pc) /\ UNCHANGED <<players, upstream>>
    BY <1>3 DEF LockBalance, DepositUpstream, WithdrawUpstream, AskWallet, platform,
                Gives, Takes
  <2>2. request[r] \in Create \cup Transfer
    BY <1>3, <1>r, TransferShape
    DEF LockBalance, DepositUpstream, WithdrawUpstream, AskWallet, RequestType
  <2>3. [request[r] EXCEPT !.pc = pc].pc = pc
    BY <1>r, <2>2, PhaseOnly
  <2>4. request' = [request EXCEPT ![r] = [request[r] EXCEPT !.pc = pc]]
    BY <2>1 DEF Goto
  <2> QED
    BY <1>2, <2>1, <2>3, <2>4 DEF Creating
<1>4. CASE Begin(r)
  <2>1. ASSUME NEW p \in players, NEW a \in Amounts,
               NEW pc \in {"deposit_found", "withdraw_found"}, FindPlayer(r, pc, p, a)
        PROVE  PlayerGoal'
    BY <1>2, <2>1 DEF FindPlayer, platform, Creating
  <2>2. ASSUME NEW k \in Toko, NEW scope \in SUBSET upstream, FindReset(r, k, scope)
        PROVE  PlayerGoal'
    BY <1>2, <2>2 DEF FindReset, platform, Creating
  <2> QED
    BY <1>4, <2>1, <2>2, CreateBegins DEF Begin
<1>5. CASE InsertPlayer(r)
  BY <1>1, <1>5, CreateInserts DEF InsertPlayer, platform
<1>6. CASE Local(r)
  BY <1>6, <1>1, <1>3, <1>5
  DEF Local, RefuseDeposit, CommitDeposit, CommitWithdraw, CommitReset, platform
<1>7. CASE CreateUpstreamFails(r)
  BY <1>7, CreateEnds DEF CreateUpstreamFails, Creating
<1>8. CASE ResetUpstream(r)
  BY <1>2, <1>8 DEF ResetUpstream, Empties, Creating
<1>9. CASE Answered(r)
  <2>1. CASE AskWallet(r)
    BY <2>1, <1>1, <1>3 DEF AskWallet, platform
  <2>2. CASE DepositUpstreamFails(r) \/ WithdrawUpstreamFails(r) \/ ResetUpstreamFails(r)
    BY <2>2, <1>1
    DEF DepositUpstreamFails, WithdrawUpstreamFails, ResetUpstreamFails, platform,
        Gives, Takes, Empties
  <2> QED
    BY <1>9, <1>3, <1>7, <1>8, <2>1, <2>2, CreateMakes DEF Answered
<1>10. CASE WriteFails(r) \/ Abandon(r)
  BY <1>10, <1>1, CreateInserts DEF WriteFails, Abandon, platform
<1> QED
  BY <1>4, <1>6, <1>9, <1>10

\* The strengthened invariant is inductive.
LEMMA PlayerStep == PlayerInv /\ [Next]_vars => PlayerInv'
<1> SUFFICES ASSUME PlayerInv, [Next]_vars PROVE PlayerInv'
  OBVIOUS
<1>1. TypeInv'
  BY TypeStep DEF PlayerInv
<1>2. PlayerGoal'
  <2>1. CASE UNCHANGED vars
    BY <2>1, NoCreate DEF vars, platform
  <2>2. CASE WorldStep
    BY <2>2, NoCreate DEF WorldStep, Play, TopUp, platform
  <2> QED
    BY <2>1, <2>2, PlayerHandler DEF Next
<1> QED
  BY <1>1, <1>2 DEF PlayerInv, PlayerGoal

\* It holds at first: there is no player and no user.
LEMMA PlayerInit == Init => PlayerInv
  BY TypeInit, TypeParts
  DEF Init, PlayerInv, CodeIsOwn, Creating, Idle, PlayersExist, OnePlayerPerName

\* Two creates of one username may both reach the platform; the table never has
\* two players of a name, nor one code twice.
THEOREM NamesAreUnique == Spec => []OnePlayerPerName
<1>1. PlayerInv => OnePlayerPerName
  BY DEF PlayerInv
<1> QED
  BY <1>1, PlayerInit, PlayerStep, PTL DEF Spec

\* A player is written only after the platform has made the user, so every code
\* a later request sends is one the platform knows.
THEOREM PlayersAreKnown == Spec => []PlayersExist
<1>1. PlayerInv => PlayersExist
  BY DEF PlayerInv
<1> QED
  BY <1>1, PlayerInit, PlayerStep, PTL DEF Spec

----------------------------------------------------------------------------
(* What the platform did and the bookings say.                             *)

\* What a handler h in phase pc has moved for the user c, and what a reset has
\* taken from it.
Amount(h, c, pc) == IF h.pc = pc /\ h.player.code = c THEN h.amount ELSE 0
Report(h, c) == IF h.pc = "reset_taken" THEN h.records[c] ELSE 0

\* The platform gave and took at least what is booked and what handlers hold,
\* and exactly that while nothing has failed.
GivenCovers(c) ==
    LET known == booked[c].deposit + InFlight(c, "deposit_given")
    IN  /\ Summable(Moved(c, "deposit_given"))
        /\ given[c] >= known
        /\ faults = 0 => given[c] = known
TakenCovers(c) ==
    LET known == booked[c].withdrawal + InFlight(c, "withdraw_taken")
                    + booked[c].reset + InReset(c) + unrecorded[c]
    IN  /\ Summable(Moved(c, "withdraw_taken"))
        /\ Summable(Swept(c))
        /\ taken[c] >= known
        /\ faults = 0 => taken[c] = known

HandsInv ==
    /\ TypeInv
    /\ \A c \in Codes : GivenCovers(c) /\ TakenCovers(c)

\* What a handler holds is a natural number.
LEMMA HandsAreNat ==
    ASSUME NEW h \in Handler, NEW c \in Codes
    PROVE  /\ \A pc \in {"deposit_given", "withdraw_taken"} : Amount(h, c, pc) \in Nat
           /\ Report(h, c) \in Nat
<1>1. ASSUME NEW pc \in {"deposit_given", "withdraw_taken"}
      PROVE  Amount(h, c, pc) \in Nat
  <2>1. CASE h.pc = pc
    <3>1. h \in Transfer
      BY <1>1, <2>1, TransferShape
    <3> QED
      BY <3>1, NexusAssumption DEF Transfer, Amount
  <2> QED
    BY <2>1 DEF Amount
<1>2. Report(h, c) \in Nat
  BY ResetShape DEF Report, ResetResult
<1> QED
  BY <1>1, <1>2

\* The sum of what handlers have moved follows the one handler that changes.
LEMMA MovedStep ==
    ASSUME NEW r \in Requests, NEW c \in Codes,
           NEW pc \in {"deposit_given", "withdraw_taken"},
           RequestType, RequestType', Summable(Moved(c, pc)),
           \A q \in Requests \ {r} : request'[q] = request[q],
           request[r].pc # pc \/ request'[r].pc # pc
    PROVE  /\ Summable(Moved(c, pc)')
           /\ InFlight(c, pc)' = InFlight(c, pc) - Amount(request[r], c, pc)
                                    + Amount(request'[r], c, pc)
<1> DEFINE f == Moved(c, pc)
           g == Moved(c, pc)'
           Holds(h) == h.pc = pc /\ h.player.code = c
<1>1. /\ DOMAIN f = {q \in Requests : Holds(request[q])}
      /\ DOMAIN g = {q \in Requests : Holds(request'[q])}
      /\ \A q \in DOMAIN f : f[q] = request[q].amount
      /\ \A q \in DOMAIN g : g[q] = request'[q].amount
  BY DEF Moved, At
<1>2. /\ InFlight(c, pc) = SumFunction(f)
      /\ InFlight(c, pc)' = SumFunction(g)
      /\ Summable(f)
  BY DEF InFlight
<1>3. SumFunction(f) \in Int
  BY <1>2, SumOfSummable
<1>4. Amount(request'[r], c, pc) \in Nat
  <2>1. request'[r] \in Handler
    BY DEF RequestType
  <2> QED
    BY <2>1, HandsAreNat
<1> HIDE DEF f, g
<1>5. CASE ~Holds(request[r]) /\ ~Holds(request'[r])
  <2>1. DOMAIN f = DOMAIN g /\ \A q \in DOMAIN f : f[q] = g[q]
    BY <1>1, <1>5
  <2> QED
    BY <1>2, <1>3, <1>5, <2>1, SumOfSame DEF Amount, f, g
<1>6. CASE ~Holds(request[r]) /\ Holds(request'[r])
  <2>1. /\ r \notin DOMAIN f
        /\ DOMAIN g = DOMAIN f \cup {r}
        /\ \A q \in DOMAIN f : g[q] = f[q]
        /\ g[r] = Amount(request'[r], c, pc)
    BY <1>1, <1>6 DEF Amount
  <2>2. SumFunction(g) = SumFunction(f) + g[r] /\ Summable(g)
    BY <1>2, <1>4, <2>1, SumOfExtended
  <2> QED
    BY <1>2, <1>3, <1>4, <1>6, <2>1, <2>2 DEF Amount, g
<1>7. CASE Holds(request[r]) /\ ~Holds(request'[r])
  <2>1. /\ r \in DOMAIN f
        /\ DOMAIN g = DOMAIN f \ {r}
        /\ \A q \in DOMAIN g : g[q] = f[q]
        /\ f[r] = Amount(request[r], c, pc)
    BY <1>1, <1>7 DEF Amount
  <2>2. SumFunction(g) = SumFunction(f) - f[r] /\ Summable(g) /\ f[r] \in Int
    BY <1>2, <2>1, SumOfReduced DEF Summable
  <2> QED
    BY <1>2, <1>3, <1>7, <2>1, <2>2 DEF Amount, g
<1> QED
  BY <1>5, <1>6, <1>7

\* So does the sum of what resets have reported.
LEMMA SweptStep ==
    ASSUME NEW r \in Requests, NEW c \in Codes,
           RequestType, RequestType', Summable(Swept(c)),
           \A q \in Requests \ {r} : request'[q] = request[q],
           request[r].pc # "reset_taken" \/ request'[r].pc # "reset_taken"
    PROVE  /\ Summable(Swept(c)')
           /\ InReset(c)' = InReset(c) - Report(request[r], c) + Report(request'[r], c)
<1> DEFINE f == Swept(c)
           g == Swept(c)'
           Holds(h) == h.pc = "reset_taken"
<1>1. /\ DOMAIN f = {q \in Requests : Holds(request[q])}
      /\ DOMAIN g = {q \in Requests : Holds(request'[q])}
      /\ \A q \in DOMAIN f : f[q] = request[q].records[c]
      /\ \A q \in DOMAIN g : g[q] = request'[q].records[c]
  BY DEF Swept, At
<1>2. /\ InReset(c) = SumFunction(f)
      /\ InReset(c)' = SumFunction(g)
      /\ Summable(f)
  BY DEF InReset
<1>3. SumFunction(f) \in Int
  BY <1>2, SumOfSummable
<1>4. Report(request'[r], c) \in Nat
  <2>1. request'[r] \in Handler
    BY DEF RequestType
  <2> QED
    BY <2>1, HandsAreNat
<1> HIDE DEF f, g
<1>5. CASE ~Holds(request[r]) /\ ~Holds(request'[r])
  <2>1. DOMAIN f = DOMAIN g /\ \A q \in DOMAIN f : f[q] = g[q]
    BY <1>1, <1>5
  <2> QED
    BY <1>2, <1>3, <1>5, <2>1, SumOfSame DEF Report, f, g
<1>6. CASE ~Holds(request[r]) /\ Holds(request'[r])
  <2>1. /\ r \notin DOMAIN f
        /\ DOMAIN g = DOMAIN f \cup {r}
        /\ \A q \in DOMAIN f : g[q] = f[q]
        /\ g[r] = Report(request'[r], c)
    BY <1>1, <1>6 DEF Report
  <2>2. SumFunction(g) = SumFunction(f) + g[r] /\ Summable(g)
    BY <1>2, <1>4, <2>1, SumOfExtended
  <2> QED
    BY <1>2, <1>3, <1>4, <1>6, <2>1, <2>2 DEF Report, g
<1>7. CASE Holds(request[r]) /\ ~Holds(request'[r])
  <2>1. /\ r \in DOMAIN f
        /\ DOMAIN g = DOMAIN f \ {r}
        /\ \A q \in DOMAIN g : g[q] = f[q]
        /\ f[r] = Report(request[r], c)
    BY <1>1, <1>7 DEF Report
  <2>2. SumFunction(g) = SumFunction(f) - f[r] /\ Summable(g) /\ f[r] \in Int
    BY <1>2, <2>1, SumOfReduced DEF Summable
  <2> QED
    BY <1>2, <1>3, <1>7, <2>1, <2>2 DEF Report, g
<1> QED
  BY <1>5, <1>6, <1>7

\* What a step of r adds to the platform's side and to the side of bookings and
\* hands: no less to the first, and the same unless it counts a failure.
Covered(more, less) == more >= less /\ (faults' = faults => more = less)
GivenMove(r, c) ==
    Covered(given'[c] - given[c],
            booked'[c].deposit - booked[c].deposit
                + Amount(request'[r], c, "deposit_given") - Amount(request[r], c, "deposit_given"))
TakenMove(r, c) ==
    Covered(taken'[c] - taken[c],
            booked'[c].withdrawal - booked[c].withdrawal
                + booked'[c].reset - booked[c].reset + unrecorded'[c] - unrecorded[c]
                + Amount(request'[r], c, "withdraw_taken") - Amount(request[r], c, "withdraw_taken")
                + Report(request'[r], c) - Report(request[r], c))
MovesPhase(r) ==
    \A pc \in {"deposit_given", "withdraw_taken", "reset_taken"} :
        request[r].pc # pc \/ request'[r].pc # pc

\* A step whose sides match keeps them matching.
LEMMA HandsMove ==
    ASSUME HandsInv, TypeInv', NEW r \in Requests, NEW c \in Codes,
           \A q \in Requests \ {r} : request'[q] = request[q],
           MovesPhase(r), faults' \in {faults, faults + 1},
           GivenMove(r, c), TakenMove(r, c)
    PROVE  GivenCovers(c)' /\ TakenCovers(c)'
<1> DEFINE h == request[r]
           k == request'[r]
<1>1. /\ RequestType /\ RequestType'
      /\ faults \in Nat
      /\ given[c] \in Nat /\ given'[c] \in Nat
      /\ taken[c] \in Nat /\ taken'[c] \in Nat
      /\ unrecorded[c] \in Nat /\ unrecorded'[c] \in Nat
      /\ booked[c].deposit \in Nat /\ booked'[c].deposit \in Nat
      /\ booked[c].withdrawal \in Nat /\ booked'[c].withdrawal \in Nat
      /\ booked[c].reset \in Nat /\ booked'[c].reset \in Nat
  BY DEF HandsInv, TypeInv, PlatformType, AccountsType, CountersType
<1>2. GivenCovers(c) /\ TakenCovers(c)
  BY DEF HandsInv
<1>3. h \in Handler /\ k \in Handler
  BY <1>1 DEF RequestType
<1>4. /\ Amount(h, c, "deposit_given") \in Nat /\ Amount(k, c, "deposit_given") \in Nat
      /\ Amount(h, c, "withdraw_taken") \in Nat /\ Amount(k, c, "withdraw_taken") \in Nat
      /\ Report(h, c) \in Nat /\ Report(k, c) \in Nat
  BY <1>3, HandsAreNat
<1>5. /\ Summable(Moved(c, "deposit_given")')
      /\ InFlight(c, "deposit_given")' = InFlight(c, "deposit_given")
            - Amount(h, c, "deposit_given") + Amount(k, c, "deposit_given")
      /\ InFlight(c, "deposit_given") \in Int
  BY <1>1, <1>2, MovedStep, SumOfSummable DEF GivenCovers, MovesPhase, InFlight
<1>6. /\ Summable(Moved(c, "withdraw_taken")')
      /\ InFlight(c, "withdraw_taken")' = InFlight(c, "withdraw_taken")
            - Amount(h, c, "withdraw_taken") + Amount(k, c, "withdraw_taken")
      /\ InFlight(c, "withdraw_taken") \in Int
  BY <1>1, <1>2, MovedStep, SumOfSummable DEF TakenCovers, MovesPhase, InFlight
<1>7. /\ Summable(Swept(c)')
      /\ InReset(c)' = InReset(c) - Report(h, c) + Report(k, c)
      /\ InReset(c) \in Int
  BY <1>1, <1>2, SweptStep, SumOfSummable DEF TakenCovers, MovesPhase, InReset
<1>8. faults' = 0 => faults = 0 /\ faults' = faults
  BY <1>1
<1> HIDE DEF h, k
<1>9. GivenCovers(c)'
  BY <1>1, <1>2, <1>4, <1>5, <1>8 DEF GivenCovers, GivenMove, Covered, h, k
<1>10. TakenCovers(c)'
  BY <1>1, <1>2, <1>4, <1>6, <1>7, <1>8 DEF TakenCovers, TakenMove, Covered, h, k
<1> QED
  BY <1>9, <1>10

Handing == {"deposit_given", "withdraw_taken", "reset_taken"}

\* A handler in another phase holds nothing.
LEMMA EmptyHands ==
    ASSUME NEW h, h.pc \notin Handing, NEW c
    PROVE  /\ Amount(h, c, "deposit_given") = 0
           /\ Amount(h, c, "withdraw_taken") = 0
           /\ Report(h, c) = 0
  BY DEF Handing, Amount, Report

\* A step that moves no money and leaves the handler with nothing: it had nothing,
\* or a failure is counted.
LEMMA HandsRest ==
    ASSUME HandsInv, TypeInv', NEW r \in Requests, NEW c \in Codes,
           \A q \in Requests \ {r} : request'[q] = request[q],
           request'[r].pc \notin Handing,
           UNCHANGED <<given, taken, booked, unrecorded>>,
           \/ request[r].pc \notin Handing /\ faults' = faults
           \/ faults' = faults + 1
    PROVE  GivenCovers(c)' /\ TakenCovers(c)'
<1>1. /\ RequestType
      /\ faults \in Nat
      /\ given[c] \in Nat /\ taken[c] \in Nat /\ unrecorded[c] \in Nat
      /\ booked[c].deposit \in Nat /\ booked[c].withdrawal \in Nat /\ booked[c].reset \in Nat
  BY DEF HandsInv, TypeInv, PlatformType, AccountsType, CountersType
<1>2. request[r] \in Handler
  BY <1>1 DEF RequestType
<1>3. /\ Amount(request[r], c, "deposit_given") \in Nat
      /\ Amount(request[r], c, "withdraw_taken") \in Nat
      /\ Report(request[r], c) \in Nat
  BY <1>2, HandsAreNat
<1>4. /\ Amount(request'[r], c, "deposit_given") = 0
      /\ Amount(request'[r], c, "withdraw_taken") = 0
      /\ Report(request'[r], c) = 0
  BY EmptyHands
<1>5. request[r].pc \notin Handing =>
        /\ Amount(request[r], c, "deposit_given") = 0
        /\ Amount(request[r], c, "withdraw_taken") = 0
        /\ Report(request[r], c) = 0
  BY EmptyHands
<1>6. MovesPhase(r) /\ faults' \in {faults, faults + 1}
  BY DEF MovesPhase, Handing
<1>7. faults' = faults => request[r].pc \notin Handing
  BY <1>1
<1>8. given' = given /\ taken' = taken /\ booked' = booked /\ unrecorded' = unrecorded
  OBVIOUS
<1>9. GivenMove(r, c)
  BY <1>1, <1>3, <1>4, <1>5, <1>7, <1>8 DEF GivenMove, Covered
<1>10. TakenMove(r, c)
  <2>1. CASE request[r].pc \notin Handing
    BY <1>1, <1>4, <1>5, <1>8, <2>1 DEF TakenMove, Covered
  <2>2. CASE faults' # faults
    BY <1>1, <1>3, <1>4, <1>8, <2>2 DEF TakenMove, Covered
  <2> QED
    BY <1>7, <2>1, <2>2
<1> QED
  BY <1>6, <1>9, <1>10, HandsMove

\* The platform accepts a deposit: the handler takes it in hand, or its answer is
\* lost and a failure counted.
LEMMA HandsGive ==
    ASSUME HandsInv, TypeInv', NEW r \in Requests, NEW c \in Codes,
           request[r].pc = "deposit_locked", UNCHANGED accounts,
           Gives(request[r].player, request[r].amount),
           \/ Goto(r, "deposit_given") /\ faults' = faults
           \/ Finish(r) /\ faults' = faults + 1
    PROVE  GivenCovers(c)' /\ TakenCovers(c)'
<1> DEFINE p == request[r].player
           amount == request[r].amount
           gain == IF p.code = c THEN amount ELSE 0
<1>1. /\ RequestType
      /\ faults \in Nat
      /\ given \in [Codes -> Nat] /\ taken[c] \in Nat /\ unrecorded[c] \in Nat
      /\ booked[c].deposit \in Nat /\ booked[c].withdrawal \in Nat /\ booked[c].reset \in Nat
  BY DEF HandsInv, TypeInv, PlatformType, AccountsType, CountersType
<1>2. request[r] \in Transfer
  BY <1>1, TransferShape DEF RequestType
<1>3. amount \in Nat
  BY <1>2, NexusAssumption DEF Transfer
<1>4. given'[c] = given[c] + gain /\ taken' = taken
  BY <1>1, <1>3 DEF Gives
<1>5. /\ \A q \in Requests \ {r} : request'[q] = request[q]
      /\ \/ request'[r] = Idle /\ faults' = faults + 1
         \/ request'[r] = [request[r] EXCEPT !.pc = "deposit_given"] /\ faults' = faults
  BY <1>1, OneHandler
<1>6. /\ Amount(request[r], c, "deposit_given") = 0
      /\ Amount(request[r], c, "withdraw_taken") = 0
      /\ Report(request[r], c) = 0
  BY EmptyHands DEF Handing
<1>7. request'[r] = Idle =>
        /\ Amount(request'[r], c, "deposit_given") = 0
        /\ Amount(request'[r], c, "withdraw_taken") = 0
        /\ Report(request'[r], c) = 0
  BY DEF Idle, Amount, Report
<1>8. ASSUME request'[r] = [request[r] EXCEPT !.pc = "deposit_given"]
      PROVE  /\ Amount(request'[r], c, "deposit_given") = gain
             /\ Amount(request'[r], c, "withdraw_taken") = 0
             /\ Report(request'[r], c) = 0
  <2>1. /\ request'[r].pc = "deposit_given"
        /\ request'[r].player = p
        /\ request'[r].amount = amount
    BY <1>1, <1>2, <1>8, PhaseOnly
  <2> QED
    BY <2>1 DEF Amount, Report
<1>9. MovesPhase(r) /\ faults' \in {faults, faults + 1}
  BY <1>5 DEF MovesPhase
<1>10. booked' = booked /\ unrecorded' = unrecorded /\ gain \in Nat
  BY <1>3 DEF accounts
<1> HIDE DEF gain
<1>11. given[c] \in Nat
  BY <1>1
<1>12. GivenMove(r, c) /\ TakenMove(r, c)
  BY <1>1, <1>4, <1>5, <1>6, <1>7, <1>8, <1>10, <1>11 DEF GivenMove, TakenMove, Covered
<1> QED
  BY <1>5, <1>9, <1>12, HandsMove

\* A deposit that is in hand is booked.
LEMMA HandsBookDeposit ==
    ASSUME HandsInv, TypeInv', NEW r \in Requests, NEW c \in Codes,
           request[r].pc = "deposit_given", UNCHANGED <<given, taken>>,
           BookDeposit(request[r].player, request[r].amount),
           Finish(r), faults' \in {faults, faults + 1}
    PROVE  GivenCovers(c)' /\ TakenCovers(c)'
<1> DEFINE p == request[r].player
           amount == request[r].amount
           due == IF p.code = c THEN amount ELSE 0
<1>1. /\ RequestType
      /\ given[c] \in Nat /\ taken[c] \in Nat /\ unrecorded[c] \in Nat
      /\ booked \in [Codes -> [deposit : Nat, withdrawal : Nat, reset : Nat]]
  BY DEF HandsInv, TypeInv, PlatformType, AccountsType
<1>2. request[r] \in Transfer
  BY <1>1, TransferShape DEF RequestType
<1>3. amount \in Nat /\ p \in Player /\ p.code \in Codes
  BY <1>2, NexusAssumption DEF Transfer, Player
<1>4. /\ booked'[c].deposit = booked[c].deposit + due
      /\ booked'[c].withdrawal = booked[c].withdrawal
      /\ booked'[c].reset = booked[c].reset
      /\ unrecorded' = unrecorded /\ given' = given /\ taken' = taken
  BY <1>1, <1>3 DEF BookDeposit
<1>5. /\ \A q \in Requests \ {r} : request'[q] = request[q]
      /\ request'[r] = Idle
  BY <1>1, OneHandler
<1>6. /\ Amount(request[r], c, "deposit_given") = due
      /\ Amount(request[r], c, "withdraw_taken") = 0
      /\ Report(request[r], c) = 0
  BY DEF Amount, Report
<1>7. /\ Amount(request'[r], c, "deposit_given") = 0
      /\ Amount(request'[r], c, "withdraw_taken") = 0
      /\ Report(request'[r], c) = 0
  BY <1>5 DEF Idle, Amount, Report
<1>8. MovesPhase(r)
  BY <1>5 DEF MovesPhase, Idle
<1>9. due \in Nat /\ booked[c].deposit \in Nat /\ booked[c].withdrawal \in Nat
      /\ booked[c].reset \in Nat
  BY <1>1, <1>3
<1> HIDE DEF due
<1>10. GivenMove(r, c)
  BY <1>1, <1>4, <1>6, <1>7, <1>9 DEF GivenMove, Covered
<1>11. TakenMove(r, c)
  BY <1>1, <1>4, <1>6, <1>7, <1>9 DEF TakenMove, Covered
<1> QED
  BY <1>5, <1>8, <1>10, <1>11, HandsMove

\* The platform accepts a withdrawal.
LEMMA HandsTake ==
    ASSUME HandsInv, TypeInv', NEW r \in Requests, NEW c \in Codes,
           request[r].pc = "withdraw_asked", UNCHANGED accounts,
           Takes(request[r].player, request[r].amount),
           \/ Goto(r, "withdraw_taken") /\ faults' = faults
           \/ Finish(r) /\ faults' = faults + 1
    PROVE  GivenCovers(c)' /\ TakenCovers(c)'
<1> DEFINE p == request[r].player
           amount == request[r].amount
           loss == IF p.code = c THEN amount ELSE 0
<1>1. /\ RequestType
      /\ faults \in Nat
      /\ given[c] \in Nat /\ taken \in [Codes -> Nat] /\ unrecorded[c] \in Nat
      /\ booked[c].deposit \in Nat /\ booked[c].withdrawal \in Nat /\ booked[c].reset \in Nat
  BY DEF HandsInv, TypeInv, PlatformType, AccountsType, CountersType
<1>2. request[r] \in Transfer
  BY <1>1, TransferShape DEF RequestType
<1>3. amount \in Nat
  BY <1>2, NexusAssumption DEF Transfer
<1>4. /\ taken'[c] = taken[c] + loss
      /\ given' = given /\ booked' = booked /\ unrecorded' = unrecorded
  BY <1>1, <1>3 DEF Takes, accounts
<1>5. /\ \A q \in Requests \ {r} : request'[q] = request[q]
      /\ \/ request'[r] = Idle /\ faults' = faults + 1
         \/ request'[r] = [request[r] EXCEPT !.pc = "withdraw_taken"] /\ faults' = faults
  BY <1>1, OneHandler
<1>6. /\ Amount(request[r], c, "deposit_given") = 0
      /\ Amount(request[r], c, "withdraw_taken") = 0
      /\ Report(request[r], c) = 0
  BY EmptyHands DEF Handing
<1>7. request'[r] = Idle =>
        /\ Amount(request'[r], c, "deposit_given") = 0
        /\ Amount(request'[r], c, "withdraw_taken") = 0
        /\ Report(request'[r], c) = 0
  BY DEF Idle, Amount, Report
<1>8. ASSUME request'[r] = [request[r] EXCEPT !.pc = "withdraw_taken"]
      PROVE  /\ Amount(request'[r], c, "deposit_given") = 0
             /\ Amount(request'[r], c, "withdraw_taken") = loss
             /\ Report(request'[r], c) = 0
  <2>1. /\ request'[r].pc = "withdraw_taken"
        /\ request'[r].player = p
        /\ request'[r].amount = amount
    BY <1>1, <1>2, <1>8, PhaseOnly
  <2> QED
    BY <2>1 DEF Amount, Report
<1>9. MovesPhase(r) /\ faults' \in {faults, faults + 1}
  BY <1>5 DEF MovesPhase
<1>10. loss \in Nat /\ taken[c] \in Nat
  BY <1>1, <1>3
<1> HIDE DEF loss
<1>11. GivenMove(r, c)
  BY <1>1, <1>4, <1>5, <1>6, <1>7, <1>8, <1>10 DEF GivenMove, Covered
<1>12. TakenMove(r, c)
  <2>1. CASE request'[r] = Idle /\ faults' = faults + 1
    BY <1>1, <1>4, <1>6, <1>7, <1>10, <2>1 DEF TakenMove, Covered
  <2>2. CASE request'[r] = [request[r] EXCEPT !.pc = "withdraw_taken"]
    BY <1>1, <1>4, <1>6, <1>8, <1>10, <2>2 DEF TakenMove, Covered
  <2> QED
    BY <1>5, <2>1, <2>2
<1> QED
  BY <1>5, <1>9, <1>11, <1>12, HandsMove

\* A withdrawal that is in hand is booked.
LEMMA HandsBookWithdrawal ==
    ASSUME HandsInv, TypeInv', NEW r \in Requests, NEW c \in Codes,
           request[r].pc = "withdraw_taken", UNCHANGED <<given, taken>>,
           BookWithdrawal(request[r].player, request[r].amount),
           Finish(r), faults' \in {faults, faults + 1}
    PROVE  GivenCovers(c)' /\ TakenCovers(c)'
<1> DEFINE p == request[r].player
           amount == request[r].amount
           due == IF p.code = c THEN amount ELSE 0
<1>1. /\ RequestType
      /\ given[c] \in Nat /\ taken[c] \in Nat /\ unrecorded[c] \in Nat
      /\ booked \in [Codes -> [deposit : Nat, withdrawal : Nat, reset : Nat]]
  BY DEF HandsInv, TypeInv, PlatformType, AccountsType
<1>2. request[r] \in Transfer
  BY <1>1, TransferShape DEF RequestType
<1>3. amount \in Nat /\ p \in Player /\ p.code \in Codes
  BY <1>2, NexusAssumption DEF Transfer, Player
<1>4. /\ booked'[c].deposit = booked[c].deposit
      /\ booked'[c].withdrawal = booked[c].withdrawal + due
      /\ booked'[c].reset = booked[c].reset
      /\ unrecorded' = unrecorded /\ given' = given /\ taken' = taken
  BY <1>1, <1>3 DEF BookWithdrawal
<1>5. /\ \A q \in Requests \ {r} : request'[q] = request[q]
      /\ request'[r] = Idle
  BY <1>1, OneHandler
<1>6. /\ Amount(request[r], c, "deposit_given") = 0
      /\ Amount(request[r], c, "withdraw_taken") = due
      /\ Report(request[r], c) = 0
  BY DEF Amount, Report
<1>7. /\ Amount(request'[r], c, "deposit_given") = 0
      /\ Amount(request'[r], c, "withdraw_taken") = 0
      /\ Report(request'[r], c) = 0
  BY <1>5 DEF Idle, Amount, Report
<1>8. MovesPhase(r)
  BY <1>5 DEF MovesPhase, Idle
<1>9. due \in Nat /\ booked[c].deposit \in Nat /\ booked[c].withdrawal \in Nat
      /\ booked[c].reset \in Nat
  BY <1>1, <1>3
<1> HIDE DEF due
<1>10. GivenMove(r, c)
  BY <1>1, <1>4, <1>6, <1>7, <1>9 DEF GivenMove, Covered
<1>11. TakenMove(r, c)
  BY <1>1, <1>4, <1>6, <1>7, <1>9 DEF TakenMove, Covered
<1> QED
  BY <1>5, <1>8, <1>10, <1>11, HandsMove

\* The platform empties the wallets that a reset names.
LEMMA HandsEmpty ==
    ASSUME HandsInv, TypeInv', NEW r \in Requests, NEW c \in Codes,
           request[r].pc = "reset_found", UNCHANGED accounts,
           Empties(request[r].scope),
           \/ ResetUpstream(r)
           \/ Finish(r) /\ faults' = faults + 1
    PROVE  GivenCovers(c)' /\ TakenCovers(c)'
<1> DEFINE loss == IF c \in request[r].scope THEN wallet[c] ELSE 0
<1>1. /\ RequestType
      /\ faults \in Nat
      /\ given[c] \in Nat /\ taken[c] \in Nat /\ unrecorded[c] \in Nat
      /\ wallet[c] \in Nat
      /\ booked[c].deposit \in Nat /\ booked[c].withdrawal \in Nat /\ booked[c].reset \in Nat
  BY DEF HandsInv, TypeInv, PlatformType, AccountsType, CountersType
<1>2. /\ taken'[c] = taken[c] + loss
      /\ given' = given /\ booked' = booked /\ unrecorded' = unrecorded
  BY <1>1 DEF Empties, accounts
<1>3. /\ \A q \in Requests \ {r} : request'[q] = request[q]
      /\ \/ request'[r] = Idle /\ faults' = faults + 1
         \/ ResetUpstream(r) /\ faults' = faults
  BY <1>1, OneHandler DEF ResetUpstream
<1>4. /\ Amount(request[r], c, "deposit_given") = 0
      /\ Amount(request[r], c, "withdraw_taken") = 0
      /\ Report(request[r], c) = 0
  BY EmptyHands DEF Handing
<1>5. request'[r] = Idle =>
        /\ Amount(request'[r], c, "deposit_given") = 0
        /\ Amount(request'[r], c, "withdraw_taken") = 0
        /\ Report(request'[r], c) = 0
  BY DEF Idle, Amount, Report
<1>6. ASSUME ResetUpstream(r)
      PROVE  /\ Amount(request'[r], c, "deposit_given") = 0
             /\ Amount(request'[r], c, "withdraw_taken") = 0
             /\ Report(request'[r], c) = loss
  <2>1. request'[r] =
          [pc |-> "reset_taken", toko |-> request[r].toko,
           records |-> [d \in Codes |-> IF d \in request[r].scope THEN wallet[d] ELSE 0]]
    <3> HIDE DEF loss
    <3>1. request' = [request EXCEPT ![r] =
            [pc |-> "reset_taken", toko |-> request[r].toko,
             records |-> [d \in Codes |-> IF d \in request[r].scope THEN wallet[d] ELSE 0]]]
      BY <1>6, Zenon DEF ResetUpstream
    <3> QED
      BY <1>1, <3>1, OneHandler, Zenon
  <2>2. request'[r].pc = "reset_taken" /\ request'[r].records[c] = loss
    BY <2>1
  <2> QED
    BY <2>2 DEF Amount, Report
<1>7. MovesPhase(r) /\ faults' \in {faults, faults + 1}
  BY <1>3 DEF MovesPhase
<1>8. loss \in Nat
  BY <1>1
<1> HIDE DEF loss
<1>9. GivenMove(r, c)
  BY <1>1, <1>2, <1>3, <1>4, <1>5, <1>6, <1>8 DEF GivenMove, Covered
<1>10. TakenMove(r, c)
  <2>1. CASE request'[r] = Idle /\ faults' = faults + 1
    BY <1>1, <1>2, <1>4, <1>5, <1>8, <2>1 DEF TakenMove, Covered
  <2>2. CASE ResetUpstream(r)
    BY <1>1, <1>2, <1>4, <1>6, <1>8, <2>2 DEF TakenMove, Covered
  <2> QED
    BY <1>3, <2>1, <2>2
<1> QED
  BY <1>3, <1>7, <1>9, <1>10, HandsMove

\* What a reset has reported of a user is recorded, or goes unrecorded.
LEMMA HandsBookReset ==
    ASSUME HandsInv, TypeInv', NEW r \in Requests, NEW c \in Codes,
           request[r].pc = "reset_taken", UNCHANGED <<given, taken>>,
           BookReset(request[r].toko, request[r].records),
           Finish(r), faults' \in {faults, faults + 1}
    PROVE  GivenCovers(c)' /\ TakenCovers(c)'
<1> DEFINE due == request[r].records[c]
           own == c \in OwnCodes(request[r].toko)
<1>1. /\ RequestType
      /\ given[c] \in Nat /\ taken[c] \in Nat /\ unrecorded \in [Codes -> Nat]
      /\ booked \in [Codes -> [deposit : Nat, withdrawal : Nat, reset : Nat]]
  BY DEF HandsInv, TypeInv, PlatformType, AccountsType
<1>2. due \in Nat
  BY <1>1, ResetMoves
<1>3. booked[c] \in [deposit : Nat, withdrawal : Nat, reset : Nat]
  BY <1>1
<1>4. /\ booked'[c] = IF own THEN [booked[c] EXCEPT !.reset = @ + due] ELSE booked[c]
      /\ unrecorded'[c] = IF own THEN unrecorded[c] ELSE unrecorded[c] + due
      /\ given' = given /\ taken' = taken
  BY DEF BookReset
<1> HIDE DEF due, own
<1>5. /\ booked'[c].deposit = booked[c].deposit
      /\ booked'[c].withdrawal = booked[c].withdrawal
      /\ booked'[c].reset = IF own THEN booked[c].reset + due ELSE booked[c].reset
  BY <1>3, <1>4
<1>6. /\ \A q \in Requests \ {r} : request'[q] = request[q]
      /\ request'[r] = Idle
  BY <1>1, OneHandler
<1>7. /\ Amount(request[r], c, "deposit_given") = 0
      /\ Amount(request[r], c, "withdraw_taken") = 0
      /\ Report(request[r], c) = due
  BY DEF Amount, Report, due
<1>8. /\ Amount(request'[r], c, "deposit_given") = 0
      /\ Amount(request'[r], c, "withdraw_taken") = 0
      /\ Report(request'[r], c) = 0
  BY <1>6 DEF Idle, Amount, Report
<1>9. MovesPhase(r)
  BY <1>6 DEF MovesPhase, Idle
<1>10. /\ booked[c].deposit \in Nat /\ booked[c].withdrawal \in Nat
       /\ booked[c].reset \in Nat /\ unrecorded[c] \in Nat
  BY <1>1, <1>3
<1>11. GivenMove(r, c)
  BY <1>1, <1>4, <1>5, <1>7, <1>8, <1>10 DEF GivenMove, Covered
<1>12. TakenMove(r, c)
  <2>1. CASE own
    BY <1>1, <1>2, <1>4, <1>5, <1>7, <1>8, <1>10, <2>1 DEF TakenMove, Covered
  <2>2. CASE ~own
    BY <1>1, <1>2, <1>4, <1>5, <1>7, <1>8, <1>10, <2>2 DEF TakenMove, Covered
  <2> QED
    BY <2>1, <2>2
<1> QED
  BY <1>6, <1>9, <1>11, <1>12, HandsMove

\* The steps of a handler.
LEMMA HandsHandler ==
    ASSUME HandsInv, TypeInv', NEW r \in Requests, NEW c \in Codes,
           Begin(r) \/ Local(r) \/ Answered(r) \/ WriteFails(r) \/ Abandon(r)
    PROVE  GivenCovers(c)' /\ TakenCovers(c)'
<1> USE DEF At
<1>r. RequestType
  BY DEF HandsInv, TypeInv
<1>f. \A kind : Fault(kind) => faults' = faults + 1
  BY DEF Fault
<1>1. CASE \E h : /\ request' = [request EXCEPT ![r] = h]
                  /\ h.pc \notin Handing
                  /\ UNCHANGED <<given, taken, booked, unrecorded>>
                  /\ \/ request[r].pc \notin Handing /\ faults' = faults
                     \/ faults' = faults + 1
  <2>1. PICK h : /\ request' = [request EXCEPT ![r] = h]
                 /\ h.pc \notin Handing
                 /\ UNCHANGED <<given, taken, booked, unrecorded>>
                 /\ \/ request[r].pc \notin Handing /\ faults' = faults
                    \/ faults' = faults + 1
    BY <1>1
  <2>2. /\ \A q \in Requests \ {r} : request'[q] = request[q]
        /\ request'[r] = h
    BY <1>r, <2>1, OneHandler
  <2> QED
    BY <2>1, <2>2, HandsRest
<1>2. CASE /\ Finish(r)
           /\ UNCHANGED <<given, taken, booked, unrecorded>>
           /\ \/ request[r].pc \notin Handing /\ faults' = faults
              \/ faults' = faults + 1
  BY <1>1, <1>2 DEF Finish, Idle, Handing
<1>3. CASE LockBalance(r) \/ CreateUpstream(r) \/ (AskWallet(r) /\ Goto(r, "withdraw_asked"))
  <2>1. PICK pc \in {"deposit_locked", "create_made", "withdraw_asked"} :
            /\ Goto(r, pc)
            /\ UNCHANGED <<given, taken, booked, unrecorded, faults>>
            /\ request[r].pc \notin Handing
    BY <1>3 DEF LockBalance, CreateUpstream, AskWallet, platform, accounts, Handing
  <2>2. request[r] \in Create \cup Transfer
    BY <1>3, <1>r, CreateShape, TransferShape
    DEF LockBalance, CreateUpstream, AskWallet, RequestType
  <2>3. [request[r] EXCEPT !.pc = pc].pc = pc
    BY <1>r, <2>2, PhaseOnly
  <2>4. request' = [request EXCEPT ![r] = [request[r] EXCEPT !.pc = pc]]
    BY <2>1 DEF Goto
  <2> QED
    BY <1>1, <2>1, <2>3, <2>4 DEF Handing
<1>4. CASE Begin(r)
  <2>1. ASSUME NEW p \in Player, CheckUsername(r, p)
        PROVE  GivenCovers(c)' /\ TakenCovers(c)'
    BY <1>1, <2>1 DEF CheckUsername, platform, accounts, Handing
  <2>2. ASSUME NEW p \in players, NEW a \in Amounts,
               NEW pc \in {"deposit_found", "withdraw_found"}, FindPlayer(r, pc, p, a)
        PROVE  GivenCovers(c)' /\ TakenCovers(c)'
    BY <1>1, <2>2 DEF FindPlayer, platform, accounts, Handing
  <2>3. ASSUME NEW k \in Toko, NEW scope \in SUBSET upstream, FindReset(r, k, scope)
        PROVE  GivenCovers(c)' /\ TakenCovers(c)'
    BY <1>1, <2>3 DEF FindReset, platform, accounts, Handing
  <2> QED
    BY <1>4, <2>1, <2>2, <2>3 DEF Begin
<1>5. CASE Local(r)
  <2>1. CASE InsertPlayer(r) \/ RefuseDeposit(r)
    BY <1>2, <2>1 DEF InsertPlayer, RefuseDeposit, platform, accounts, Handing
  <2>2. CASE CommitDeposit(r) \/ CommitWithdraw(r) \/ CommitReset(r)
    BY <2>2, HandsBookDeposit, HandsBookWithdrawal, HandsBookReset
    DEF CommitDeposit, CommitWithdraw, CommitReset, platform
  <2> QED
    BY <1>3, <1>5, <2>1, <2>2 DEF Local
<1>6. CASE Answered(r)
  <2>1. CASE CreateUpstreamFails(r)
    BY <1>2, <1>f, <2>1 DEF CreateUpstreamFails, accounts, Handing
  <2>2. CASE DepositUpstream(r)
    BY <2>2, HandsGive DEF DepositUpstream
  <2>3. CASE DepositUpstreamFails(r)
    BY <1>2, <1>f, <2>3, HandsGive DEF DepositUpstreamFails, platform, accounts, Handing
  <2>4. CASE AskWallet(r)
    BY <1>2, <1>3, <2>4 DEF AskWallet, platform, accounts, Handing
  <2>5. CASE WithdrawUpstream(r)
    BY <2>5, HandsTake DEF WithdrawUpstream
  <2>6. CASE WithdrawUpstreamFails(r)
    BY <1>2, <1>f, <2>6, HandsTake DEF WithdrawUpstreamFails, platform, accounts, Handing
  <2>7. CASE ResetUpstream(r)
    BY <2>7, HandsEmpty DEF ResetUpstream
  <2>8. CASE ResetUpstreamFails(r)
    BY <1>2, <1>f, <2>8, HandsEmpty DEF ResetUpstreamFails, platform, accounts, Handing
  <2> QED
    BY <1>3, <1>6, <2>1, <2>2, <2>3, <2>4, <2>5, <2>6, <2>7, <2>8 DEF Answered
<1>7. CASE WriteFails(r)
  <2>1. CASE UNCHANGED accounts
    BY <1>2, <1>7, <1>f, <2>1 DEF WriteFails, platform, accounts
  <2>2. CASE \/ /\ request[r].pc = "deposit_given"
                /\ BookDeposit(request[r].player, request[r].amount)
             \/ /\ request[r].pc = "withdraw_taken"
                /\ BookWithdrawal(request[r].player, request[r].amount)
             \/ /\ request[r].pc = "reset_taken"
                /\ BookReset(request[r].toko, request[r].records)
    BY <1>7, <1>f, <2>2, HandsBookDeposit, HandsBookWithdrawal, HandsBookReset
    DEF WriteFails, platform
  <2> QED
    BY <1>7, <2>1, <2>2 DEF WriteFails
<1>8. CASE Abandon(r)
  BY <1>2, <1>8, <1>f DEF Abandon, platform, accounts
<1> QED
  BY <1>4, <1>5, <1>6, <1>7, <1>8

\* A step that moves no money between the sides and no handler.
LEMMA HandsSame ==
    ASSUME HandsInv, UNCHANGED <<given, taken, booked, unrecorded, request, faults>>
    PROVE  \A c \in Codes : GivenCovers(c)' /\ TakenCovers(c)'
  BY ZenonT(40) DEF HandsInv, GivenCovers, TakenCovers, InFlight, InReset, Moved, Swept, At

\* The strengthened invariant is inductive.
LEMMA HandsStep == HandsInv /\ [Next]_vars => HandsInv'
<1> SUFFICES ASSUME HandsInv, [Next]_vars PROVE HandsInv'
  OBVIOUS
<1>1. TypeInv'
  BY TypeStep DEF HandsInv
<1>2. \A c \in Codes : GivenCovers(c)' /\ TakenCovers(c)'
  <2>1. CASE UNCHANGED vars
    BY <2>1, HandsSame DEF vars, platform, accounts
  <2>2. CASE WorldStep
    BY <2>2, HandsSame DEF WorldStep, Play, TopUp, platform, accounts
  <2>3. ASSUME NEW r \in Requests,
               Begin(r) \/ Local(r) \/ Answered(r) \/ WriteFails(r) \/ Abandon(r)
        PROVE  \A c \in Codes : GivenCovers(c)' /\ TakenCovers(c)'
    BY <1>1, <2>3, HandsHandler
  <2> QED
    BY <2>1, <2>2, <2>3 DEF Next
<1> QED
  BY <1>1, <1>2 DEF HandsInv

\* It holds at first: nobody has moved anything.
LEMMA HandsInit == Init => HandsInv
<1> SUFFICES ASSUME Init PROVE HandsInv
  OBVIOUS
<1>1. TypeInv
  BY TypeInit, TypeParts
<1>2. ASSUME NEW c \in Codes PROVE GivenCovers(c) /\ TakenCovers(c)
  <2>1. /\ DOMAIN Moved(c, "deposit_given") = {}
        /\ DOMAIN Moved(c, "withdraw_taken") = {}
        /\ DOMAIN Swept(c) = {}
    BY DEF Init, Idle, Moved, Swept, At
  <2>2. /\ Summable(Moved(c, "deposit_given")) /\ InFlight(c, "deposit_given") = 0
        /\ Summable(Moved(c, "withdraw_taken")) /\ InFlight(c, "withdraw_taken") = 0
        /\ Summable(Swept(c)) /\ InReset(c) = 0
    BY <2>1, SumOfNothing DEF InFlight, InReset
  <2>3. /\ given[c] = 0 /\ taken[c] = 0 /\ unrecorded[c] = 0
        /\ booked[c].deposit = 0 /\ booked[c].withdrawal = 0 /\ booked[c].reset = 0
    BY DEF Init, NoBooking
  <2> QED
    BY <2>2, <2>3 DEF GivenCovers, TakenCovers
<1> QED
  BY <1>1, <1>2 DEF HandsInv

\* What handlers hold adds up to no less than nothing, so what is booked the
\* platform did.
LEMMA HandsExplain == HandsInv => BookedIsDone
<1> SUFFICES ASSUME HandsInv, NEW c \in Codes
             PROVE  /\ booked[c].deposit <= given[c]
                    /\ booked[c].withdrawal + booked[c].reset <= taken[c]
  BY DEF BookedIsDone
<1>1. /\ RequestType
      /\ given[c] \in Nat /\ taken[c] \in Nat /\ unrecorded[c] \in Nat
      /\ booked[c].deposit \in Nat /\ booked[c].withdrawal \in Nat /\ booked[c].reset \in Nat
  BY DEF HandsInv, TypeInv, PlatformType, AccountsType
<1>2. GivenCovers(c) /\ TakenCovers(c)
  BY DEF HandsInv
<1>3. ASSUME NEW pc \in {"deposit_given", "withdraw_taken"}, Summable(Moved(c, pc))
      PROVE  InFlight(c, pc) \in Nat
  <2>1. ASSUME NEW r \in DOMAIN Moved(c, pc) PROVE Moved(c, pc)[r] \in Nat
    BY <1>1, <2>1, TransferMoves DEF Moved, At
  <2> QED
    BY <1>3, <2>1, SumOfNaturals DEF InFlight, Summable
<1>4. ASSUME Summable(Swept(c)) PROVE InReset(c) \in Nat
  <2>1. ASSUME NEW r \in DOMAIN Swept(c) PROVE Swept(c)[r] \in Nat
    BY <1>1, <2>1, ResetMoves DEF Swept, At
  <2> QED
    BY <1>4, <2>1, SumOfNaturals DEF InReset, Summable
<1>5. InFlight(c, "deposit_given") \in Nat /\ given[c] >= booked[c].deposit + InFlight(c, "deposit_given")
  BY <1>2, <1>3 DEF GivenCovers
<1>6. /\ InFlight(c, "withdraw_taken") \in Nat
      /\ InReset(c) \in Nat
      /\ taken[c] >= booked[c].withdrawal + InFlight(c, "withdraw_taken")
                        + booked[c].reset + InReset(c) + unrecorded[c]
  BY <1>2, <1>3, <1>4 DEF TakenCovers
<1> QED
  BY <1>1, <1>5, <1>6

\* A toko is never charged for money a player did not get, and no withdrawal is
\* recorded that the platform did not make, for any number of handlers and
\* failures: what handlers have in hand is counted with what is booked.
THEOREM BookingsAreTrue == Spec => []BookedIsDone
  BY HandsInit, HandsStep, HandsExplain, PTL DEF Spec

----------------------------------------------------------------------------
(* Money is the players'.                                                  *)

Stranger(c) == \A p \in players : p.code # c

Transferring(h) ==
    h.pc \in {"deposit_found", "deposit_locked", "deposit_given",
              "withdraw_found", "withdraw_asked", "withdraw_taken"}
Resetting(h) == h.pc \in {"reset_found", "reset_taken"}

\* A handler moves the money of a player; a reset has taken nothing from a user
\* that is no player, and a reset of one player concerns a player of the toko.
HandlerKnown(r) ==
    /\ Transferring(request[r]) => request[r].player \in players
    /\ request[r].pc = "reset_taken" =>
        \A c \in Codes : request[r].records[c] # 0 =>
            /\ ~Stranger(c)
            /\ c \in OwnCodes(request[r].toko) \/ ReachesAll
    /\ request[r].pc = "reset_found" =>
        request[r].scope \subseteq OwnCodes(request[r].toko) \/ ReachesAll

\* A user that is no player has no money and no bookings; what is recorded
\* nowhere was a player's of another toko.
UserKnown(c) ==
    /\ Stranger(c) => /\ wallet[c] = 0
                      /\ booked[c].deposit = 0
                      /\ booked[c].withdrawal = 0
    /\ unrecorded[c] # 0 =>
        \E p \in players : p.code = c /\ ReachesAll /\ Toko # {p.toko}

KnownInv ==
    /\ PlayerInv
    /\ \A r \in Requests : HandlerKnown(r)
    /\ \A c \in Codes : UserKnown(c)

\* No step takes a player away.
LEMMA PlayersGrow == [Next]_vars => players \subseteq players'
  BY ZenonT(40) DEF Next, vars, WorldStep, Play, TopUp, Begin, CheckUsername, FindPlayer, FindReset,
         Local, InsertPlayer, LockBalance, RefuseDeposit, CommitDeposit, CommitWithdraw,
         CommitReset, Answered, CreateUpstream, CreateUpstreamFails, DepositUpstream,
         DepositUpstreamFails, AskWallet, WithdrawUpstream, WithdrawUpstreamFails,
         ResetUpstream, ResetUpstreamFails, WriteFails, Abandon

\* With more players there are no more strangers, and a toko has no fewer codes.
LEMMA FewerStrangers ==
    ASSUME players \subseteq players'
    PROVE  /\ \A c : Stranger(c)' => Stranger(c)
           /\ \A k : OwnCodes(k) \subseteq OwnCodes(k)'
  BY DEF Stranger, OwnCodes

\* A handler that has not changed, or holds neither a player nor a reset, is in order.
LEMMA HandlerKept ==
    ASSUME players \subseteq players', NEW q \in Requests,
           \/ HandlerKnown(q) /\ request'[q] = request[q]
           \/ ~Transferring(request'[q]) /\ ~Resetting(request'[q])
    PROVE  HandlerKnown(q)'
<1>1. CASE HandlerKnown(q) /\ request'[q] = request[q]
  BY <1>1, FewerStrangers DEF HandlerKnown, Transferring
<1>2. CASE ~Transferring(request'[q]) /\ ~Resetting(request'[q])
  BY <1>2 DEF HandlerKnown, Transferring, Resetting
<1> QED
  BY <1>1, <1>2

\* A handler that goes on with the same player is in order.
LEMMA MoverKept ==
    ASSUME KnownInv, players \subseteq players', NEW r \in Requests,
           Transferring(request[r]),
           NEW pc \in {"deposit_locked", "deposit_given", "withdraw_asked", "withdraw_taken"},
           Goto(r, pc)
    PROVE  \A q \in Requests : HandlerKnown(q)'
<1>1. RequestType /\ \A q \in Requests : HandlerKnown(q)
  BY DEF KnownInv, PlayerInv, TypeInv
<1>2. request[r] \in Transfer
  BY <1>1, TransferShape DEF Transferring, RequestType
<1>3. /\ \A q \in Requests \ {r} : request'[q] = request[q]
      /\ request'[r] = [request[r] EXCEPT !.pc = pc]
  BY <1>1, OneHandler
<1>4. request'[r].pc = pc /\ request'[r].player = request[r].player
  BY <1>1, <1>2, <1>3, PhaseOnly
<1>5. request[r].player \in players'
  BY <1>1 DEF HandlerKnown
<1>6. HandlerKnown(r)'
  BY <1>4, <1>5 DEF HandlerKnown
<1> QED
  BY <1>1, <1>3, <1>6, HandlerKept

\* What a step does to the handlers, when r ends, or starts or makes a user.
LEMMA OtherKept ==
    ASSUME KnownInv, players \subseteq players', NEW r \in Requests, NEW h,
           request' = [request EXCEPT ![r] = h], ~Transferring(h), ~Resetting(h)
    PROVE  \A q \in Requests : HandlerKnown(q)'
<1>1. RequestType /\ \A q \in Requests : HandlerKnown(q)
  BY DEF KnownInv, PlayerInv, TypeInv
<1>2. /\ \A q \in Requests \ {r} : request'[q] = request[q]
      /\ request'[r] = h
  BY <1>1, OneHandler
<1> QED
  BY <1>1, <1>2, HandlerKept

\* A reset that has run took from players only, and from those it named.
LEMMA ResetKept ==
    ASSUME KnownInv, NEW r \in Requests, ResetUpstream(r)
    PROVE  \A q \in Requests : HandlerKnown(q)'
<1>1. RequestType /\ wallet \in [Codes -> Nat]
      /\ (\A q \in Requests : HandlerKnown(q)) /\ \A c \in Codes : UserKnown(c)
  BY DEF KnownInv, PlayerInv, TypeInv, PlatformType
<1> DEFINE records == [c \in Codes |-> IF c \in request[r].scope THEN wallet[c] ELSE 0]
<1>2. /\ \A q \in Requests \ {r} : request'[q] = request[q]
      /\ request'[r] = [pc |-> "reset_taken", toko |-> request[r].toko, records |-> records]
      /\ request[r].pc = "reset_found"
      /\ players' = players
  BY <1>1, OneHandler DEF ResetUpstream, At
<1>3. ASSUME NEW c \in Codes, records[c] # 0
      PROVE  /\ ~Stranger(c)
             /\ c \in OwnCodes(request[r].toko) \/ ReachesAll
  <2>1. c \in request[r].scope /\ wallet[c] # 0
    BY <1>3
  <2>2. ~Stranger(c)
    BY <1>1, <2>1 DEF UserKnown
  <2>3. request[r].scope \subseteq OwnCodes(request[r].toko) \/ ReachesAll
    BY <1>1, <1>2 DEF HandlerKnown
  <2> QED
    BY <2>1, <2>2, <2>3
<1> HIDE DEF records
<1>4. HandlerKnown(r)'
  <2>1. \A c : Stranger(c)' <=> Stranger(c)
    BY <1>2 DEF Stranger
  <2>2. \A k : OwnCodes(k)' = OwnCodes(k)
    BY <1>2 DEF OwnCodes
  <2>3. /\ request'[r].pc = "reset_taken"
        /\ request'[r].toko = request[r].toko
        /\ request'[r].records = records
    BY <1>2
  <2> QED
    BY <1>3, <2>1, <2>2, <2>3 DEF HandlerKnown, Transferring
<1> QED
  BY <1>1, <1>2, <1>4, HandlerKept

\* A step that leaves the money of strangers alone keeps users in order.
LEMMA UsersKept ==
    ASSUME KnownInv, players \subseteq players', UNCHANGED unrecorded,
           \A c \in Codes : Stranger(c) =>
                /\ wallet'[c] = 0 \/ wallet'[c] = wallet[c]
                /\ booked'[c].deposit = booked[c].deposit
                /\ booked'[c].withdrawal = booked[c].withdrawal
    PROVE  \A c \in Codes : UserKnown(c)'
  BY FewerStrangers DEF KnownInv, UserKnown

\* What a handler moves on the platform, or books, is a player's.
LEMMA UsersOfMover ==
    ASSUME KnownInv, NEW r \in Requests, Transferring(request[r]), UNCHANGED players,
           \/ /\ Gives(request[r].player, request[r].amount)
                    \/ Takes(request[r].player, request[r].amount)
              /\ UNCHANGED accounts
           \/ /\ BookDeposit(request[r].player, request[r].amount)
                    \/ BookWithdrawal(request[r].player, request[r].amount)
              /\ UNCHANGED platform
    PROVE  \A c \in Codes : UserKnown(c)'
<1> DEFINE p == request[r].player
<1>1. HandlerKnown(r)
  BY DEF KnownInv
<1>2. p \in players
  BY <1>1 DEF HandlerKnown
<1>3. \A c : Stranger(c) => p.code # c
  BY <1>2 DEF Stranger
<1>4. /\ wallet \in [Codes -> Nat]
      /\ booked \in [Codes -> [deposit : Nat, withdrawal : Nat, reset : Nat]]
  BY DEF KnownInv, PlayerInv, TypeInv, PlatformType, AccountsType
<1>5. ASSUME Gives(p, request[r].amount) \/ Takes(p, request[r].amount), UNCHANGED accounts
      PROVE  \A c \in Codes : UserKnown(c)'
  <2>1. \A c \in Codes : Stranger(c) => wallet'[c] = wallet[c]
    BY <1>3, <1>4, <1>5 DEF Gives, Takes
  <2> QED
    BY <1>5, <2>1, UsersKept DEF accounts
<1>6. ASSUME BookDeposit(p, request[r].amount) \/ BookWithdrawal(p, request[r].amount),
             UNCHANGED platform
      PROVE  \A c \in Codes : UserKnown(c)'
  <2>1. \A c \in Codes : Stranger(c) => booked'[c] = booked[c]
    BY <1>3, <1>4, <1>6 DEF BookDeposit, BookWithdrawal
  <2>2. UNCHANGED unrecorded
    BY <1>6 DEF BookDeposit, BookWithdrawal
  <2> QED
    BY <1>6, <2>1, <2>2, UsersKept DEF platform
<1> QED
  BY <1>5, <1>6

\* A reset books withdrawals of the toko's own players; the rest that it took was
\* a player's of another toko.
LEMMA UsersOfReset ==
    ASSUME KnownInv, NEW r \in Requests, request[r].pc = "reset_taken",
           BookReset(request[r].toko, request[r].records), UNCHANGED <<players, platform>>
    PROVE  \A c \in Codes : UserKnown(c)'
<1> DEFINE k == request[r].toko
           records == request[r].records
<1>1. /\ HandlerKnown(r)
      /\ request[r] \in Handler
      /\ booked \in [Codes -> [deposit : Nat, withdrawal : Nat, reset : Nat]]
      /\ unrecorded \in [Codes -> Nat]
      /\ players \subseteq Player
  BY DEF KnownInv, PlayerInv, TypeInv, AccountsType, RequestType
<1>2. k \in Toko /\ records \in [Codes -> Nat]
  BY <1>1, ResetShape DEF ResetResult
<1>3. \A c \in Codes : records[c] # 0 =>
        /\ ~Stranger(c)
        /\ c \in OwnCodes(k) \/ ReachesAll
  BY <1>1 DEF HandlerKnown
<1> HIDE DEF k, records
<1>4. ASSUME NEW c \in Codes PROVE UserKnown(c)'
  <2>1. UserKnown(c)
    BY DEF KnownInv
  <2>2. /\ booked'[c].deposit = booked[c].deposit
        /\ booked'[c].withdrawal = booked[c].withdrawal
        /\ unrecorded'[c] = IF c \in OwnCodes(k) THEN unrecorded[c] ELSE unrecorded[c] + records[c]
    BY <1>1 DEF BookReset, k, records
  <2>3. Stranger(c)' <=> Stranger(c)
    BY DEF Stranger
  <2>4. wallet' = wallet
    BY DEF platform
  <2>5. ASSUME unrecorded'[c] # 0, unrecorded[c] = 0
        PROVE  \E p \in players : p.code = c /\ ReachesAll /\ Toko # {p.toko}
    <3>1. c \notin OwnCodes(k) /\ records[c] # 0
      BY <1>1, <1>2, <2>2, <2>5
    <3>2. PICK p \in players : p.code = c
      BY <1>3, <3>1 DEF Stranger
    <3>3. p.toko # k
      BY <3>1, <3>2 DEF OwnCodes
    <3> QED
      BY <1>2, <1>3, <3>1, <3>2, <3>3
  <2> QED
    BY <2>1, <2>2, <2>3, <2>4, <2>5 DEF UserKnown
<1> QED
  BY <1>4

\* The steps of a handler keep handlers and users in order.
LEMMA KnownHandler ==
    ASSUME KnownInv, players \subseteq players', NEW r \in Requests,
           Begin(r) \/ Local(r) \/ Answered(r) \/ WriteFails(r) \/ Abandon(r)
    PROVE  (\A q \in Requests : HandlerKnown(q)') /\ \A c \in Codes : UserKnown(c)'
<1> DEFINE Handlers == \A q \in Requests : HandlerKnown(q)'
           Users == \A c \in Codes : UserKnown(c)'
<1> SUFFICES Handlers /\ Users
  OBVIOUS
<1> USE DEF At
<1>r. /\ RequestType
      /\ \A q \in Requests : HandlerKnown(q)
  BY DEF KnownInv, PlayerInv, TypeInv
<1>e. ASSUME Finish(r) PROVE Handlers
  BY <1>e, OtherKept DEF Finish, Idle, Transferring, Resetting
<1>u. ASSUME UNCHANGED <<wallet, booked, unrecorded>> PROVE Users
  BY <1>u, UsersKept
<1>m. ASSUME UNCHANGED accounts, \E scope : Empties(scope) PROVE Users
  <2>1. wallet \in [Codes -> Nat]
    BY DEF KnownInv, PlayerInv, TypeInv, PlatformType
  <2> QED
    BY <1>m, <2>1, UsersKept DEF Empties, accounts
<1> HIDE DEF Handlers, Users
<1>1. CASE Begin(r)
  <2>1. ASSUME NEW p \in Player, CheckUsername(r, p)
        PROVE  Handlers /\ Users
    BY <1>u, <2>1, OtherKept
    DEF CheckUsername, platform, accounts, Transferring, Resetting, Handlers
  <2>2. ASSUME NEW p \in players, NEW a \in Amounts,
               NEW pc \in {"deposit_found", "withdraw_found"}, FindPlayer(r, pc, p, a)
        PROVE  Handlers /\ Users
    <3>1. /\ \A q \in Requests \ {r} : request'[q] = request[q]
          /\ request'[r] = [pc |-> pc, player |-> p, amount |-> a]
      BY <1>r, <2>2, OneHandler DEF FindPlayer
    <3>2. HandlerKnown(r)'
      BY <2>2, <3>1 DEF HandlerKnown, FindPlayer
    <3> QED
      BY <1>r, <1>u, <2>2, <3>1, <3>2, HandlerKept DEF FindPlayer, platform, accounts, Handlers
  <2>3. ASSUME NEW k \in Toko, NEW scope \in SUBSET upstream, FindReset(r, k, scope)
        PROVE  Handlers /\ Users
    <3>1. /\ \A q \in Requests \ {r} : request'[q] = request[q]
          /\ request'[r] = [pc |-> "reset_found", toko |-> k, scope |-> scope]
          /\ players' = players
      BY <1>r, <2>3, OneHandler DEF FindReset
    <3>2. scope \subseteq OwnCodes(k) \/ ReachesAll
      BY <2>3 DEF FindReset, OwnCodes, ReachesAll
    <3>3. HandlerKnown(r)'
      BY <3>1, <3>2 DEF HandlerKnown, Transferring, OwnCodes
    <3> QED
      BY <1>r, <1>u, <2>3, <3>1, <3>3, HandlerKept DEF FindReset, platform, accounts, Handlers
  <2> QED
    BY <1>1, <2>1, <2>2, <2>3 DEF Begin
<1>2. CASE Local(r)
  <2>1. CASE InsertPlayer(r) \/ RefuseDeposit(r)
    BY <1>e, <1>u, <2>1 DEF InsertPlayer, RefuseDeposit, platform, accounts
  <2>2. CASE LockBalance(r)
    BY <1>u, <2>2, MoverKept DEF LockBalance, Transferring, platform, accounts, Handlers
  <2>3. CASE CommitDeposit(r)
    BY <1>e, <2>3, UsersOfMover DEF CommitDeposit, Transferring, Users
  <2>4. CASE CommitWithdraw(r)
    BY <1>e, <2>4, UsersOfMover DEF CommitWithdraw, Transferring, Users
  <2>5. CASE CommitReset(r)
    BY <1>e, <2>5, UsersOfReset DEF CommitReset, Users
  <2> QED
    BY <1>2, <2>1, <2>2, <2>3, <2>4, <2>5 DEF Local
<1>3. CASE Answered(r)
  <2>1. CASE CreateUpstream(r)
    <3>1. request[r] \in Create
      BY <1>r, <2>1, CreateShape DEF CreateUpstream, RequestType
    <3>2. [request[r] EXCEPT !.pc = "create_made"].pc = "create_made"
      BY <1>r, <3>1, PhaseOnly
    <3> QED
      BY <1>u, <2>1, <3>2, OtherKept
      DEF CreateUpstream, Goto, accounts, Transferring, Resetting, Handlers
  <2>2. CASE CreateUpstreamFails(r)
    BY <1>e, <1>u, <2>2 DEF CreateUpstreamFails, accounts
  <2>3. CASE DepositUpstream(r)
    BY <2>3, MoverKept, UsersOfMover DEF DepositUpstream, Transferring, Handlers, Users
  <2>4. CASE DepositUpstreamFails(r)
    BY <1>e, <1>u, <2>4, UsersOfMover
    DEF DepositUpstreamFails, Transferring, platform, accounts, Users
  <2>5. CASE AskWallet(r)
    BY <1>e, <1>u, <2>5, MoverKept DEF AskWallet, Transferring, platform, accounts, Handlers
  <2>6. CASE WithdrawUpstream(r)
    BY <2>6, MoverKept, UsersOfMover DEF WithdrawUpstream, Transferring, Handlers, Users
  <2>7. CASE WithdrawUpstreamFails(r)
    BY <1>e, <1>u, <2>7, UsersOfMover
    DEF WithdrawUpstreamFails, Transferring, platform, accounts, Users
  <2>8. CASE ResetUpstream(r)
    BY <1>m, <2>8, ResetKept DEF ResetUpstream, Handlers
  <2>9. CASE ResetUpstreamFails(r)
    BY <1>e, <1>m, <1>u, <2>9 DEF ResetUpstreamFails, platform, accounts
  <2> QED
    BY <1>3, <2>1, <2>2, <2>3, <2>4, <2>5, <2>6, <2>7, <2>8, <2>9 DEF Answered
<1>4. CASE WriteFails(r)
  <2>1. Handlers
    BY <1>4, <1>e DEF WriteFails
  <2>2. CASE UNCHANGED accounts
    BY <1>4, <1>u, <2>1, <2>2 DEF WriteFails, platform, accounts
  <2>3. CASE /\ \/ /\ request[r].pc = "deposit_given"
                   /\ BookDeposit(request[r].player, request[r].amount)
                \/ /\ request[r].pc = "withdraw_taken"
                   /\ BookWithdrawal(request[r].player, request[r].amount)
             /\ UNCHANGED players
    BY <1>4, <2>1, <2>3, UsersOfMover DEF WriteFails, Transferring, Users
  <2>4. CASE /\ request[r].pc = "reset_taken"
             /\ BookReset(request[r].toko, request[r].records)
             /\ UNCHANGED players
    BY <1>4, <2>1, <2>4, UsersOfReset DEF WriteFails, Users
  <2> QED
    BY <1>4, <2>2, <2>3, <2>4 DEF WriteFails
<1>5. CASE Abandon(r)
  BY <1>5, <1>e, <1>u DEF Abandon, platform, accounts
<1> QED
  BY <1>1, <1>2, <1>3, <1>4, <1>5

\* A game moves the wallet of a player, a top-up none.
LEMMA KnownWorld ==
    ASSUME KnownInv, WorldStep
    PROVE  (\A q \in Requests : HandlerKnown(q)') /\ \A c \in Codes : UserKnown(c)'
<1>1. UNCHANGED <<players, booked, unrecorded, request>>
  BY DEF WorldStep, Play, TopUp, accounts
<1>2. \A q \in Requests : HandlerKnown(q)'
  BY <1>1, HandlerKept DEF KnownInv
<1>3. \A c \in Codes : Stranger(c) => wallet'[c] = wallet[c]
  <2>1. wallet \in [Codes -> Nat]
    BY DEF KnownInv, PlayerInv, TypeInv, PlatformType
  <2>2. ASSUME NEW c \in Codes, NEW b \in GameResults, Play(c, b)
        PROVE  \A d \in Codes : Stranger(d) => wallet'[d] = wallet[d]
    BY <2>1, <2>2 DEF Play, Stranger
  <2>3. ASSUME NEW k \in Toko, NEW a \in Amounts, TopUp(k, a)
        PROVE  wallet' = wallet
    BY <2>3 DEF TopUp, platform
  <2> QED
    BY <2>2, <2>3 DEF WorldStep
<1>4. \A c \in Codes : UserKnown(c)'
  BY <1>1, <1>3, UsersKept
<1> QED
  BY <1>2, <1>4

\* The strengthened invariant is inductive.
LEMMA KnownStep == KnownInv /\ [Next]_vars => KnownInv'
<1> SUFFICES ASSUME KnownInv, [Next]_vars PROVE KnownInv'
  OBVIOUS
<1>1. PlayerInv'
  BY PlayerStep DEF KnownInv
<1>2. players \subseteq players'
  BY PlayersGrow
<1>3. (\A q \in Requests : HandlerKnown(q)') /\ \A c \in Codes : UserKnown(c)'
  <2>1. CASE UNCHANGED vars
    BY <2>1, HandlerKept, UsersKept DEF vars, platform, accounts, KnownInv
  <2>2. CASE WorldStep
    BY <2>2, KnownWorld
  <2>3. ASSUME NEW r \in Requests,
               Begin(r) \/ Local(r) \/ Answered(r) \/ WriteFails(r) \/ Abandon(r)
        PROVE  (\A q \in Requests : HandlerKnown(q)') /\ \A c \in Codes : UserKnown(c)'
    BY <1>2, <2>3, KnownHandler
  <2> QED
    BY <2>1, <2>2, <2>3 DEF Next
<1> QED
  BY <1>1, <1>3 DEF KnownInv

\* It holds at first: there is no player and no money.
LEMMA KnownInit == Init => KnownInv
<1> SUFFICES ASSUME Init PROVE KnownInv
  OBVIOUS
<1>1. \A r \in Requests : HandlerKnown(r)
  BY DEF Init, Idle, HandlerKnown, Transferring
<1>2. \A c \in Codes : UserKnown(c)
  BY DEF Init, NoBooking, UserKnown
<1> QED
  BY <1>1, <1>2, PlayerInit DEF KnownInv

\* While nothing fails the two systems agree, to what handlers have in hand; and
\* with or without failures the money that is recorded nowhere was a player's of
\* another toko, in a reset of all users.
THEOREM MoneyIsNotStranded == Spec => []NothingStranded
<1>1. HandsInv /\ KnownInv => NothingStranded
  <2> SUFFICES ASSUME HandsInv, KnownInv, NEW c \in Codes
               PROVE  /\ faults = 0 =>
                            /\ given[c] = booked[c].deposit + InFlight(c, "deposit_given")
                            /\ taken[c] = booked[c].withdrawal + InFlight(c, "withdraw_taken")
                                            + booked[c].reset + InReset(c) + unrecorded[c]
                      /\ unrecorded[c] # 0 =>
                            \E p \in players :
                                p.code = c /\ ReachesAll /\ Toko # {p.toko}
    BY DEF NothingStranded
  <2>1. GivenCovers(c) /\ TakenCovers(c) /\ UserKnown(c)
    BY DEF HandsInv, KnownInv
  <2> QED
    BY <2>1 DEF GivenCovers, TakenCovers, UserKnown
<1> QED
  BY <1>1, HandsInit, HandsStep, KnownInit, KnownStep, PTL DEF Spec

----------------------------------------------------------------------------
(* A balance follows from what is booked.                                  *)

BooksInv ==
    /\ KnownInv
    /\ \A k \in Toko : Summable(Net(k))
    /\ BalanceExplained

BooksGoal == (\A k \in Toko : Summable(Net(k))) /\ BalanceExplained

\* Of two players only one has a code, so a booking concerns one toko.
LEMMA CodeOfOne ==
    ASSUME KnownInv, NEW p \in players, NEW k \in Toko
    PROVE  p.code \in OwnCodes(k) <=> k = p.toko
<1>1. OnePlayerPerName
  BY DEF KnownInv, PlayerInv
<1> QED
  BY <1>1 DEF OnePlayerPerName, OwnCodes

\* The net of a toko's players is the same when neither they nor their bookings change.
LEMMA NetSame ==
    ASSUME NEW k \in Toko, Summable(Net(k)), OwnCodes(k)' = OwnCodes(k),
           \A c \in OwnCodes(k) : /\ booked'[c].deposit = booked[c].deposit
                                  /\ booked'[c].withdrawal = booked[c].withdrawal
    PROVE  SumFunction(Net(k)') = SumFunction(Net(k)) /\ Summable(Net(k)')
<1> DEFINE f == Net(k)
           g == Net(k)'
<1>1. DOMAIN g = DOMAIN f /\ \A c \in DOMAIN f : f[c] = g[c]
  BY DEF Net
<1> HIDE DEF f, g
<1>2. Summable(f)
  BY DEF f
<1>3. SumFunction(g) = SumFunction(f) /\ Summable(g)
  BY <1>1, <1>2, SumOfSame
<1> QED
  BY <1>3 DEF f, g

\* A step that books nothing but resets, and makes no player, keeps the account
\* when balances follow the top-ups.
LEMMA BooksKept ==
    ASSUME BooksInv, UNCHANGED players,
           \A c \in Codes : /\ booked'[c].deposit = booked[c].deposit
                            /\ booked'[c].withdrawal = booked[c].withdrawal,
           \A k \in Toko : balance'[k] - topped'[k] = balance[k] - topped[k],
           AccountsType'
    PROVE  BooksGoal'
<1>1. ASSUME NEW k \in Toko
      PROVE  /\ Summable(Net(k)')
             /\ balance'[k] = InitialBalance[k] + topped'[k] + SumFunction(Net(k)')
  <2>1. OwnCodes(k)' = OwnCodes(k)
    BY DEF OwnCodes
  <2>2. OwnCodes(k) \subseteq Codes
    BY DEF OwnCodes, Player, BooksInv, KnownInv, PlayerInv, TypeInv
  <2>3. SumFunction(Net(k)') = SumFunction(Net(k)) /\ Summable(Net(k)')
    BY <2>1, <2>2, NetSame DEF BooksInv
  <2>4. SumFunction(Net(k)) \in Int
    BY SumOfSummable DEF BooksInv
  <2>5. /\ balance[k] \in Int /\ balance'[k] \in Int
        /\ topped[k] \in Nat /\ topped'[k] \in Nat
        /\ InitialBalance[k] \in Nat
    BY NexusAssumption DEF BooksInv, KnownInv, PlayerInv, TypeInv, AccountsType
  <2>6. balance[k] = InitialBalance[k] + topped[k] + SumFunction(Net(k))
    BY DEF BooksInv, BalanceExplained
  <2> QED
    BY <2>3, <2>4, <2>5, <2>6
<1> QED
  BY <1>1 DEF BooksGoal, BalanceExplained

\* A new player has no bookings and adds nothing.
LEMMA BooksJoin ==
    ASSUME BooksInv, NEW p \in Player, Stranger(p.code), players' = players \cup {p},
           UNCHANGED accounts
    PROVE  BooksGoal'
<1>1. ASSUME NEW k \in Toko
      PROVE  SumFunction(Net(k)') = SumFunction(Net(k)) /\ Summable(Net(k)')
  <2>1. CASE k # p.toko
    <3>1. OwnCodes(k)' = OwnCodes(k)
      BY <2>1 DEF OwnCodes
    <3> QED
      BY <3>1, NetSame DEF BooksInv, accounts
  <2>2. CASE k = p.toko
    <3> DEFINE f == Net(k)
               g == Net(k)'
    <3>1. p.code \in Codes
      BY DEF Player
    <3>2. booked[p.code].withdrawal = 0 /\ booked[p.code].deposit = 0
      BY <3>1 DEF BooksInv, KnownInv, UserKnown
    <3>3. p.code \notin OwnCodes(k) /\ OwnCodes(k)' = OwnCodes(k) \cup {p.code}
      BY <2>2 DEF OwnCodes, Stranger
    <3>4. /\ p.code \notin DOMAIN f
          /\ DOMAIN g = DOMAIN f \cup {p.code}
          /\ \A c \in DOMAIN f : g[c] = f[c]
          /\ g[p.code] = 0
      BY <3>2, <3>3 DEF Net, accounts
    <3> HIDE DEF f, g
    <3>5. Summable(f) /\ SumFunction(f) \in Int
      BY SumOfSummable DEF f, BooksInv
    <3>6. SumFunction(g) = SumFunction(f) + g[p.code] /\ Summable(g)
      BY <3>4, <3>5, SumOfExtended
    <3> QED
      BY <3>4, <3>5, <3>6 DEF f, g
  <2> QED
    BY <2>1, <2>2
<1> QED
  BY <1>1 DEF BooksGoal, BooksInv, BalanceExplained, accounts

\* A deposit or withdrawal of a player changes its toko's balance by what it books.
LEMMA BooksOfMover ==
    ASSUME BooksInv, NEW p \in players, NEW amount \in Nat, UNCHANGED players,
           BookDeposit(p, amount) \/ BookWithdrawal(p, amount)
    PROVE  BooksGoal'
<1>1. p \in Player /\ p.code \in Codes /\ p.toko \in Toko
  BY DEF BooksInv, KnownInv, PlayerInv, TypeInv, Player
<1>2. /\ balance \in [Toko -> Int]
      /\ booked \in [Codes -> [deposit : Nat, withdrawal : Nat, reset : Nat]]
      /\ topped \in [Toko -> Nat]
      /\ InitialBalance \in [Toko -> Nat]
  BY NexusAssumption DEF BooksInv, KnownInv, PlayerInv, TypeInv, AccountsType
<1>3. PICK gain \in {amount, -amount} :
        /\ balance' = [balance EXCEPT ![p.toko] = @ + gain]
        /\ booked'[p.code].withdrawal - booked'[p.code].deposit
                = booked[p.code].withdrawal - booked[p.code].deposit + gain
        /\ \A c \in Codes : c # p.code => booked'[c] = booked[c]
        /\ topped' = topped
  <2>1. CASE BookDeposit(p, amount)
    <3>1. balance' = [balance EXCEPT ![p.toko] = @ + (-amount)]
      BY <1>1, <1>2, <2>1 DEF BookDeposit
    <3>2. /\ booked'[p.code].withdrawal = booked[p.code].withdrawal
          /\ booked'[p.code].deposit = booked[p.code].deposit + amount
          /\ \A c \in Codes : c # p.code => booked'[c] = booked[c]
          /\ topped' = topped
      BY <1>1, <1>2, <2>1 DEF BookDeposit
    <3>3. booked[p.code].withdrawal \in Nat /\ booked[p.code].deposit \in Nat
      BY <1>1, <1>2
    <3> QED
      BY <3>1, <3>2, <3>3
  <2>2. CASE BookWithdrawal(p, amount)
    <3>1. balance' = [balance EXCEPT ![p.toko] = @ + amount]
      BY <2>2 DEF BookWithdrawal
    <3>2. /\ booked'[p.code].withdrawal = booked[p.code].withdrawal + amount
          /\ booked'[p.code].deposit = booked[p.code].deposit
          /\ \A c \in Codes : c # p.code => booked'[c] = booked[c]
          /\ topped' = topped
      BY <1>1, <1>2, <2>2 DEF BookWithdrawal
    <3>3. booked[p.code].withdrawal \in Nat /\ booked[p.code].deposit \in Nat
      BY <1>1, <1>2
    <3> QED
      BY <3>1, <3>2, <3>3
  <2> QED
    BY <2>1, <2>2
<1>4. \A k \in Toko : OwnCodes(k)' = OwnCodes(k) /\ OwnCodes(k) \subseteq Codes
  BY DEF OwnCodes, Player, BooksInv, KnownInv, PlayerInv, TypeInv
<1>5. ASSUME NEW k \in Toko
      PROVE  /\ Summable(Net(k)')
             /\ SumFunction(Net(k)') = SumFunction(Net(k)) + (IF k = p.toko THEN gain ELSE 0)
  <2>1. Summable(Net(k)) /\ SumFunction(Net(k)) \in Int
    BY SumOfSummable DEF BooksInv
  <2>2. p.code \in OwnCodes(k) <=> k = p.toko
    BY CodeOfOne DEF BooksInv
  <2>3. CASE k # p.toko
    <3>1. \A c \in OwnCodes(k) : booked'[c] = booked[c]
      BY <1>3, <1>4, <2>2, <2>3
    <3>2. SumFunction(Net(k)') = SumFunction(Net(k)) /\ Summable(Net(k)')
      BY <1>4, <2>1, <3>1, NetSame
    <3> QED
      BY <2>1, <2>3, <3>2
  <2>4. CASE k = p.toko
    <3> DEFINE f == Net(k)
               g == Net(k)'
    <3>1. /\ p.code \in DOMAIN f
          /\ DOMAIN g = DOMAIN f
          /\ \A c \in DOMAIN f : c # p.code => g[c] = f[c]
          /\ g[p.code] = f[p.code] + gain
      BY <1>3, <1>4, <2>2, <2>4 DEF Net
    <3>2. f[p.code] \in Int /\ gain \in Int
      BY <2>1, <3>1 DEF Summable
    <3> HIDE DEF f, g
    <3>3. Summable(f) /\ SumFunction(f) \in Int
      BY <2>1 DEF f
    <3>4. SumFunction(g) = SumFunction(f) - f[p.code] + g[p.code] /\ Summable(g)
      BY <3>1, <3>2, <3>3, SumOfUpdated
    <3>5. SumFunction(g) = SumFunction(f) + gain
      BY <3>1, <3>2, <3>3, <3>4
    <3> QED
      BY <2>4, <3>4, <3>5 DEF f, g
  <2> QED
    BY <2>3, <2>4
<1>6. ASSUME NEW k \in Toko
      PROVE  balance'[k] = InitialBalance[k] + topped'[k] + SumFunction(Net(k)')
  <2>1. /\ balance[k] = InitialBalance[k] + topped[k] + SumFunction(Net(k))
        /\ SumFunction(Net(k)) \in Int
    BY SumOfSummable DEF BooksInv, BalanceExplained
  <2>2. balance'[k] = balance[k] + (IF k = p.toko THEN gain ELSE 0)
    BY <1>2, <1>3
  <2> QED
    BY <1>2, <1>3, <1>5, <2>1, <2>2
<1> QED
  BY <1>5, <1>6 DEF BooksGoal, BalanceExplained

\* The steps of a handler keep the account of every toko.
LEMMA BooksHandler ==
    ASSUME BooksInv, TypeInv', NEW r \in Requests,
           Begin(r) \/ Local(r) \/ Answered(r) \/ WriteFails(r) \/ Abandon(r)
    PROVE  BooksGoal'
<1> USE DEF At
<1>r. /\ RequestType
      /\ HandlerKnown(r)
      /\ CodeIsOwn(r)
      /\ booked \in [Codes -> [deposit : Nat, withdrawal : Nat, reset : Nat]]
      /\ balance \in [Toko -> Int] /\ topped \in [Toko -> Nat]
  BY DEF BooksInv, KnownInv, PlayerInv, TypeInv, AccountsType
<1>1. CASE UNCHANGED <<players, accounts>>
  BY <1>1, BooksKept DEF accounts, TypeInv
<1>2. CASE /\ request[r].pc = "create_made"
           /\ players' = players \cup {request[r].player}
           /\ UNCHANGED accounts
  <2>1. request[r].player \in Player
    BY <1>2, <1>r, CreateMoves
  <2>2. Stranger(request[r].player.code)
    BY <1>2, <1>r DEF CodeIsOwn, Creating, Stranger
  <2> QED
    BY <1>2, <2>1, <2>2, BooksJoin
<1>3. CASE /\ request[r].pc \in {"deposit_given", "withdraw_taken"}
           /\ \/ BookDeposit(request[r].player, request[r].amount)
              \/ BookWithdrawal(request[r].player, request[r].amount)
           /\ UNCHANGED players
  <2>1. request[r].player \in players /\ request[r].amount \in Nat
    BY <1>3, <1>r, TransferMoves DEF HandlerKnown, Transferring
  <2> QED
    BY <1>3, <2>1, BooksOfMover
<1>4. CASE BookReset(request[r].toko, request[r].records) /\ UNCHANGED players
  <2>1. \A c \in Codes : /\ booked'[c].deposit = booked[c].deposit
                         /\ booked'[c].withdrawal = booked[c].withdrawal
    BY <1>4, <1>r DEF BookReset
  <2> QED
    BY <1>4, <2>1, BooksKept DEF BookReset, TypeInv
<1>5. CASE Begin(r)
  BY <1>1, <1>5 DEF Begin, CheckUsername, FindPlayer, FindReset
<1>6. CASE Local(r)
  BY <1>1, <1>2, <1>3, <1>4, <1>6
  DEF Local, InsertPlayer, LockBalance, RefuseDeposit, CommitDeposit, CommitWithdraw, CommitReset
<1>7. CASE Answered(r)
  BY <1>1, <1>7
  DEF Answered, CreateUpstream, CreateUpstreamFails, DepositUpstream, DepositUpstreamFails,
      AskWallet, WithdrawUpstream, WithdrawUpstreamFails, ResetUpstream, ResetUpstreamFails
<1>8. CASE WriteFails(r) \/ Abandon(r)
  BY <1>1, <1>2, <1>3, <1>4, <1>8 DEF WriteFails, Abandon
<1> QED
  BY <1>5, <1>6, <1>7, <1>8

\* The strengthened invariant is inductive.
LEMMA BooksStep == BooksInv /\ [Next]_vars => BooksInv'
<1> SUFFICES ASSUME BooksInv, [Next]_vars PROVE BooksInv'
  OBVIOUS
<1>1. KnownInv' /\ TypeInv'
  BY KnownStep DEF BooksInv, KnownInv, PlayerInv
<1>2. BooksGoal'
  <2>1. CASE UNCHANGED vars
    BY <1>1, <2>1, BooksKept DEF vars, accounts, TypeInv
  <2>2. CASE WorldStep
    <3>1. ASSUME NEW c \in Codes, NEW b \in GameResults, Play(c, b)
          PROVE  BooksGoal'
      BY <1>1, <3>1, BooksKept DEF Play, accounts, TypeInv
    <3>2. ASSUME NEW k \in Toko, NEW a \in Amounts, TopUp(k, a)
          PROVE  BooksGoal'
      <4>1. a \in Nat /\ balance \in [Toko -> Int] /\ topped \in [Toko -> Nat]
        BY NexusAssumption DEF BooksInv, KnownInv, PlayerInv, TypeInv, AccountsType
      <4>2. /\ balance' = [balance EXCEPT ![k] = @ + a]
            /\ topped' = [topped EXCEPT ![k] = @ + a]
            /\ players' = players /\ booked' = booked
        BY <3>2 DEF TopUp
      <4>3. \A i \in Toko : balance'[i] - topped'[i] = balance[i] - topped[i]
        BY <4>1, <4>2
      <4> QED
        BY <1>1, <4>2, <4>3, BooksKept DEF TypeInv
    <3> QED
      BY <2>2, <3>1, <3>2 DEF WorldStep
  <2>3. ASSUME NEW r \in Requests,
               Begin(r) \/ Local(r) \/ Answered(r) \/ WriteFails(r) \/ Abandon(r)
        PROVE  BooksGoal'
    BY <1>1, <2>3, BooksHandler
  <2> QED
    BY <2>1, <2>2, <2>3 DEF Next
<1> QED
  BY <1>1, <1>2 DEF BooksInv, BooksGoal

\* It holds at first: no player has booked anything.
LEMMA BooksInit == Init => BooksInv
<1> SUFFICES ASSUME Init PROVE BooksInv
  OBVIOUS
<1>1. \A k \in Toko : DOMAIN Net(k) = {}
  BY DEF Init, Net, OwnCodes
<1>2. \A k \in Toko : Summable(Net(k)) /\ SumFunction(Net(k)) = 0
  BY <1>1, SumOfNothing
<1>3. BalanceExplained
  BY <1>2, NexusAssumption DEF Init, BalanceExplained
<1> QED
  BY <1>2, <1>3, KnownInit DEF BooksInv

\* A toko's balance is what it started with, its top-ups, and what the deposits
\* and withdrawals of its players have booked, for any number of tokos, players
\* and handlers, and whatever fails: a booking is of a player, a code belongs to
\* one player, and the row and the transaction are written together.
THEOREM BalanceIsExplained == Spec => []BalanceExplained
<1>1. BooksInv => BalanceExplained
  BY DEF BooksInv
<1> QED
  BY <1>1, BooksInit, BooksStep, PTL DEF Spec

=============================================================================
