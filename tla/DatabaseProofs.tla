--------------------------- MODULE DatabaseProofs ---------------------------
(***************************************************************************)
(* What is proved of the database: of DbInterface, for any operations that *)
(* are transactions and any number of clients and of mishaps, that what    *)
(* succeeded was carried out once unless the connection was lost within    *)
(* its transaction; of Migrator, for any migrations and any number of      *)
(* programs and of interruptions, that a connected program finds its       *)
(* columns and that the versions recorded have been applied.               *)
(*                                                                         *)
(* DbInterface: the invariant keeps an account of every operation that has *)
(* not been interrupted.  The writes the server has stored and those in    *)
(* the open transaction are together the writes among the statements that  *)
(* have been executed.  A connection that breaks takes the second part     *)
(* with it, which is why it has to be empty or the operation counted as    *)
(* interrupted.                                                            *)
(*                                                                         *)
(* Migrator: as long as one program works alone and is not interrupted,    *)
(* the schema is exactly known at every statement (ExactInv).  After the   *)
(* first interruption, or with several programs, columns may be missing    *)
(* from and added to any version's schema, and GeneralInv says what of a   *)
(* version or a table is there for good: a column that was added stays     *)
(* until a migration takes it away, whoever executes what after that.      *)
(***************************************************************************)
EXTENDS DbInterface, Migrator, FiniteSetTheorems, SequenceTheorems,
        WellFoundedInduction, TLAPS

-----------------------------------------------------------------------------
(* DbInterface *)

(* The type invariant, and what else holds of the control alone. *)
ShapeInv ==
  /\ TypeOK
  /\ pending \in [Clients -> Nat] /\ durable \in [Clients -> Nat]
  /\ \A c \in Clients : /\ pc[c] <= Length(c)
                        /\ posted[c] => outcome[c] = "running"
                        /\ pending[c] > 0 => inTx
  /\ serving \in Clients => ~Closes(serving)
  /\ at = "sleep" => link = "none"

\* the statements of c that the server has executed
Executed(c) == IF serving = c /\ at = "executed" THEN pc[c] ELSE pc[c] - 1

Account(c) ==
  /\ outcome[c] = "running" => durable[c] + pending[c] = Before(c, Executed(c))
  /\ outcome[c] = "ok" => durable[c] = Writes(c) /\ pending[c] = 0
  /\ (serving = c /\ at = "executed") => link = "up"
  /\ (serving = c /\ at = "executed" /\ Program[c][pc[c]] = "commit")
       => pending[c] = 0

AccountInv == \A c \in Clients : ~interrupted[c] => Account(c)

IInv == ShapeInv /\ AccountInv

-----------------------------------------------------------------------------
(* Programs and the writes in them *)

LEMMA WritesUpTo ==
  ASSUME NEW c \in Clients, NEW n \in Nat
  PROVE  /\ Before(c, n) \in Nat
         /\ IsFiniteSet({i \in 1 .. n : Program[c][i] = "write"})
<1> DEFINE W == {i \in 1 .. n : Program[c][i] = "write"}
<1>1. IsFiniteSet(1 .. n)
  BY FS_Interval
<1>2. W \subseteq 1 .. n
  OBVIOUS
<1>3. IsFiniteSet(W)
  BY <1>1, <1>2, FS_Subset
<1> QED BY <1>3, FS_CardinalityType DEF Before

LEMMA NoneBefore == ASSUME NEW c \in Clients PROVE Before(c, 0) = 0
<1>1. {i \in 1 .. 0 : Program[c][i] = "write"} = {}
  OBVIOUS
<1> QED BY <1>1, FS_EmptySet DEF Before

LEMMA OneMore ==
  ASSUME NEW c \in Clients, NEW n \in Nat \ {0}
  PROVE  Before(c, n) = Before(c, n - 1)
                        + (IF Program[c][n] = "write" THEN 1 ELSE 0)
<1> DEFINE W(k) == {i \in 1 .. k : Program[c][i] = "write"}
<1>0. n - 1 \in Nat
  OBVIOUS
<1>1. IsFiniteSet(W(n - 1)) /\ Before(c, n - 1) \in Nat
  BY <1>0, WritesUpTo
<1>2. CASE Program[c][n] = "write"
  <2>1. W(n) = W(n - 1) \cup {n}
    BY <1>2
  <2>2. n \notin W(n - 1)
    OBVIOUS
  <2>3. Cardinality(W(n)) = Cardinality(W(n - 1)) + 1
    BY <1>1, <2>1, <2>2, FS_AddElement
  <2> QED BY <1>2, <2>3 DEF Before
<1>3. CASE Program[c][n] # "write"
  <2>1. W(n) = W(n - 1)
    BY <1>3
  <2> QED BY <1>1, <1>3, <2>1 DEF Before
<1> QED BY <1>2, <1>3

LEMMA NoMoreThanAll ==
  ASSUME NEW c \in Clients, Length(c) \in Nat, NEW n \in Nat, n <= Length(c)
  PROVE  Before(c, n) <= Writes(c)
<1> DEFINE W(k) == {i \in 1 .. k : Program[c][i] = "write"}
<1>1. W(n) \subseteq W(Length(c))
  OBVIOUS
<1>2. IsFiniteSet(W(Length(c)))
  BY WritesUpTo
<1>3. Cardinality(W(n)) <= Cardinality(W(Length(c)))
  BY <1>1, <1>2, FS_Subset
<1> QED BY <1>3 DEF Before, Writes

(* An operation is the disconnect or a transaction. *)
LEMMA ProgramShape ==
  ASSUME NEW c \in Clients
  PROVE  /\ Length(c) \in Nat \ {0}
         /\ Writes(c) \in Nat
         /\ Closes(c) => Length(c) = 1 /\ Writes(c) = 0
         /\ ~Closes(c) => /\ \A i \in 1 .. Length(c) :
                                Program[c][i] \in {"begin", "write", "commit"}
                          /\ Program[c][1] = "begin"
                          /\ Program[c][Length(c)] = "commit"
<1>1. CASE Program[c] = <<"close">>
  <2>1. Length(c) = 1 /\ Program[c][1] = "close"
    BY <1>1 DEF Length
  <2>2. Before(c, 1) = Before(c, 0)
    BY <2>1, OneMore, NoneBefore
  <2>3. Writes(c) = 0
    BY <2>1, <2>2, NoneBefore DEF Writes
  <2> QED BY <2>1, <2>3 DEF Closes
<1>2. CASE IsTransaction(Program[c])
  <2>1. /\ Program[c] \in Seq(Statements \ {"close"})
        /\ Program[c] # <<>>
        /\ Program[c][1] = "begin" /\ Program[c][Len(Program[c])] = "commit"
    BY <1>2 DEF IsTransaction
  <2>2. Length(c) \in Nat \ {0}
    BY <2>1 DEF Length
  <2>3. \A i \in 1 .. Length(c) : Program[c][i] \in Statements \ {"close"}
    BY <2>1 DEF Length
  <2>4. ~Closes(c)
    BY <2>1 DEF Closes
  <2>5. Writes(c) \in Nat
    BY <2>2, WritesUpTo DEF Writes
  <2> QED BY <2>1, <2>2, <2>3, <2>4, <2>5 DEF Statements, Length
<1> QED BY <1>1, <1>2, InterfaceAssumption

LEMMA CapIsBound ==
  ASSUME NEW c \in Clients, NEW n \in Nat
  PROVE  /\ Capped(c, n) \in 0 .. Writes(c) + 1
         /\ n <= Writes(c) => Capped(c, n) = n
BY ProgramShape DEF Capped

-----------------------------------------------------------------------------
(* The initial states *)

LEMMA InitIInv == Init => IInv
<1> SUFFICES ASSUME Init PROVE IInv
  OBVIOUS
<1> USE DEF Init
<1>1. \A c \in Clients : Length(c) \in Nat \ {0} /\ Writes(c) \in Nat
  BY ProgramShape
<1>2. None \notin Clients \cup {Keepalive}
  BY InterfaceAssumption
<1>3. ShapeInv
  <2>1. TypeOK
    <3>1. pc \in [Clients -> Nat \ {0}] /\ 0 \in 0 .. MaxCloses
          /\ 0 \in 0 .. MaxMishaps
      BY InterfaceAssumption
    <3>2. \A c \in Clients : 0 \in 0 .. Writes(c) + 1
      BY <1>1
    <3> QED BY <1>2, <3>1, <3>2 DEF TypeOK
  <2>2. \A c \in Clients : pc[c] <= Length(c)
    BY <1>1
  <2> QED BY <1>2, <2>1, <2>2 DEF ShapeInv
<1>4. AccountInv
  <2> SUFFICES ASSUME NEW c \in Clients PROVE Account(c)
    BY DEF AccountInv
  <2>1. Executed(c) = 0
    BY <1>2 DEF Executed
  <2> QED BY <2>1, NoneBefore DEF Account
<1> QED BY <1>3, <1>4 DEF IInv

-----------------------------------------------------------------------------
(* Steps that leave the account of every operation as it is *)

(* Nothing that an account is about changes; the thread goes from one point *)
(* to another while no answer is under way.                                 *)
LEMMA AccountsStay ==
  ASSUME AccountInv, UNCHANGED clientVars, UNCHANGED serverVars,
         UNCHANGED interrupted,
         \/ at # "executed" /\ at' # "executed"
         \/ UNCHANGED <<serving, at>> /\ (link = "up" => link' = "up")
  PROVE  AccountInv'
<1> SUFFICES ASSUME NEW c \in Clients, ~interrupted[c] PROVE Account(c)'
  BY DEF AccountInv
<1>1. Account(c)
  BY DEF AccountInv
<1>2. /\ UNCHANGED <<durable, pending, pc, outcome>>
      /\ Executed(c)' = Executed(c)
  BY DEF clientVars, serverVars, Executed
<1> QED BY <1>1, <1>2 DEF Account

(* A connection that ends. *)
LEMMA DisconnectShape ==
  ASSUME ShapeInv, NEW l \in {"none", "dead"}, Disconnect(l)
  PROVE  /\ interrupted' \in [Clients -> BOOLEAN]
         /\ pending' \in [Clients -> Nat]
         /\ durable' \in [Clients -> Nat]
         /\ \A c \in Clients : /\ pending'[c] = 0
                               /\ pending'[c] \in 0 .. Writes(c) + 1
                               /\ durable'[c] \in 0 .. Writes(c) + 1
         /\ inTx' = FALSE /\ link' = l
<1>1. \A c \in Clients : Writes(c) \in Nat
  BY ProgramShape
<1> QED BY <1>1 DEF ShapeInv, TypeOK, Disconnect

LEMMA DisconnectAccount ==
  ASSUME ShapeInv, AccountInv, NEW l \in {"none", "dead"}, Disconnect(l),
         UNCHANGED <<pc, serving, at>>,
         NEW c \in Clients, ~interrupted'[c]
  PROVE  /\ durable'[c] = durable[c] /\ pending'[c] = 0
         /\ ~interrupted[c]
         /\ serving = c => link # "up"
         /\ Executed(c)' = Executed(c)
         /\ outcome[c] = "running" => durable'[c] = Before(c, Executed(c))
<1>1. /\ durable' = durable /\ pending'[c] = 0
      /\ ~interrupted[c]
      /\ link = "up" => (~Inside(c) /\ serving # c)
  BY DEF Disconnect, ShapeInv, TypeOK
<1>2. Executed(c)' = Executed(c)
  BY DEF Executed
<1>3. ASSUME outcome[c] = "running"
      PROVE  durable[c] = Before(c, Executed(c))
  <2>1. durable[c] + pending[c] = Before(c, Executed(c))
    BY <1>1, <1>3 DEF AccountInv, Account
  <2>2. /\ durable[c] \in Nat /\ pending[c] \in Nat
        /\ pc[c] \in Nat \ {0} /\ pc[c] <= Length(c)
        /\ pending[c] > 0 => inTx
        /\ inTx => link = "up"
    BY DEF ShapeInv, TypeOK
  <2>3. CASE link # "up"
    <3>1. pending[c] = 0
      BY <2>2, <2>3
    <3> QED BY <2>1, <2>2, <3>1
  <2>4. CASE link = "up"
    <3>1. pc[c] = 1
      <4>1. CASE Closes(c)
        BY <2>2, <4>1, ProgramShape
      <4>2. CASE ~Closes(c)
        BY <1>1, <1>3, <2>2, <2>4, <4>2, ProgramShape DEF Inside
      <4> QED BY <4>1, <4>2
    <3>2. Executed(c) = 0
      BY <1>1, <2>4, <3>1 DEF Executed
    <3> QED BY <2>1, <2>2, <3>2, NoneBefore
  <2> QED BY <2>3, <2>4
<1> QED BY <1>1, <1>2, <1>3

(* A connection that ends while the thread goes on. *)
LEMMA DisconnectKeepsAccounts ==
  ASSUME ShapeInv, AccountInv, NEW l \in {"none", "dead"}, Disconnect(l),
         UNCHANGED clientVars, UNCHANGED <<serving, at>>
  PROVE  AccountInv'
<1> SUFFICES ASSUME NEW c \in Clients, ~interrupted'[c] PROVE Account(c)'
  BY DEF AccountInv
<1>0. UNCHANGED <<pc, outcome, posted>>
  BY DEF clientVars
<1>1. /\ durable'[c] = durable[c] /\ pending'[c] = 0
      /\ ~interrupted[c]
      /\ serving = c => link # "up"
      /\ Executed(c)' = Executed(c)
      /\ outcome[c] = "running" => durable'[c] = Before(c, Executed(c))
  BY <1>0, DisconnectAccount
<1>2. Account(c)
  BY <1>1 DEF AccountInv
<1>3. /\ Executed(c) \in Nat
      /\ durable[c] \in Nat
  BY DEF ShapeInv, TypeOK, Executed
<1>4. Before(c, Executed(c)) \in Nat
  BY <1>3, WritesUpTo
<1>5. outcome'[c] = "running" =>
        durable'[c] + pending'[c] = Before(c, Executed(c)')
  BY <1>0, <1>1, <1>3, <1>4
<1>6. outcome'[c] = "ok" => durable'[c] = Writes(c) /\ pending'[c] = 0
  BY <1>0, <1>1, <1>2 DEF Account
<1>7. ~(serving' = c /\ at' = "executed")
  BY <1>1, <1>2 DEF Account
<1> QED BY <1>5, <1>6, <1>7 DEF Account

-----------------------------------------------------------------------------
(* The end of a statement *)

LEMMA FinishShape ==
  ASSUME ShapeInv, serving # None, NEW r \in {"ok", "canceled", "failed"},
         Finish(r)
  PROVE  /\ serving' = None /\ at' = "idle"
         /\ pc' \in [Clients -> Nat \ {0}]
         /\ posted' \in [Clients -> BOOLEAN]
         /\ outcome' \in [Clients -> {"running", "ok", "canceled", "failed"}]
         /\ \A c \in Clients : /\ pc'[c] <= Length(c)
                               /\ posted'[c] => outcome'[c] = "running"
<1>0. /\ serving' = None /\ at' = "idle"
  BY DEF Finish
<1>1. CASE serving = Keepalive
  BY <1>0, <1>1 DEF Finish, ShapeInv, TypeOK, clientVars
<1>2. CASE serving # Keepalive
  <2>1. serving \in Clients
    BY <1>2 DEF ShapeInv, TypeOK
  <2>2. /\ posted' = [posted EXCEPT ![serving] = FALSE]
        /\ outcome' = [outcome EXCEPT ![serving] =
                         IF r # "ok" THEN r
                         ELSE IF pc[serving] = Length(serving) THEN "ok"
                              ELSE "running"]
        /\ pc' = IF r = "ok" /\ pc[serving] # Length(serving)
                 THEN [pc EXCEPT ![serving] = @ + 1] ELSE pc
    BY <1>2 DEF Finish
  <2>3. /\ Length(serving) \in Nat /\ pc[serving] \in Nat
        /\ pc[serving] <= Length(serving)
    BY <2>1, ProgramShape DEF ShapeInv, TypeOK
  <2>4. pc' \in [Clients -> Nat \ {0}]
    BY <2>1, <2>2, <2>3 DEF ShapeInv, TypeOK
  <2>5. \A c \in Clients : pc'[c] <= Length(c)
    BY <2>1, <2>2, <2>3 DEF ShapeInv, TypeOK
  <2>6. \A c \in Clients : posted'[c] => outcome'[c] = "running"
    BY <2>1, <2>2 DEF ShapeInv, TypeOK
  <2> QED BY <1>0, <2>1, <2>2, <2>4, <2>5, <2>6 DEF ShapeInv, TypeOK
<1> QED BY <1>1, <1>2

(* The last statement is the commit, which has left nothing pending; any    *)
(* other one leaves the account as the next statement finds it.             *)
LEMMA FinishKeepsAccounts ==
  ASSUME ShapeInv, AccountInv, serving # None,
         NEW r \in {"ok", "canceled", "failed"}, Finish(r),
         r = "ok" => at = "executed",
         UNCHANGED serverVars, UNCHANGED interrupted
  PROVE  AccountInv'
<1> SUFFICES ASSUME NEW c \in Clients, ~interrupted[c] PROVE Account(c)'
  BY DEF AccountInv
<1>0. serving' = None /\ at' = "idle" /\ UNCHANGED <<durable, pending>>
  BY DEF Finish, serverVars
<1>1. Account(c)
  BY DEF AccountInv
<1>2. Executed(c)' = pc'[c] - 1
  BY <1>0 DEF Executed
<1>3. CASE serving # c
  <2>1. pc'[c] = pc[c] /\ outcome'[c] = outcome[c]
    BY <1>3 DEF Finish, ShapeInv, TypeOK, clientVars
  <2>2. Executed(c)' = Executed(c)
    BY <1>2, <1>3, <2>1 DEF Executed
  <2>3. None # c
    BY InterfaceAssumption
  <2> QED BY <1>0, <1>1, <2>1, <2>2, <2>3 DEF Account
<1>4. CASE serving = c
  <2>1. c # Keepalive /\ c # None /\ ~Closes(c)
    BY <1>4, InterfaceAssumption DEF ShapeInv
  <2>2. /\ outcome' = [outcome EXCEPT ![c] =
                         IF r # "ok" THEN r
                         ELSE IF pc[c] = Length(c) THEN "ok" ELSE "running"]
        /\ pc' = IF r = "ok" /\ pc[c] # Length(c)
                 THEN [pc EXCEPT ![c] = @ + 1] ELSE pc
    BY <1>4, <2>1 DEF Finish
  <2>3. CASE r # "ok"
    <3>1. outcome'[c] # "running" /\ outcome'[c] # "ok"
      BY <2>2, <2>3 DEF ShapeInv, TypeOK
    <3> QED BY <1>0, <2>1, <3>1 DEF Account
  <2>4. CASE r = "ok"
    <3>1. /\ at = "executed" /\ outcome[c] = "running"
          /\ pc[c] \in Nat \ {0}
          /\ durable[c] \in Nat /\ pending[c] \in Nat
      BY <1>4, <2>4 DEF ShapeInv, TypeOK
    <3>2. durable[c] + pending[c] = Before(c, pc[c])
      BY <1>1, <1>4, <3>1 DEF Account, Executed
    <3>3. CASE pc[c] = Length(c)
      <4>1. outcome'[c] = "ok"
        BY <2>2, <2>4, <3>3 DEF ShapeInv, TypeOK
      <4>2. pending[c] = 0
        BY <1>1, <1>4, <2>1, <3>1, <3>3, ProgramShape DEF Account
      <4>3. durable[c] = Writes(c)
        BY <3>1, <3>2, <3>3, <4>2 DEF Writes
      <4> QED BY <1>0, <2>1, <4>1, <4>2, <4>3 DEF Account
    <3>4. CASE pc[c] # Length(c)
      <4>1. outcome'[c] = "running" /\ pc'[c] = pc[c] + 1
        BY <2>2, <2>4, <3>4 DEF ShapeInv, TypeOK
      <4>2. Executed(c)' = pc[c]
        BY <1>2, <3>1, <4>1
      <4> QED BY <1>0, <2>1, <3>2, <4>1, <4>2 DEF Account
    <3> QED BY <3>3, <3>4
  <2> QED BY <2>3, <2>4
<1> QED BY <1>3, <1>4

-----------------------------------------------------------------------------
(* The server executes a statement *)

LEMMA CommitShape ==
  ASSUME ShapeInv, Commit
  PROVE  /\ pending' \in [Clients -> Nat] /\ durable' \in [Clients -> Nat]
         /\ \A c \in Clients :
              /\ pending'[c] = 0
              /\ durable'[c] \in 0 .. Writes(c) + 1
              /\ durable[c] + pending[c] <= Writes(c)
                   => durable'[c] = durable[c] + pending[c]
<1>1. \A c \in Clients : durable[c] + pending[c] \in Nat
  BY DEF ShapeInv
<1>2. \A c \in Clients :
        /\ Writes(c) \in Nat
        /\ Capped(c, durable[c] + pending[c]) \in 0 .. Writes(c) + 1
        /\ durable[c] + pending[c] <= Writes(c) =>
             Capped(c, durable[c] + pending[c]) = durable[c] + pending[c]
  BY <1>1, CapIsBound, ProgramShape
<1> QED BY <1>2 DEF Commit

LEMMA PerformShape ==
  ASSUME ShapeInv, serving # None, Perform(serving)
  PROVE  /\ pending' \in [Clients -> Nat] /\ durable' \in [Clients -> Nat]
         /\ inTx' \in BOOLEAN
         /\ \A c \in Clients : /\ pending'[c] \in 0 .. Writes(c) + 1
                               /\ durable'[c] \in 0 .. Writes(c) + 1
                               /\ pending'[c] > 0 => inTx'
<1>0. \A c \in Clients : Writes(c) \in Nat
  BY ProgramShape
<1>1. CASE UNCHANGED serverVars
  BY <1>1 DEF ShapeInv, TypeOK, serverVars
<1>2. CASE Commit /\ inTx' \in BOOLEAN
  BY <1>0, <1>2, CommitShape
<1>3. CASE /\ serving # Keepalive
           /\ IF inTx THEN /\ pending' = [pending EXCEPT ![serving] =
                                            Capped(serving, @ + 1)]
                           /\ UNCHANGED durable
                      ELSE /\ durable' = [durable EXCEPT ![serving] =
                                            Capped(serving, @ + 1)]
                           /\ UNCHANGED pending
           /\ UNCHANGED inTx
  <2>1. serving \in Clients
    BY <1>3 DEF ShapeInv, TypeOK
  <2>2. pending[serving] + 1 \in Nat /\ durable[serving] + 1 \in Nat
    BY <2>1 DEF ShapeInv
  <2>3. /\ Capped(serving, pending[serving] + 1) \in 0 .. Writes(serving) + 1
        /\ Capped(serving, durable[serving] + 1) \in 0 .. Writes(serving) + 1
    BY <2>1, <2>2, CapIsBound
  <2>4. CASE inTx
    BY <1>0, <1>3, <2>1, <2>3, <2>4 DEF ShapeInv, TypeOK
  <2>5. CASE ~inTx
    BY <1>0, <1>3, <2>1, <2>3, <2>5 DEF ShapeInv, TypeOK
  <2> QED BY <2>4, <2>5
<1> QED BY <1>1, <1>2, <1>3, InterfaceAssumption DEF Perform

(* The account of an operation whose statement it is not: a commit moves    *)
(* what is pending to what is stored.                                       *)
LEMMA PerformForOthers ==
  ASSUME ShapeInv, serving # None, Perform(serving), at # "executed",
         NEW c \in Clients, c # serving, Account(c)
  PROVE  /\ outcome[c] = "running" =>
              durable'[c] + pending'[c] = Before(c, pc[c] - 1)
         /\ outcome[c] = "ok" => durable'[c] = Writes(c) /\ pending'[c] = 0
<1>1. /\ durable[c] \in Nat /\ pending[c] \in Nat
      /\ pc[c] \in Nat \ {0} /\ pc[c] <= Length(c)
  BY DEF ShapeInv, TypeOK
<1>2. /\ outcome[c] = "running" =>
           durable[c] + pending[c] = Before(c, pc[c] - 1)
      /\ outcome[c] = "ok" => durable[c] = Writes(c) /\ pending[c] = 0
  BY DEF Account, Executed
<1>3. Before(c, pc[c] - 1) <= Writes(c)
  <2>1. pc[c] - 1 \in Nat /\ pc[c] - 1 <= Length(c) /\ Length(c) \in Nat
    BY <1>1, ProgramShape
  <2> QED BY <2>1, NoMoreThanAll
<1>4. CASE durable'[c] = durable[c] /\ pending'[c] = pending[c]
  BY <1>2, <1>4
<1>5. CASE Commit
  <2>1. /\ pending'[c] = 0 /\ durable'[c] \in 0 .. Writes(c) + 1
        /\ durable[c] + pending[c] <= Writes(c) =>
             durable'[c] = durable[c] + pending[c]
    BY <1>5, CommitShape
  <2>2. Writes(c) \in Nat
    BY ProgramShape
  <2> QED BY <1>1, <1>2, <1>3, <2>1, <2>2
<1> QED BY <1>4, <1>5 DEF Perform, serverVars, ShapeInv

(* The account of the operation whose statement it is. *)
LEMMA PerformForOwn ==
  ASSUME ShapeInv, serving \in Clients, Perform(serving), at # "executed",
         Account(serving)
  PROVE  /\ durable'[serving] + pending'[serving]
              = Before(serving, pc[serving])
         /\ Program[serving][pc[serving]] = "commit" => pending'[serving] = 0
<1> DEFINE c == serving
<1> DEFINE stmt == Program[c][pc[c]]
<1>1. /\ durable[c] \in Nat /\ pending[c] \in Nat
      /\ pc[c] \in Nat \ {0} /\ pc[c] <= Length(c)
      /\ outcome[c] = "running"
      /\ ~Closes(c) /\ c # Keepalive
      /\ pending[c] > 0 => inTx
  BY InterfaceAssumption DEF ShapeInv, TypeOK
<1>2. durable[c] + pending[c] = Before(c, pc[c] - 1)
  BY <1>1 DEF Account, Executed
<1>3. pc[c] \in 1 .. Length(c) /\ Writes(c) \in Nat
  BY <1>1, ProgramShape
<1>4. stmt \in {"begin", "write", "commit"}
  BY <1>1, <1>3, ProgramShape
<1>5. Before(c, pc[c]) = Before(c, pc[c] - 1)
                         + (IF stmt = "write" THEN 1 ELSE 0)
  BY <1>1, OneMore
<1>6. Before(c, pc[c]) <= Writes(c) /\ Before(c, pc[c]) \in Nat
  <2>1. pc[c] \in Nat /\ Length(c) \in Nat
    BY <1>1, ProgramShape
  <2> QED BY <1>1, <2>1, NoMoreThanAll, WritesUpTo
<1>7. Before(c, pc[c] - 1) \in Nat
  <2>1. pc[c] - 1 \in Nat
    BY <1>1
  <2> QED BY <2>1, WritesUpTo
<1>8. CASE stmt = "write"
  <2>1. /\ IF inTx THEN /\ pending' = [pending EXCEPT ![c] = Capped(c, @ + 1)]
                        /\ UNCHANGED durable
                   ELSE /\ durable' = [durable EXCEPT ![c] = Capped(c, @ + 1)]
                        /\ UNCHANGED pending
    BY <1>1, <1>8 DEF Perform
  <2>2. pending[c] + 1 <= Writes(c) /\ durable[c] + 1 <= Writes(c)
    BY <1>1, <1>2, <1>3, <1>5, <1>6, <1>8
  <2>3. pending[c] + 1 \in Nat /\ durable[c] + 1 \in Nat
    BY <1>1
  <2>4. /\ Capped(c, pending[c] + 1) = pending[c] + 1
        /\ Capped(c, durable[c] + 1) = durable[c] + 1
    BY <2>2, <2>3, CapIsBound
  <2>5. \/ pending'[c] = pending[c] + 1 /\ durable'[c] = durable[c]
        \/ pending'[c] = pending[c] /\ durable'[c] = durable[c] + 1
    BY <2>1, <2>4 DEF ShapeInv
  <2> QED BY <1>1, <1>2, <1>5, <1>7, <1>8, <2>5
<1>9. CASE stmt # "write"
  <2>1. Commit
    BY <1>1, <1>4, <1>9 DEF Perform
  <2>2. durable[c] + pending[c] <= Writes(c)
    BY <1>2, <1>5, <1>6, <1>7, <1>9
  <2>3. pending'[c] = 0 /\ durable'[c] = durable[c] + pending[c]
    BY <2>1, <2>2, CommitShape
  <2> QED BY <1>1, <1>2, <1>5, <1>7, <1>9, <2>3
<1> QED BY <1>8, <1>9

-----------------------------------------------------------------------------
(* One lemma per action *)

LEMMA RequestBound ==
  closes \in 0 .. MaxCloses => Request(closes) \in 0 .. MaxCloses
  BY InterfaceAssumption DEF Request

LEMMA PostStep == ASSUME IInv, NEW c \in Clients, Post(c) PROVE IInv'
<1> USE DEF Post
<1>1. /\ closes' \in 0 .. MaxCloses /\ canceled' \in BOOLEAN
      /\ posted' \in [Clients -> BOOLEAN]
      /\ \A d \in Clients : posted'[d] => outcome[d] = "running"
      /\ \A d \in Clients : posted[d] => posted'[d]
  BY RequestBound DEF IInv, ShapeInv, TypeOK
<1>2. ShapeInv'
  BY <1>1 DEF IInv, ShapeInv, TypeOK, serverVars, Closes
<1>3. AccountInv'
  <2> SUFFICES ASSUME NEW d \in Clients, ~interrupted[d] PROVE Account(d)'
    BY DEF AccountInv
  <2>1. Account(d)
    BY DEF IInv, AccountInv
  <2>2. Executed(d)' = Executed(d)
    BY DEF Executed
  <2> QED BY <2>1, <2>2 DEF Account, serverVars
<1> QED BY <1>2, <1>3 DEF IInv

LEMMA CancelStep == ASSUME IInv, Cancel PROVE IInv'
<1> USE DEF Cancel
<1>1. closes' \in 0 .. MaxCloses
  BY RequestBound DEF IInv, ShapeInv, TypeOK
<1>2. ShapeInv'
  BY <1>1 DEF IInv, ShapeInv, TypeOK, serverVars, clientVars, Closes
<1>3. AccountInv'
  BY AccountsStay DEF IInv
<1> QED BY <1>2, <1>3 DEF IInv

(* The shape of a state in which no transaction is open. *)
LEMMA ShapeWithoutTransaction ==
  ASSUME TypeOK',
         pending' \in [Clients -> Nat], durable' \in [Clients -> Nat],
         \A c \in Clients : pending'[c] = 0,
         \A c \in Clients : pc'[c] <= Length(c),
         \A c \in Clients : posted'[c] => outcome'[c] = "running",
         (serving \in Clients => ~Closes(serving))',
         (at = "sleep" => link = "none")'
  PROVE  ShapeInv'
BY DEF ShapeInv

LEMMA ProxyCloseStep == ASSUME IInv, ProxyClose PROVE IInv'
<1> USE DEF ProxyClose
<1>1. closes' \in 0 .. MaxCloses
  BY InterfaceAssumption DEF IInv, ShapeInv, TypeOK
<1>2. CASE link \in {"connecting", "up"}
  <2>1. Disconnect("dead")
    BY <1>2
  <2>2. /\ interrupted' \in [Clients -> BOOLEAN]
        /\ pending' \in [Clients -> Nat] /\ durable' \in [Clients -> Nat]
        /\ \A c \in Clients : /\ pending'[c] = 0
                              /\ pending'[c] \in 0 .. Writes(c) + 1
                              /\ durable'[c] \in 0 .. Writes(c) + 1
        /\ inTx' = FALSE /\ link' = "dead"
    BY <2>1, DisconnectShape DEF IInv
  <2>3. at # "sleep"
    BY <1>2 DEF IInv, ShapeInv
  <2>4. ShapeInv'
    <3>1. TypeOK'
      BY <1>1, <2>2 DEF IInv, ShapeInv, TypeOK, clientVars
    <3>2. /\ \A c \in Clients : pc'[c] <= Length(c)
          /\ \A c \in Clients : posted'[c] => outcome'[c] = "running"
          /\ (serving \in Clients => ~Closes(serving))'
      BY DEF IInv, ShapeInv, clientVars, Closes
    <3> QED BY <2>2, <2>3, <3>1, <3>2, ShapeWithoutTransaction
  <2>5. AccountInv'
    BY <2>1, DisconnectKeepsAccounts DEF IInv
  <2> QED BY <2>4, <2>5 DEF IInv
<1>3. CASE link \notin {"connecting", "up"}
  <2>1. UNCHANGED <<link, interrupted>> /\ UNCHANGED serverVars
    BY <1>3
  <2>2. ShapeInv'
    BY <1>1, <2>1 DEF IInv, ShapeInv, TypeOK, clientVars, serverVars, Closes
  <2>3. AccountInv'
    BY <2>1, AccountsStay DEF IInv
  <2> QED BY <2>2, <2>3 DEF IInv
<1> QED BY <1>2, <1>3

LEMMA DropStep == ASSUME IInv, Drop PROVE IInv'
<1> USE DEF Drop
<1>1. mishaps' \in 0 .. MaxMishaps
  BY InterfaceAssumption DEF IInv, ShapeInv, TypeOK
<1>2. /\ interrupted' \in [Clients -> BOOLEAN]
      /\ pending' \in [Clients -> Nat] /\ durable' \in [Clients -> Nat]
      /\ \A c \in Clients : /\ pending'[c] = 0
                            /\ pending'[c] \in 0 .. Writes(c) + 1
                            /\ durable'[c] \in 0 .. Writes(c) + 1
      /\ inTx' = FALSE /\ link' = "dead"
  BY DisconnectShape DEF IInv
<1>3. at # "sleep"
  BY DEF IInv, ShapeInv
<1>4. ShapeInv'
  <2>1. TypeOK'
    BY <1>1, <1>2 DEF IInv, ShapeInv, TypeOK, clientVars
  <2>2. /\ \A c \in Clients : pc'[c] <= Length(c)
        /\ \A c \in Clients : posted'[c] => outcome'[c] = "running"
        /\ (serving \in Clients => ~Closes(serving))'
    BY DEF IInv, ShapeInv, clientVars, Closes
  <2> QED BY <1>2, <1>3, <2>1, <2>2, ShapeWithoutTransaction
<1>5. AccountInv'
  BY DisconnectKeepsAccounts DEF IInv
<1> QED BY <1>4, <1>5 DEF IInv

LEMMA TakeStep == ASSUME IInv, NEW c \in Clients, Take(c) PROVE IInv'
<1> USE DEF Take
<1>1. c # None /\ c # Keepalive
  BY InterfaceAssumption
<1>2. ShapeInv'
  BY <1>1 DEF IInv, ShapeInv, TypeOK, clientVars, serverVars, Closes
<1>3. AccountInv'
  BY AccountsStay DEF IInv
<1> QED BY <1>2, <1>3 DEF IInv

(* Disconnecting writes nothing, so it has been carried out. *)
LEMMA TakeCloseStep == ASSUME IInv, NEW c \in Clients, TakeClose(c) PROVE IInv'
<1> USE DEF TakeClose
<1>1. closes' \in 0 .. MaxCloses
  BY RequestBound DEF IInv, ShapeInv, TypeOK
<1>2. /\ interrupted' \in [Clients -> BOOLEAN]
      /\ pending' \in [Clients -> Nat] /\ durable' \in [Clients -> Nat]
      /\ \A d \in Clients : /\ pending'[d] = 0
                            /\ pending'[d] \in 0 .. Writes(d) + 1
                            /\ durable'[d] \in 0 .. Writes(d) + 1
      /\ inTx' = FALSE /\ link' = "none"
  BY DisconnectShape DEF IInv
<1>3. serving = None /\ None \notin Clients /\ at = "idle"
  BY InterfaceAssumption DEF IInv, ShapeInv, TypeOK
<1>4. /\ posted' \in [Clients -> BOOLEAN]
      /\ outcome' \in [Clients -> {"running", "ok", "canceled", "failed"}]
      /\ \A d \in Clients : posted'[d] => outcome'[d] = "running"
  BY DEF IInv, ShapeInv, TypeOK
<1>5. ShapeInv'
  <2>1. TypeOK'
    BY <1>1, <1>2, <1>3, <1>4 DEF IInv, ShapeInv, TypeOK
  <2>2. \A d \in Clients : pc'[d] <= Length(d)
    BY DEF IInv, ShapeInv
  <2> QED BY <1>2, <1>3, <1>4, <2>1, <2>2, ShapeWithoutTransaction
<1>6. AccountInv'
  <2> SUFFICES ASSUME NEW d \in Clients, ~interrupted'[d] PROVE Account(d)'
    BY DEF AccountInv
  <2>1. /\ durable'[d] = durable[d] /\ pending'[d] = 0
        /\ ~interrupted[d]
        /\ Executed(d)' = Executed(d)
        /\ outcome[d] = "running" => durable'[d] = Before(d, Executed(d))
    BY DisconnectAccount DEF IInv
  <2>2. Account(d)
    BY <2>1 DEF IInv, AccountInv
  <2>3. serving' # d
    BY <1>3
  <2>4. CASE d = c
    <3>1. /\ outcome'[d] = "ok" /\ outcome[d] = "running"
          /\ pc[d] = 1 /\ Writes(d) = 0
      BY <2>4, ProgramShape DEF IInv, ShapeInv, TypeOK
    <3>2. Executed(d) = 0
      BY <1>3, <3>1 DEF Executed
    <3>3. durable'[d] = 0
      BY <2>1, <3>1, <3>2, NoneBefore
    <3> QED BY <2>1, <2>3, <3>1, <3>3 DEF Account
  <2>5. CASE d # c
    <3>1. outcome'[d] = outcome[d]
      BY <2>5 DEF IInv, ShapeInv, TypeOK
    <3>2. Executed(d) \in Nat /\ durable[d] \in Nat
      BY DEF IInv, ShapeInv, TypeOK, Executed
    <3>3. outcome'[d] = "running" =>
            durable'[d] + pending'[d] = Before(d, Executed(d)')
      BY <2>1, <3>1, <3>2
    <3>4. outcome'[d] = "ok" => durable'[d] = Writes(d) /\ pending'[d] = 0
      BY <2>1, <2>2, <3>1 DEF Account
    <3> QED BY <2>3, <3>3, <3>4 DEF Account
  <2> QED BY <2>4, <2>5
<1> QED BY <1>5, <1>6 DEF IInv

LEMMA TakeKeepaliveStep == ASSUME IInv, TakeKeepalive PROVE IInv'
<1> USE DEF TakeKeepalive
<1>1. None # Keepalive /\ Keepalive \notin Clients
  BY InterfaceAssumption
<1>2. mishaps' \in 0 .. MaxMishaps
  BY InterfaceAssumption DEF IInv, ShapeInv, TypeOK
<1>3. ShapeInv'
  BY <1>1, <1>2 DEF IInv, ShapeInv, TypeOK, clientVars, serverVars, Closes
<1>4. AccountInv'
  BY AccountsStay DEF IInv
<1> QED BY <1>3, <1>4 DEF IInv

(* Steps of the thread that neither begin nor end a statement. *)
LEMMA OnTheWayStep ==
  ASSUME IInv, CheckOpen \/ OpenStarts \/ Retry \/ Accepts
  PROVE  IInv'
<1>1. /\ at # "executed" /\ at' # "executed"
      /\ at # "idle" /\ at' \in {"open", "exec"}
      /\ at' = "open" => link' # "up"
      /\ inTx => link' = "up"
      /\ link' \in {"none", "connecting", "up", "dead"}
      /\ UNCHANGED <<serving, isOpen, canceled, closes, interrupted, mishaps>>
      /\ UNCHANGED clientVars /\ UNCHANGED serverVars
  BY DEF IInv, ShapeInv, TypeOK, CheckOpen, OpenStarts, Retry, Accepts
<1>2. ShapeInv'
  BY <1>1 DEF IInv, ShapeInv, TypeOK, clientVars, serverVars, Closes
<1>3. AccountInv'
  BY <1>1, AccountsStay DEF IInv
<1> QED BY <1>2, <1>3 DEF IInv

(* A statement ends without being sent again. *)
LEMMA EndStep ==
  ASSUME IInv, serving # None, NEW r \in {"ok", "canceled", "failed"},
         Finish(r), r = "ok" => at = "executed",
         UNCHANGED <<isOpen, canceled, closes, interrupted>>,
         UNCHANGED serverVars, mishaps' \in 0 .. MaxMishaps,
         link' \in {"none", "connecting", "up", "dead"},
         link = "up" => link' = "up"
  PROVE  IInv'
<1>1. /\ serving' = None /\ at' = "idle"
      /\ pc' \in [Clients -> Nat \ {0}]
      /\ posted' \in [Clients -> BOOLEAN]
      /\ outcome' \in [Clients -> {"running", "ok", "canceled", "failed"}]
      /\ \A c \in Clients : /\ pc'[c] <= Length(c)
                            /\ posted'[c] => outcome'[c] = "running"
  BY FinishShape DEF IInv
<1>2. None \notin Clients
  BY InterfaceAssumption
<1>3. ShapeInv'
  BY <1>1, <1>2 DEF IInv, ShapeInv, TypeOK, serverVars
<1>4. AccountInv'
  BY FinishKeepsAccounts DEF IInv
<1> QED BY <1>3, <1>4 DEF IInv

LEMMA OpenFailsStep == ASSUME IInv, OpenFails PROVE IInv'
<1> USE DEF OpenFails
<1>1. serving # None /\ ~inTx
  BY DEF IInv, ShapeInv, TypeOK
<1>2. CASE canceled
  BY <1>1, <1>2, EndStep DEF IInv, ShapeInv, TypeOK
<1>3. CASE ~canceled
  <2>1. ShapeInv'
    BY <1>1, <1>3 DEF IInv, ShapeInv, TypeOK, clientVars, serverVars, Closes
  <2>2. AccountInv'
    BY <1>3, AccountsStay DEF IInv
  <2> QED BY <2>1, <2>2 DEF IInv
<1> QED BY <1>2, <1>3

(* An answer that is lost: the operation has been interrupted. *)
LEMMA StatementLostStep == ASSUME IInv, StatementLost PROVE IInv'
<1> USE DEF StatementLost
<1>1. serving # None /\ ~inTx
  BY DEF IInv, ShapeInv, TypeOK
<1>2. CASE canceled
  BY <1>1, <1>2, EndStep DEF IInv, ShapeInv, TypeOK
<1>3. CASE ~canceled
  <2>1. closes' \in 0 .. MaxCloses
    BY <1>3, RequestBound DEF IInv, ShapeInv, TypeOK
  <2>2. ShapeInv'
    BY <1>1, <1>3, <2>1
    DEF IInv, ShapeInv, TypeOK, clientVars, serverVars, Closes
  <2>3. AccountInv'
    <3> SUFFICES ASSUME NEW c \in Clients, ~interrupted[c] PROVE Account(c)'
      BY DEF AccountInv
    <3>1. Account(c)
      BY DEF IInv, AccountInv
    <3>2. ~(serving = c /\ at = "executed")
      BY <3>1 DEF Account
    <3>3. Executed(c)' = Executed(c) /\ at' = "check"
      BY <1>3, <3>2 DEF Executed, clientVars
    <3> QED BY <1>3, <3>1, <3>2, <3>3 DEF Account, clientVars, serverVars
  <2> QED BY <2>2, <2>3 DEF IInv
<1> QED BY <1>2, <1>3

LEMMA AnsweredStep == ASSUME IInv, Answered PROVE IInv'
<1>1. serving # None
  BY DEF IInv, ShapeInv, TypeOK, Answered
<1> QED BY <1>1, EndStep DEF IInv, ShapeInv, TypeOK, Answered

LEMMA RefusesStep == ASSUME IInv, Refuses PROVE IInv'
<1> USE DEF Refuses
<1>1. serving # None
  BY InterfaceAssumption
<1>2. mishaps' \in 0 .. MaxMishaps
  BY InterfaceAssumption DEF IInv, ShapeInv, TypeOK
<1>3. /\ link' \in {"none", "connecting", "up", "dead"}
      /\ link = "up" => link' = "up"
  BY DEF IInv, ShapeInv, TypeOK
<1>4. PICK r \in {"canceled", "failed"} : Finish(r)
  OBVIOUS
<1> QED BY <1>1, <1>2, <1>3, <1>4, EndStep

LEMMA ExecutesStep == ASSUME IInv, Executes PROVE IInv'
<1> USE DEF Executes
<1>1. serving # None
  BY DEF IInv, ShapeInv, TypeOK
<1>2. /\ pending' \in [Clients -> Nat] /\ durable' \in [Clients -> Nat]
      /\ inTx' \in BOOLEAN
      /\ \A c \in Clients : /\ pending'[c] \in 0 .. Writes(c) + 1
                            /\ durable'[c] \in 0 .. Writes(c) + 1
                            /\ pending'[c] > 0 => inTx'
  BY <1>1, PerformShape DEF IInv
<1>3. ShapeInv'
  BY <1>1, <1>2 DEF IInv, ShapeInv, TypeOK, clientVars, Closes
<1>4. AccountInv'
  <2> SUFFICES ASSUME NEW c \in Clients, ~interrupted[c] PROVE Account(c)'
    BY DEF AccountInv
  <2>1. Account(c)
    BY DEF IInv, AccountInv
  <2>2. CASE c = serving
    <3>1. /\ durable'[c] + pending'[c] = Before(c, pc[c])
          /\ Program[c][pc[c]] = "commit" => pending'[c] = 0
      BY <2>1, <2>2, PerformForOwn DEF IInv
    <3>2. outcome[c] = "running"
      BY <2>2 DEF IInv, ShapeInv, TypeOK
    <3>3. Executed(c)' = pc[c]
      BY <2>2 DEF Executed, clientVars
    <3> QED BY <2>2, <3>1, <3>2, <3>3 DEF Account, clientVars
  <2>3. CASE c # serving
    <3>1. /\ outcome[c] = "running" =>
                durable'[c] + pending'[c] = Before(c, pc[c] - 1)
          /\ outcome[c] = "ok" => durable'[c] = Writes(c) /\ pending'[c] = 0
      BY <1>1, <2>1, <2>3, PerformForOthers DEF IInv
    <3>2. Executed(c)' = pc[c] - 1 /\ serving' # c
      BY <2>3 DEF Executed, clientVars
    <3> QED BY <3>1, <3>2 DEF Account, clientVars
  <2> QED BY <2>2, <2>3
<1> QED BY <1>3, <1>4 DEF IInv

-----------------------------------------------------------------------------
LEMMA StepIInv == IInv /\ [Next]_vars => IInv'
<1> SUFFICES ASSUME IInv, [Next]_vars PROVE IInv'
  OBVIOUS
<1>1. CASE UNCHANGED vars
  <2>1. ShapeInv'
    BY <1>1 DEF vars, IInv, ShapeInv, TypeOK, Closes
  <2>2. AccountInv'
    BY <1>1, AccountsStay DEF vars, IInv, clientVars, serverVars
  <2> QED BY <2>1, <2>2 DEF IInv
<1>2. CASE Next
  BY <1>2, PostStep, CancelStep, ProxyCloseStep, TakeStep, TakeCloseStep,
     TakeKeepaliveStep, OnTheWayStep, OpenFailsStep, StatementLostStep,
     AnsweredStep, ExecutesStep, RefusesStep, DropStep
  DEF Next, Thread, Server
<1> QED BY <1>1, <1>2

LEMMA Invariance == Spec => []IInv
  BY InitIInv, StepIInv, PTL DEF Spec

(* Every reachable state is well-typed: the thread of the interface is idle *)
(* exactly when it serves nobody, what it serves has been posted, and a     *)
(* transaction is open only on a connection (ThreadSafeInterface.cpp,       *)
(* DefaultInterface.cpp).                                                   *)
THEOREM InterfaceTypeCorrect == Spec => []TypeOK
<1>1. IInv => TypeOK
  BY DEF IInv, ShapeInv
<1> QED BY <1>1, Invariance, PTL

(* An operation that reports success has been carried out exactly once      *)
(* unless the connection was lost within its transaction (Database.cpp      *)
(* 3-6), for any clients, programs, mishaps, cancels and keepalives.        *)
THEOREM SuccessMeansDoneOnce == Spec => []DoneUnlessInterrupted
<1>1. IInv => DoneUnlessInterrupted
  BY DEF IInv, AccountInv, Account, DoneUnlessInterrupted
<1> QED BY <1>1, Invariance, PTL

-----------------------------------------------------------------------------
(* Sets of numbers *)

\* a set of numbers has a least one: what every induction here goes by
LEMMA SomeLeast == ASSUME NEW T, T \subseteq Nat, T # {}
  PROVE \E x \in T : \A y \in T : x <= y
<1> DEFINE R == {ss \in Nat \X Nat : ss[1] < ss[2]}
<1>1. IsWellFoundedOn(R, Nat)
  BY NatLessThanWellFounded DEF OpToRel
<1>2. \A y, x \in Nat : y < x => <<y, x>> \in R
  OBVIOUS
<1>3. \E x \in T : \A y \in T : ~ (<<y, x>> \in R)
  <2> HIDE DEF R
  <2> QED BY <1>1, WFMin
<1>4. PICK x \in T : \A y \in T : ~ (<<y, x>> \in R)
  BY <1>3
<1>5. \A y \in T : ~(y < x)
  <2> HIDE DEF R
  <2> QED BY <1>2, <1>4
<1> QED BY <1>5

LEMMA MinIs == ASSUME NEW T, T \subseteq Nat, T # {}
  PROVE Min(T) \in T /\ \A y \in T : Min(T) <= y
<1>1. \E x \in T : \A y \in T : x =< y
  BY SomeLeast
<1> QED BY <1>1 DEF Min

\* a finite set of numbers has a greatest one: a set with as few members as
\* possible and without a greatest would still have one member too many
LEMMA MaxIs == ASSUME NEW T, T \subseteq Nat, T # {}, IsFiniteSet(T)
  PROVE Max(T) \in T /\ \A y \in T : y <= Max(T)
<1> DEFINE Has(S)  == \E x \in S : \A y \in S : x >= y
           Without == {S \in SUBSET Nat : S # {} /\ IsFiniteSet(S) /\ ~Has(S)}
           Sizes   == {n \in Nat : \E S \in Without : Cardinality(S) = n}
<1>1. SUFFICES Has(T)
  BY DEF Max
<1>2. SUFFICES ASSUME ~Has(T) PROVE FALSE
  OBVIOUS
<1>3. T \in Without
  BY <1>2
<1>4. Cardinality(T) \in Nat
  BY FS_CardinalityType
<1>5. Sizes # {} /\ Sizes \subseteq Nat
  BY <1>3, <1>4
<1>6. PICK n \in Sizes : \A m \in Sizes : n <= m
  <2> HIDE DEF Sizes
  <2> QED BY <1>5, SomeLeast
<1>7. PICK S \in Without : Cardinality(S) = n
  BY <1>6
<1>8. PICK x \in S : TRUE
  BY <1>7
<1>9. /\ S \in SUBSET Nat /\ IsFiniteSet(S) /\ ~Has(S) /\ x \in Nat
  BY <1>7, <1>8
<1>10. IsFiniteSet(S \ {x}) /\ Cardinality(S \ {x}) = Cardinality(S) - 1
  BY <1>8, <1>9, FS_RemoveElement
<1>11. Cardinality(S \ {x}) \in Nat /\ n \in Nat
  BY <1>10, <1>6, FS_CardinalityType
<1>12. CASE S \ {x} = {}
  <2>1. \A y \in S : x >= y
    BY <1>12, <1>9
  <2> QED BY <2>1, <1>9, <1>8
<1>13. CASE S \ {x} # {}
  <2>1. Has(S \ {x})
    <3>1. SUFFICES ASSUME ~Has(S \ {x}) PROVE FALSE
      OBVIOUS
    <3>2. S \ {x} \in Without
      BY <1>13, <1>10, <1>9, <3>1
    <3>3. Cardinality(S \ {x}) \in Sizes
      BY <3>2, <1>11
    <3> HIDE DEF Sizes, Without, Has
    <3> QED BY <3>3, <1>6, <1>7, <1>10, <1>11
  <2>2. PICK m \in S \ {x} : \A y \in S \ {x} : m >= y
    BY <2>1
  <2>3. CASE m >= x
    BY <2>2, <2>3, <1>9
  <2>4. CASE ~(m >= x)
    <3>1. \A y \in S : x >= y
      BY <2>2, <2>4, <1>9
    <3> QED BY <3>1, <1>9, <1>8
  <2> QED BY <2>3, <2>4
<1> QED BY <1>12, <1>13

\* the column c has been added: it is there, or a migration takes it away and
\* has left the one it renames it to, unless that is taken away in turn
Held(S, c) ==
  c \in S \/ \E a \in StatementsOf(Versions) :
    /\ Drops(Statement(a), c)
    /\ Renames(Statement(a)) /\ Kept(Statement(a)[2]) => Statement(a)[2] \in S

\* the migration v has been applied, the table t created, all of them loaded
Applied(S, v) == \A i \in DOMAIN Steps[v] :
                   Steps[v][i][2] # NoColumn => Held(S, Steps[v][i][2])
Complete(S, t) == \A p \in Programs : \A c \in CurrentSchema(p) :
                    TableOf(c) = t => Held(S, c)
Whole(S)  == \A c \in S : Complete(S, TableOf(c))
Loaded(S) == \A p \in Programs : \A c \in CurrentSchema(p) : Held(S, c)

\* the statements before the statement a, and with it
Earlier(a) == {b \in StatementsOf(Versions) : Precedes(b, a)}
UpTo(a)    == {b \in StatementsOf(Versions) : ~Precedes(a, b)}

Loading(p)   == doing[p] \in {"create", "clear", "load", "assume"}
Migrating(p) == doing[p] \in {"up", "table", "insert"}
CliUp == \E p \in Programs : mode[p] = "cli" /\ Migrating(p)

\* what a program is doing fits what it has left to do
LocalInv(p) ==
  /\ doing[p] \in {"off", "createDb", "tables", "version", "create",
       "clear", "load", "assume", "pending", "up", "table", "insert",
       "down", "remove", "ensure", "connected"}
  /\ mode[p] \in {"open", "check", "cli"}
  /\ tables[p] \in SUBSET DOMAIN Tables /\ todo[p] \in SUBSET Versions /\ step[p] \in Nat
  /\ doing[p] = "load" => tables[p] # {}
  /\ doing[p] \in {"up", "table", "insert", "down", "remove"} => todo[p] # {}
  /\ doing[p] \in {"up", "down"} => step[p] \in DOMAIN Steps[Min(todo[p])]
  /\ doing[p] # "off" => p \in inUse
  /\ doing[p] \notin {"off", "createDb"} => exists
  /\ doing[p] \in {"clear", "load", "assume", "insert"} => table
  /\ mode[p] = "cli" /\ doing[p] # "off" => inUse = {p}
  /\ doing[p] \in {"down", "remove"} => mode[p] = "cli"
  /\ mode[p] = "cli" =>
       doing[p] \notin {"tables", "version", "ensure", "connected", "createDb"}
  /\ doing[p] \in {"tables", "version", "connected"} => mode[p] = "check"

DatabaseInv ==
  /\ exists \in BOOLEAN /\ table \in BOOLEAN
  /\ columns \subseteq AllColumns /\ recorded \subseteq Versions
  /\ inUse \subseteq Programs /\ interrupts \in 0 .. MaxInterrupts /\ forced \in BOOLEAN
  /\ origin \in {"regular", "old", "mistaken"}
  /\ recorded # {} => table
  /\ columns # {} \/ table => exists

\* that, of all programs
ControlInv ==
  /\ doing = [p \in Programs |-> doing[p]]
  /\ mode = [p \in Programs |-> mode[p]]
  /\ tables = [p \in Programs |-> tables[p]]
  /\ todo = [p \in Programs |-> todo[p]]
  /\ step = [p \in Programs |-> step[p]]
  /\ DatabaseInv
  /\ \A p \in Programs : LocalInv(p)

\* p alone, and not interrupted: the schema is that of the statements executed
ExactInv(p) ==
  /\ inUse = {p} /\ interrupts = 0
  /\ \A v \in recorded, w \in Versions : w < v => w \in recorded
  /\ doing[p] \in {"off", "tables", "version", "pending", "ensure", "connected"}
       => columns = SchemaOf(recorded)
  /\ doing[p] \in {"createDb", "create", "clear", "load", "assume"} => recorded = {}
  /\ doing[p] \in {"createDb", "create", "clear"} => columns = {}
  /\ doing[p] = "load" => columns = {c \in CurrentSchema(p) : 
                          \A n \in tables[p] : Tables[n] # TableOf(c)}
  /\ doing[p] = "assume" => columns = CurrentSchema(p)
  /\ Migrating(p) =>
       /\ todo[p] \cap recorded = {}
       /\ \A x \in todo[p] : \A w \in Versions \ todo[p] : w < x => w \in recorded
  /\ doing[p] \in {"pending", "up", "table", "insert"} /\ mode[p] # "cli" => recorded # {}
  /\ doing[p] = "up" => columns = After(Earlier(<<Min(todo[p]), step[p]>>))
  /\ doing[p] \in {"table", "insert"} => columns = SchemaOf(recorded \cup {Min(todo[p])})
  /\ doing[p] \in {"down", "remove"} =>
       /\ todo[p] \subseteq recorded /\ todo[p] = {Min(todo[p])}
       /\ \A w \in recorded : w <= Min(todo[p])
       /\ "db:down" \in Commands
  /\ doing[p] = "down" => columns = After(UpTo(<<Min(todo[p]), step[p]>>))
  /\ doing[p] = "remove" => columns = SchemaOf(recorded \ todo[p])
  /\ doing[p] = "connected" => Available[p] \subseteq recorded

SomeLoading == \E p \in Programs : Loading(p)

\* What a program has done; and that it does not migrate what is still being
\* loaded: it began when something was recorded, which means that everything is
\* there, or on the command line, where no other program is.
GeneralAt(p) ==
  /\ doing[p] \notin {"down", "remove"}
  /\ doing[p] = "connected" => \A w \in Available[p] : Applied(columns, w)
  /\ doing[p] = "load" => \A n \in DOMAIN Tables \ tables[p] : Complete(columns, Tables[n])
  /\ doing[p] = "assume" => Loaded(columns)
  /\ Migrating(p) => \A x \in todo[p] : \A w \in Versions \ todo[p] :
                       w < x => Applied(columns, w)
  /\ doing[p] = "up" => \A i \in DOMAIN Steps[Min(todo[p])] :
       i < step[p] /\ Steps[Min(todo[p])][i][2] # NoColumn
         => Held(columns, Steps[Min(todo[p])][i][2])
  /\ doing[p] \in {"table", "insert"} => Applied(columns, Min(todo[p]))
  /\ (doing[p] = "pending" \/ Migrating(p)) /\ mode[p] # "cli"
       /\ (recorded = {} \/ SomeLoading) => Loaded(columns)
  /\ Migrating(p) /\ mode[p] = "cli" /\ recorded = {} =>
       /\ Min(todo[p]) = Min(Versions)
       /\ doing[p] = "up" => \A i \in DOMAIN Steps[Min(Versions)] :
                            i < step[p] => Steps[Min(Versions)][i][2] \in columns

\* Several programs, or interruptions.  What is recorded is applied; while
\* nothing is recorded, or a program loads, each table is there with all of its
\* columns or not at all, which is why CREATE TABLE IF NOT EXISTS may skip it.
GeneralInv ==
  /\ interrupts > 0 \/ \A p \in Programs : inUse # {p}
  /\ \A v \in recorded, w \in Versions : w <= v => Applied(columns, w)
  /\ columns # {} => table \/ CliUp
  /\ (SomeLoading \/ recorded = {}) => Whole(columns) \/ CliUp
  /\ SomeLoading /\ recorded # {} => Loaded(columns)
  /\ \A p \in Programs : GeneralAt(p)

\* A database from before the migrations, of which nothing is recorded yet:
\* whoever migrates it begins with the initial migration, which finds all of
\* its columns there.
OldInv ==
  /\ origin = "old" /\ exists
  /\ recorded = {} /\ columns = SchemaOf({Min(Versions)})
  /\ \A p \in Programs :
       /\ doing[p] \in {"off", "tables", "version", "pending", "up", "table", "insert"}
       /\ Migrating(p) => /\ Min(todo[p]) = Min(Versions)
                          /\ \A x \in todo[p] : \A w \in Versions \ todo[p] : x <= w

MigratorIInv ==
  /\ ControlInv
  /\ \/ forced
     \/ OldTakenForCanceled
     \/ OldInv
     \/ \E p \in Programs : ExactInv(p)
     \/ GeneralInv
-----------------------------------------------------------------------------
(* Statements and schemas *)

LEMMA StepsShape ==
  ASSUME NEW v \in Versions
  PROVE  /\ Len(Steps[v]) \in Nat \ {0} /\ DOMAIN Steps[v] = 1 .. Len(Steps[v])
         /\ \A i \in DOMAIN Steps[v] :
              /\ Steps[v][i][1] \in AllColumns \cup {NoColumn}
              /\ Steps[v][i][2] \in AllColumns \cup {NoColumn}
         /\ v \in Nat
<1> DEFINE P == (AllColumns \cup {NoColumn}) \X (AllColumns \cup {NoColumn})
<1>1. Steps[v] \in Seq(P) /\ Steps[v] # <<>>
  BY StepsAssumption
<1>2. Len(Steps[v]) \in Nat \ {0} /\ DOMAIN Steps[v] = 1 .. Len(Steps[v])
  <2> HIDE DEF P
  <2> QED BY <1>1, EmptySeq, LenProperties
<1>3. \A i \in DOMAIN Steps[v] : Steps[v][i] \in P
  <2> HIDE DEF P
  <2> QED BY <1>1, <1>2, ElementOfSeq
<1>4. v \in Nat
  BY MigratorAssumption
<1> QED BY <1>2, <1>3, <1>4

LEMMA StatementIs ==
  ASSUME NEW V \in SUBSET Versions, NEW v \in V, NEW i \in DOMAIN Steps[v]
  PROVE  /\ <<v, i>> \in StatementsOf(V) /\ <<v, i>> \in StatementsOf(Versions)
         /\ Statement(<<v, i>>) = Steps[v][i]
BY DEF StatementsOf, Statement

LEMMA StatementsIn ==
  ASSUME NEW V \in SUBSET Versions, NEW a \in StatementsOf(V)
  PROVE  /\ a[1] \in V /\ a[2] \in DOMAIN Steps[a[1]] /\ a = <<a[1], a[2]>>
         /\ a \in StatementsOf(Versions) /\ Statement(a) = Steps[a[1]][a[2]]
         /\ a[1] \in Nat /\ a[2] \in Nat \ {0} /\ a[2] <= Len(Steps[a[1]])
         /\ Statement(a)[1] \in AllColumns \cup {NoColumn}
         /\ Statement(a)[2] \in AllColumns \cup {NoColumn}
         /\ Statement(a)[1] # Statement(a)[2]
<1>1. PICK v \in V : a \in {v} \X DOMAIN Steps[v]
  BY DEF StatementsOf
<1>2. a[1] = v /\ a[2] \in DOMAIN Steps[v] /\ a = <<a[1], a[2]>> /\ v \in Versions
  BY <1>1
<1>3. a \in StatementsOf(Versions) /\ Statement(a) = Steps[a[1]][a[2]]
  BY <1>2, StatementIs
<1>4. Statement(a)[1] # Statement(a)[2]
  BY <1>3, StepsAssumption
<1> QED BY <1>2, <1>3, <1>4, StepsShape

LEMMA NoColumnIsNone == NoColumn \notin AllColumns
BY DEF AllColumns

\* two statements are the same or one is before the other
LEMMA StatementsOrdered ==
  ASSUME NEW a \in StatementsOf(Versions), NEW b \in StatementsOf(Versions)
  PROVE  /\ Precedes(a, b) \/ Precedes(b, a) \/ a = b
         /\ ~(Precedes(a, b) /\ Precedes(b, a)) /\ ~Precedes(a, a)
<1>1. /\ a = <<a[1], a[2]>> /\ a[1] \in Nat /\ a[2] \in Nat
      /\ b = <<b[1], b[2]>> /\ b[1] \in Nat /\ b[2] \in Nat
  BY StatementsIn
<1> QED BY <1>1 DEF Precedes

LEMMA PrecedesTransitive ==
  ASSUME NEW a \in StatementsOf(Versions), NEW b \in StatementsOf(Versions),
         NEW c \in StatementsOf(Versions), Precedes(a, b), Precedes(b, c)
  PROVE  Precedes(a, c)
<1>1. /\ a[1] \in Nat /\ a[2] \in Nat /\ b[1] \in Nat /\ b[2] \in Nat
      /\ c[1] \in Nat /\ c[2] \in Nat
  BY StatementsIn
<1> QED BY <1>1 DEF Precedes

LEMMA AfterIsSchema == ASSUME NEW A PROVE After(A) \subseteq AllColumns
BY DEF After

LEMMA AlterIsSchema ==
  ASSUME NEW S \in SUBSET AllColumns, NEW a \in StatementsOf(Versions)
  PROVE  Alter(S, Statement(a)) \subseteq AllColumns
BY StatementsIn DEF Alter

LEMMA RevertIsSchema ==
  ASSUME NEW S \in SUBSET AllColumns, NEW a \in StatementsOf(Versions)
  PROVE  Alter(S, Reversed(Statement(a))) \subseteq AllColumns
BY StatementsIn DEF Alter, Reversed

\* what a statement does where those before it have been executed
LEMMA AlterAfter ==
  ASSUME NEW a \in StatementsOf(Versions)
  PROVE  Alter(After(Earlier(a)), Statement(a)) = After(UpTo(a))
<1> DEFINE s == Statement(a)
<1>1. s[2] \in AllColumns \cup {NoColumn}
  BY StatementsIn
<1>2. ASSUME NEW c \in After(UpTo(a)) PROVE c \in Alter(After(Earlier(a)), s)
  <2>1. PICK x \in UpTo(a) : /\ Statement(x)[2] = c
                             /\ \A b \in UpTo(a) : Precedes(x, b) => ~Drops(Statement(b), c)
    BY DEF After
  <2>2. x \in StatementsOf(Versions) /\ ~Precedes(a, x) /\ c \in AllColumns
    BY DEF UpTo, After
  <2>3. CASE x = a
    BY <2>1, <2>2, <2>3, NoColumnIsNone DEF Alter
  <2>4. CASE x # a
    <3>1. Precedes(x, a)
      BY <2>2, <2>4, StatementsOrdered
    <3>2. x \in Earlier(a) /\ Earlier(a) \subseteq UpTo(a) /\ a \in UpTo(a)
      BY <2>2, <3>1, StatementsOrdered DEF Earlier, UpTo
    <3>3. c \in After(Earlier(a))
      BY <2>1, <2>2, <3>2 DEF After
    <3>4. ~Drops(s, c)
      BY <2>1, <3>1, <3>2
    <3> QED BY <3>3, <3>4 DEF Alter
  <2> QED BY <2>3, <2>4
<1>3. ASSUME NEW c \in Alter(After(Earlier(a)), s) PROVE c \in After(UpTo(a))
  <2>1. CASE c \in After(Earlier(a)) /\ ~Drops(s, c)
    <3>1. PICK x \in Earlier(a) :
             /\ Statement(x)[2] = c
             /\ \A b \in Earlier(a) : Precedes(x, b) => ~Drops(Statement(b), c)
      BY <2>1 DEF After
    <3>2. x \in UpTo(a) /\ c \in AllColumns
      BY <2>1, StatementsOrdered DEF Earlier, UpTo, After
    <3>3. ASSUME NEW b \in UpTo(a), Precedes(x, b) PROVE ~Drops(Statement(b), c)
      <4>1. b = a \/ b \in Earlier(a)
        BY StatementsOrdered DEF Earlier, UpTo
      <4> QED BY <4>1, <3>1, <2>1, <3>3
    <3> QED BY <3>1, <3>2, <3>3 DEF After
  <2>2. CASE c = s[2] /\ c # NoColumn
    <3>1. a \in UpTo(a)
      BY StatementsOrdered DEF UpTo
    <3>2. \A b \in UpTo(a) : ~Precedes(a, b)
      BY DEF UpTo
    <3> QED BY <2>2, <3>1, <3>2, <1>1 DEF After
  <2> QED BY <2>1, <2>2 DEF Alter
<1> QED BY <1>2, <1>3

LEMMA FirstStatement ==
  ASSUME NEW v \in Versions
  PROVE  /\ <<v, 1>> \in StatementsOf(Versions)
         /\ Earlier(<<v, 1>>) = StatementsOf({w \in Versions : w < v})
<1>1. <<v, 1>> \in StatementsOf(Versions)
  BY StepsShape, StatementIs
<1>2. ASSUME NEW b \in Earlier(<<v, 1>>)
      PROVE  b \in StatementsOf({w \in Versions : w < v})
  <2>1. b \in StatementsOf(Versions) /\ Precedes(b, <<v, 1>>)
    BY DEF Earlier
  <2>2. /\ b[1] \in Versions /\ b[2] \in DOMAIN Steps[b[1]] /\ b = <<b[1], b[2]>>
        /\ b[2] \in Nat \ {0} /\ b[1] \in Nat /\ v \in Nat
    BY <2>1, StatementsIn, StepsShape
  <2>3. b[1] < v
    BY <2>1, <2>2 DEF Precedes
  <2> DEFINE V == {w \in Versions : w < v}
  <2>4. V \in SUBSET Versions /\ b[1] \in V
    BY <2>2, <2>3
  <2> HIDE DEF V
  <2>5. <<b[1], b[2]>> \in StatementsOf(V)
    BY <2>4, <2>2, StatementIs
  <2> QED BY <2>5, <2>2 DEF V
<1>3. ASSUME NEW b \in StatementsOf({w \in Versions : w < v}) PROVE b \in Earlier(<<v, 1>>)
  <2> DEFINE V == {w \in Versions : w < v}
  <2>1. V \in SUBSET Versions /\ b \in StatementsOf(V)
    BY <1>3
  <2> HIDE DEF V
  <2>2. b[1] \in V /\ b \in StatementsOf(Versions)
    BY <2>1, StatementsIn
  <2> QED BY <2>2 DEF V, Earlier, Precedes
<1> QED BY <1>1, <1>2, <1>3

LEMMA LastStatement ==
  ASSUME NEW v \in Versions
  PROVE  /\ <<v, Len(Steps[v])>> \in StatementsOf(Versions)
         /\ UpTo(<<v, Len(Steps[v])>>) = StatementsOf({w \in Versions : w <= v})
<1> DEFINE n == Len(Steps[v])
           V == {w \in Versions : w <= v}
<1>1. <<v, n>> \in StatementsOf(Versions) /\ n \in Nat /\ v \in Nat
  BY StepsShape, StatementIs
<1>2. V \in SUBSET Versions
  OBVIOUS
<1>3. ASSUME NEW b \in UpTo(<<v, n>>) PROVE b \in StatementsOf(V)
  <2>1. b \in StatementsOf(Versions) /\ ~Precedes(<<v, n>>, b)
    BY DEF UpTo
  <2>2. /\ b[1] \in Versions /\ b[2] \in DOMAIN Steps[b[1]] /\ b = <<b[1], b[2]>>
        /\ b[1] \in Nat
    BY <2>1, StatementsIn
  <2>3. b[1] \in V
    BY <2>1, <2>2, <1>1 DEF Precedes
  <2> HIDE DEF V
  <2> QED BY <1>2, <2>2, <2>3, StatementIs
<1>4. ASSUME NEW b \in StatementsOf(V) PROVE b \in UpTo(<<v, n>>)
  <2> HIDE DEF V
  <2>1. /\ b[1] \in V /\ b \in StatementsOf(Versions) /\ b[2] \in Nat /\ b[1] \in Nat
        /\ b[2] <= Len(Steps[b[1]])
    BY <1>2, StatementsIn
  <2> QED BY <2>1, <1>1 DEF V, UpTo, Precedes
<1> QED BY <1>1, <1>3, <1>4

LEMMA NextStatement ==
  ASSUME NEW v \in Versions, NEW i \in DOMAIN Steps[v], i # Len(Steps[v])
  PROVE  /\ i + 1 \in DOMAIN Steps[v] /\ <<v, i + 1>> \in StatementsOf(Versions)
         /\ Earlier(<<v, i + 1>>) = UpTo(<<v, i>>)
<1>1. i \in Nat /\ i + 1 \in DOMAIN Steps[v] /\ v \in Nat
  BY StepsShape
<1>2. ASSUME NEW b \in StatementsOf(Versions)
      PROVE  Precedes(b, <<v, i + 1>>) <=> ~Precedes(<<v, i>>, b)
  <2>1. b[1] \in Nat /\ b[2] \in Nat
    BY StatementsIn
  <2> QED BY <1>1, <2>1 DEF Precedes
<1> QED BY <1>1, <1>2, StatementIs DEF Earlier, UpTo

-----------------------------------------------------------------------------
(* Columns that are there or have been taken away *)

LEMMA KeptHeld == ASSUME NEW S, NEW c, Kept(c), Held(S, c) PROVE c \in S
BY DEF Kept, Held

\* a statement executed has left its column, or a later one took it away
LEMMA AfterHolds ==
  ASSUME NEW A \in SUBSET StatementsOf(Versions), NEW a \in A,
         Statement(a)[2] # NoColumn
  PROVE  Held(After(A), Statement(a)[2])
<1> DEFINE c == Statement(a)[2]
<1>1. c \in AllColumns
  BY StatementsIn
<1>2. CASE \A b \in A : Precedes(a, b) => ~Drops(Statement(b), c)
  BY <1>1, <1>2 DEF After, Held
<1>3. CASE \E b \in A : Precedes(a, b) /\ Drops(Statement(b), c)
  <2>1. PICK b \in A : Drops(Statement(b), c)
    BY <1>3
  <2>2. ASSUME Kept(Statement(b)[2]) PROVE Statement(b)[2] \in After(A)
    <3>1. Statement(b)[2] \in AllColumns
      BY <2>2, StatementsIn DEF Kept
    <3> QED BY <2>2, <3>1 DEF Kept, After
  <2> QED BY <2>1, <2>2 DEF Held
<1> QED BY <1>2, <1>3

LEMMA HeldThrough ==
  ASSUME NEW S, NEW T, \A c \in S : Held(T, c), NEW d, Held(S, d)
  PROVE  Held(T, d)
<1>1. CASE d \in S
  BY <1>1
<1>2. CASE d \notin S
  <2>1. PICK a \in StatementsOf(Versions) :
          /\ Drops(Statement(a), d)
          /\ Renames(Statement(a)) /\ Kept(Statement(a)[2]) => Statement(a)[2] \in S
    BY <1>2 DEF Held
  <2>2. Renames(Statement(a)) /\ Kept(Statement(a)[2]) => Statement(a)[2] \in T
    BY <2>1, KeptHeld
  <2> QED BY <2>1, <2>2 DEF Held
<1> QED BY <1>1, <1>2

LEMMA AlterHolds ==
  ASSUME NEW S, NEW a \in StatementsOf(Versions), NEW c \in S
  PROVE  Held(Alter(S, Statement(a)), c)
<1> DEFINE T == Alter(S, Statement(a))
<1>1. CASE ~Drops(Statement(a), c)
  BY <1>1 DEF Alter, Held
<1>2. CASE Drops(Statement(a), c)
  <2>1. Renames(Statement(a)) => Statement(a)[2] \in T
    BY DEF Renames, Alter
  <2>2. Held(T, c)
    <3> HIDE DEF T
    <3> QED BY <1>2, <2>1 DEF Held
  <2> QED BY <2>2
<1> QED BY <1>1, <1>2

\* what has been applied or loaded stays so
LEMMA HeldStays ==
  ASSUME NEW S, NEW T, \A c \in S : Held(T, c)
  PROVE  /\ \A c : Held(S, c) => Held(T, c)
         /\ \A v \in Versions : Applied(S, v) => Applied(T, v)
         /\ \A t : Complete(S, t) => Complete(T, t)
         /\ Loaded(S) => Loaded(T)
<1>1. \A c : Held(S, c) => Held(T, c)
  BY HeldThrough
<1> HIDE DEF Held
<1> QED BY <1>1 DEF Applied, Complete, Loaded

LEMMA InitialIs ==
  ASSUME Versions # {}
  PROVE  /\ Min(Versions) \in Versions /\ \A v \in Versions : Min(Versions) <= v
         /\ \A S : Applied(S, Min(Versions)) => S # {}
<1>1. Min(Versions) \in Versions /\ \A v \in Versions : Min(Versions) <= v
  BY MinIs, MigratorAssumption
<1>2. PICK a \in StatementsOf({Min(Versions)}) : \A b \in StatementsOf(Versions) :
        Drops(Statement(b), Statement(a)[2]) => Renames(Statement(b)) /\ Kept(Statement(b)[2])
  BY StepsAssumption
<1>3. /\ a[1] = Min(Versions) /\ a[2] \in DOMAIN Steps[Min(Versions)]
      /\ Statement(a) = Steps[Min(Versions)][a[2]] /\ Statement(a)[2] # NoColumn
  <2>1. {Min(Versions)} \in SUBSET Versions
    BY <1>1
  <2>2. Statement(a)[1] = NoColumn
    BY StepsAssumption
  <2> QED BY <2>1, <2>2, StatementsIn
<1>4. ASSUME NEW S, Applied(S, Min(Versions)) PROVE S # {}
  <2>1. Held(S, Statement(a)[2])
    BY <1>3, <1>4 DEF Applied
  <2> QED BY <2>1, <1>2 DEF Held
<1> QED BY <1>1, <1>4

\* the schema of migrations has the columns of each of them, and of the
\* initial migration at least one
LEMMA SchemaApplies ==
  ASSUME NEW V \in SUBSET Versions, NEW v \in V
  PROVE  Applied(SchemaOf(V), v)
<1>1. StatementsOf(V) \subseteq StatementsOf(Versions)
  BY StatementsIn
<1>2. ASSUME NEW i \in DOMAIN Steps[v], Steps[v][i][2] # NoColumn
      PROVE  Held(SchemaOf(V), Steps[v][i][2])
  <2>1. <<v, i>> \in StatementsOf(V) /\ Statement(<<v, i>>) = Steps[v][i]
    BY StatementIs
  <2> QED BY <1>1, <1>2, <2>1, AfterHolds DEF SchemaOf
<1> QED BY <1>2 DEF Applied

LEMMA ReleasesAre ==
  ASSUME NEW p \in Programs
  PROVE  /\ Available[p] \in SUBSET Versions /\ Available[p] # {}
         /\ \A v \in Available[p], w \in Versions : w < v => w \in Available[p]
         /\ SchemaVersions[p] \in SUBSET Versions /\ SchemaVersions[p] # {}
         /\ \A v \in SchemaVersions[p], w \in Versions : w < v => w \in SchemaVersions[p]
         /\ \A c \in SchemaOf(Available[p]) : Kept(c)
         /\ \A q \in Programs : CurrentSchema(q) = CurrentSchema(p)
         /\ Versions # {} /\ Min(Versions) \in SchemaVersions[p]
         /\ Min(Versions) \in Available[p]
<1>1. /\ Available[p] \in SUBSET Versions /\ Available[p] # {}
      /\ SchemaVersions[p] \in SUBSET Versions /\ SchemaVersions[p] # {}
  BY MigratorAssumption
<1>2. /\ \A v \in Available[p], w \in Versions : w < v => w \in Available[p]
      /\ \A v \in SchemaVersions[p], w \in Versions : w < v => w \in SchemaVersions[p]
      /\ \A c \in SchemaOf(Available[p]) : Kept(c)
  BY ReleasesAssumption
<1>3. \A q \in Programs : CurrentSchema(q) = CurrentSchema(p)
  BY ReleasesAssumption DEF CurrentSchema
<1>4. Versions # {} /\ Versions \subseteq Nat
  BY <1>1, MigratorAssumption
<1>5. Min(Versions) \in Versions /\ \A v \in Versions : Min(Versions) <= v
  BY <1>4, InitialIs
<1>6. ASSUME NEW V \in SUBSET Versions, V # {},
             \A v \in V, w \in Versions : w < v => w \in V
      PROVE  Min(Versions) \in V
  <2>1. PICK v \in V : TRUE
    BY <1>6
  <2>2. Min(Versions) <= v /\ Min(Versions) \in Nat /\ v \in Nat
    BY <1>4, <1>5, <2>1
  <2>3. Min(Versions) = v \/ Min(Versions) < v
    BY <2>2
  <2> QED BY <2>1, <2>3, <1>5, <1>6
<1>7. Min(Versions) \in SchemaVersions[p] /\ Min(Versions) \in Available[p]
  BY <1>1, <1>2, <1>6
<1> QED BY <1>1, <1>2, <1>3, <1>4, <1>7

\* with the current schema loaded, the migrations it was made from are applied
LEMMA LoadedApplies ==
  ASSUME NEW S, Loaded(S), NEW p \in Programs, NEW v \in SchemaVersions[p],
         NEW w \in Versions, w <= v
  PROVE  Applied(S, w)
<1>1. SchemaVersions[p] \in SUBSET Versions /\ w \in SchemaVersions[p]
  <2>1. w \in Nat /\ v \in Nat
    BY ReleasesAre, MigratorAssumption
  <2> QED BY <2>1, ReleasesAre
<1>2. Applied(CurrentSchema(p), w)
  BY <1>1, SchemaApplies DEF CurrentSchema
<1>3. \A c \in CurrentSchema(p) : Held(S, c)
  BY DEF Loaded
<1> QED BY <1>2, <1>3, HeldStays

LEMMA LoadedIsSomething ==
  ASSUME NEW S, Loaded(S), NEW p \in Programs
  PROVE  S # {}
<1>1. Versions # {} /\ Min(Versions) \in SchemaVersions[p] /\ Min(Versions) \in Versions
  BY ReleasesAre
<1>2. Min(Versions) \in Nat
  BY <1>1, MigratorAssumption
<1>3. Applied(S, Min(Versions))
  BY <1>1, <1>2, LoadedApplies
<1> QED BY <1>1, <1>3, InitialIs


-----------------------------------------------------------------------------
(* What every program is doing fits its own state and the database's *)

LEMMA ControlTypes == ASSUME ControlInv PROVE MigratorTypeOK
BY DEF ControlInv, DatabaseInv, LocalInv, MigratorTypeOK

\* a step of p leaves the others alone
OnlyAt(p) ==
  /\ doing' = [doing EXCEPT ![p] = doing'[p]]
  /\ mode' = [mode EXCEPT ![p] = mode'[p]]
  /\ tables' = [tables EXCEPT ![p] = tables'[p]]
  /\ todo' = [todo EXCEPT ![p] = todo'[p]]
  /\ step' = [step EXCEPT ![p] = step'[p]]

LEMMA ControlStep ==
  ASSUME ControlInv, NEW p \in inUse, OnlyAt(p), inUse' = inUse,
         exists => exists', table => table', DatabaseInv', LocalInv(p)'
  PROVE  ControlInv'
<1>1. p \in Programs
  BY DEF ControlInv, DatabaseInv
<1>2. \A q \in Programs \ {p} : /\ doing'[q] = doing[q] /\ mode'[q] = mode[q]
                                /\ tables'[q] = tables[q] /\ todo'[q] = todo[q]
                                /\ step'[q] = step[q]
  BY <1>1 DEF OnlyAt, ControlInv
<1>3. \A q \in Programs \ {p} : LocalInv(q)'
  BY <1>2 DEF LocalInv, ControlInv
<1>4. /\ doing' = [q \in Programs |-> doing'[q]]
      /\ mode' = [q \in Programs |-> mode'[q]]
      /\ tables' = [q \in Programs |-> tables'[q]]
      /\ todo' = [q \in Programs |-> todo'[q]]
      /\ step' = [q \in Programs |-> step'[q]]
  BY <1>1 DEF OnlyAt, ControlInv
<1> QED BY <1>3, <1>4 DEF ControlInv

LEMMA Operands ==
  ASSUME ControlInv, NEW p \in Programs
  PROVE  /\ todo[p] # {} => /\ Min(todo[p]) \in todo[p] /\ Min(todo[p]) \in Versions
                            /\ \A v \in todo[p] : Min(todo[p]) <= v
         /\ tables[p] # {} => /\ Min(tables[p]) \in tables[p]
                              /\ Min(tables[p]) \in DOMAIN Tables
                              /\ \A n \in tables[p] : Min(tables[p]) <= n
         /\ recorded # {} => /\ Max(recorded) \in recorded /\ Max(recorded) \in Versions
                             /\ \A v \in recorded : v <= Max(recorded)
         /\ Pending(p) \in SUBSET Versions
         /\ Pending(p) # {} => Min(Pending(p)) \in Pending(p)
<1>1. todo[p] \subseteq Versions /\ tables[p] \subseteq DOMAIN Tables /\ recorded \subseteq Versions
  BY DEF ControlInv, DatabaseInv, LocalInv
<1>2. Versions \subseteq Nat /\ IsFiniteSet(Versions) /\ DOMAIN Tables \subseteq Nat
  BY MigratorAssumption, TablesAssumption
<1>3. IsFiniteSet(recorded)
  BY <1>1, <1>2, FS_Subset
<1>4. Pending(p) \in SUBSET Versions
  BY ReleasesAre DEF Pending
<1>5. todo[p] # {} => Min(todo[p]) \in todo[p] /\ \A v \in todo[p] : Min(todo[p]) <= v
  BY <1>1, <1>2, MinIs
<1>6. tables[p] # {} => Min(tables[p]) \in tables[p] /\ \A n \in tables[p] : Min(tables[p]) <= n
  BY <1>1, <1>2, MinIs
<1>7. recorded # {} => Max(recorded) \in recorded /\ \A v \in recorded : v <= Max(recorded)
  BY <1>1, <1>2, <1>3, MaxIs
<1>8. Pending(p) # {} => Min(Pending(p)) \in Pending(p)
  BY <1>2, <1>4, MinIs
<1> QED BY <1>1, <1>4, <1>5, <1>6, <1>7, <1>8

\* the current schema has tables, all of them among those it creates
LEMMA SomeTable ==
  ASSUME NEW p \in Programs
  PROVE  /\ CurrentSchema(p) \subseteq AllColumns
         /\ \E n \in DOMAIN Tables : HasTable(CurrentSchema(p), Tables[n])
<1>1. CurrentSchema(p) \subseteq AllColumns
  BY AfterIsSchema DEF CurrentSchema, SchemaOf
<1>2. /\ Versions # {} /\ Min(Versions) \in SchemaVersions[p]
      /\ SchemaVersions[p] \in SUBSET Versions
  BY ReleasesAre
<1>3. CurrentSchema(p) # {}
  BY <1>2, SchemaApplies, InitialIs DEF CurrentSchema
<1> QED BY <1>1, <1>3, TablesAssumption DEF HasTable

LEMMA StatementAt ==
  ASSUME ControlInv, NEW p \in Programs, doing[p] \in {"up", "down"}
  PROVE  /\ <<Min(todo[p]), step[p]>> \in StatementsOf(Versions)
         /\ Statement(<<Min(todo[p]), step[p]>>) = Steps[Min(todo[p])][step[p]]
         /\ step[p] \in DOMAIN Steps[Min(todo[p])] /\ Min(todo[p]) \in Versions
<1>1. todo[p] # {} /\ step[p] \in DOMAIN Steps[Min(todo[p])]
  BY DEF ControlInv, LocalInv
<1> QED BY <1>1, Operands, StatementIs

LEMMA ControlRun ==
  ASSUME ControlInv, NEW p \in inUse, NEW s, NEW last, NEW following, NEW next,
         doing[p] \in {"up", "down"}, Run(p, s, last, following, next),
         Alter(columns, s) \subseteq AllColumns,
         step[p] # last => following \in DOMAIN Steps[Min(todo[p])],
         doing[p] = "up" => next = "table", doing[p] = "down" => next = "remove"
  PROVE  ControlInv'
<1>1. p \in Programs /\ DatabaseInv /\ LocalInv(p)
  BY DEF ControlInv, DatabaseInv
<1>2. exists
  BY <1>1 DEF LocalInv
<1>3. DatabaseInv'
  BY <1>1, <1>2 DEF DatabaseInv, Run, history
<1>4. OnlyAt(p)
  BY <1>1 DEF OnlyAt, Run, GoTo, ControlInv
<1>5. DOMAIN Steps[Min(todo[p])] \subseteq Nat
  <2>1. Min(todo[p]) \in Versions
    BY <1>1, StatementAt
  <2> QED BY <2>1, StepsShape
<1>6. LocalInv(p)'
  <2>1. CASE Fails(columns, s)
    BY <1>1, <2>1 DEF Run, GoTo, LocalInv, ControlInv, history
  <2>2. CASE ~Fails(columns, s) /\ step[p] = last
    BY <1>1, <2>2 DEF Run, GoTo, LocalInv, ControlInv, history
  <2>3. CASE ~Fails(columns, s) /\ step[p] # last
    <3>1. step'[p] = following /\ step'[p] \in Nat
      BY <1>1, <1>5, <2>3 DEF Run, ControlInv
    <3> QED BY <1>1, <2>3, <3>1 DEF Run, LocalInv, history
  <2> QED BY <2>1, <2>2, <2>3
<1> QED BY <1>3, <1>4, <1>6, ControlStep DEF Run, history

LEMMA ControlUp == ASSUME ControlInv, NEW p \in inUse, Up(p) PROVE ControlInv'
<1> DEFINE v == Min(todo[p])
<1>1. p \in Programs /\ doing[p] = "up" /\ columns \in SUBSET AllColumns
  BY DEF ControlInv, DatabaseInv, Up
<1>2. /\ <<v, step[p]>> \in StatementsOf(Versions) /\ v \in Versions
      /\ Statement(<<v, step[p]>>) = Steps[v][step[p]] /\ step[p] \in DOMAIN Steps[v]
  BY <1>1, StatementAt
<1>3. Alter(columns, Steps[v][step[p]]) \subseteq AllColumns
  BY <1>1, <1>2, AlterIsSchema
<1>4. step[p] # Len(Steps[v]) => step[p] + 1 \in DOMAIN Steps[v]
  BY <1>2, NextStatement
<1>5. Run(p, Steps[v][step[p]], Len(Steps[v]), step[p] + 1, "table")
  BY DEF Up
<1> HIDE DEF v
<1> QED BY <1>1, <1>3, <1>4, <1>5, ControlRun DEF v

LEMMA ControlDown == ASSUME ControlInv, NEW p \in inUse, Down(p) PROVE ControlInv'
<1> DEFINE v == Min(todo[p])
<1>1. p \in Programs /\ doing[p] = "down" /\ columns \in SUBSET AllColumns
  BY DEF ControlInv, DatabaseInv, Down
<1>2. /\ <<v, step[p]>> \in StatementsOf(Versions) /\ v \in Versions
      /\ Statement(<<v, step[p]>>) = Steps[v][step[p]] /\ step[p] \in DOMAIN Steps[v]
  BY <1>1, StatementAt
<1>3. Alter(columns, Reversed(Steps[v][step[p]])) \subseteq AllColumns
  BY <1>1, <1>2, RevertIsSchema
<1>4. step[p] # 1 => step[p] - 1 \in DOMAIN Steps[v]
  BY <1>2, StepsShape
<1>5. Run(p, Reversed(Steps[v][step[p]]), 1, step[p] - 1, "remove")
  BY DEF Down
<1> HIDE DEF v
<1> QED BY <1>1, <1>3, <1>4, <1>5, ControlRun DEF v

LEMMA ControlConnect == ASSUME ControlInv, NEW p \in inUse, Connect(p) PROVE ControlInv'
<1>1. p \in Programs /\ DatabaseInv /\ LocalInv(p)
  BY DEF ControlInv, DatabaseInv
<1>2. DatabaseInv'
  BY <1>1 DEF DatabaseInv, LocalInv, Connect, database, history
<1>3. OnlyAt(p)
  BY <1>1 DEF OnlyAt, Connect, GoTo, Conclude, ControlInv, database, history
<1>4. LocalInv(p)'
  BY <1>1 DEF Connect, GoTo, Conclude, LocalInv, ControlInv, database, history
<1> QED BY <1>2, <1>3, <1>4, ControlStep DEF Connect, database, history

LEMMA ControlCreateDatabase == ASSUME ControlInv, NEW p \in inUse, CreateDatabase(p) PROVE ControlInv'
<1>1. p \in Programs /\ DatabaseInv /\ LocalInv(p)
  BY DEF ControlInv, DatabaseInv
<1>2. DatabaseInv'
  BY <1>1 DEF DatabaseInv, LocalInv, CreateDatabase, database, history
<1>3. OnlyAt(p)
  BY <1>1 DEF OnlyAt, CreateDatabase, GoTo, Conclude, ControlInv, database, history
<1>4. LocalInv(p)'
  BY <1>1 DEF CreateDatabase, GoTo, Conclude, LocalInv, ControlInv, database, history
<1> QED BY <1>2, <1>3, <1>4, ControlStep DEF CreateDatabase, database, history

LEMMA ControlShowTables == ASSUME ControlInv, NEW p \in inUse, ShowTables(p) PROVE ControlInv'
<1>1. p \in Programs /\ DatabaseInv /\ LocalInv(p)
  BY DEF ControlInv, DatabaseInv
<1>2. DatabaseInv'
  BY <1>1 DEF DatabaseInv, LocalInv, ShowTables, database, history
<1>3. OnlyAt(p)
  BY <1>1 DEF OnlyAt, ShowTables, GoTo, Conclude, ControlInv, database, history
<1>4. LocalInv(p)'
  BY <1>1 DEF ShowTables, GoTo, Conclude, LocalInv, ControlInv, database, history
<1> QED BY <1>2, <1>3, <1>4, ControlStep DEF ShowTables, database, history

LEMMA ControlCurrentVersion == ASSUME ControlInv, NEW p \in inUse, CurrentVersion(p) PROVE ControlInv'
<1>1. p \in Programs /\ DatabaseInv /\ LocalInv(p)
  BY DEF ControlInv, DatabaseInv
<1>2. DatabaseInv'
  BY <1>1 DEF DatabaseInv, LocalInv, CurrentVersion, database, history
<1>3. OnlyAt(p)
  BY <1>1 DEF OnlyAt, CurrentVersion, GoTo, Conclude, ControlInv, database, history
<1>4. LocalInv(p)'
  BY <1>1 DEF CurrentVersion, GoTo, Conclude, LocalInv, ControlInv, database, history
<1> QED BY <1>2, <1>3, <1>4, ControlStep DEF CurrentVersion, database, history

LEMMA ControlEnsureCurrent == ASSUME ControlInv, NEW p \in inUse, EnsureCurrent(p) PROVE ControlInv'
<1>1. p \in Programs /\ DatabaseInv /\ LocalInv(p)
  BY DEF ControlInv, DatabaseInv
<1>2. DatabaseInv'
  BY <1>1 DEF DatabaseInv, LocalInv, EnsureCurrent, database, history
<1>3. OnlyAt(p)
  BY <1>1 DEF OnlyAt, EnsureCurrent, GoTo, Conclude, ControlInv, database, history
<1>4. LocalInv(p)'
  BY <1>1 DEF EnsureCurrent, GoTo, Conclude, LocalInv, ControlInv, database, history
<1> QED BY <1>2, <1>3, <1>4, ControlStep DEF EnsureCurrent, database, history

LEMMA ControlCreateMigrationsTable == ASSUME ControlInv, NEW p \in inUse, CreateMigrationsTable(p) PROVE ControlInv'
<1>1. p \in Programs /\ DatabaseInv /\ LocalInv(p)
  BY DEF ControlInv, DatabaseInv
<1>2. DatabaseInv'
  BY <1>1 DEF DatabaseInv, LocalInv, CreateMigrationsTable, database, history
<1>3. OnlyAt(p)
  BY <1>1 DEF OnlyAt, CreateMigrationsTable, GoTo, Conclude, ControlInv, database, history
<1>4. LocalInv(p)'
  BY <1>1 DEF CreateMigrationsTable, GoTo, Conclude, LocalInv, ControlInv, database, history
<1> QED BY <1>2, <1>3, <1>4, ControlStep DEF CreateMigrationsTable, database, history

LEMMA ControlClearMigrationsTable == ASSUME ControlInv, NEW p \in inUse, ClearMigrationsTable(p) PROVE ControlInv'
<1>1. p \in Programs /\ DatabaseInv /\ LocalInv(p)
  BY DEF ControlInv, DatabaseInv
<1>5. \E n \in DOMAIN Tables : HasTable(CurrentSchema(p), Tables[n])
  BY <1>1, SomeTable
<1>2. DatabaseInv'
  BY <1>1, <1>5 DEF DatabaseInv, LocalInv, ClearMigrationsTable, database, history
<1>3. OnlyAt(p)
  BY <1>1 DEF OnlyAt, ClearMigrationsTable, GoTo, Conclude, ControlInv, database, history
<1>4. LocalInv(p)'
  BY <1>1, <1>5 DEF ClearMigrationsTable, GoTo, Conclude, LocalInv, ControlInv, database, history
<1> QED BY <1>2, <1>3, <1>4, ControlStep DEF ClearMigrationsTable, database, history

LEMMA ControlCreateTable == ASSUME ControlInv, NEW p \in inUse, CreateTable(p) PROVE ControlInv'
<1>1. p \in Programs /\ DatabaseInv /\ LocalInv(p)
  BY DEF ControlInv, DatabaseInv
<1>5. /\ tables[p] # {} /\ tables[p] \subseteq DOMAIN Tables /\ Min(tables[p]) \in tables[p]
      /\ CurrentSchema(p) \subseteq AllColumns
  BY <1>1, Operands, SomeTable DEF CreateTable, LocalInv
<1>2. DatabaseInv'
  BY <1>1, <1>5 DEF DatabaseInv, LocalInv, CreateTable, database, history
<1>3. OnlyAt(p)
  BY <1>1 DEF OnlyAt, CreateTable, GoTo, Conclude, ControlInv, database, history
<1>4. LocalInv(p)'
  BY <1>1, <1>5 DEF CreateTable, GoTo, Conclude, LocalInv, ControlInv, database, history
<1> QED BY <1>2, <1>3, <1>4, ControlStep DEF CreateTable, database, history

LEMMA ControlAssumeMigrated == ASSUME ControlInv, NEW p \in inUse, AssumeMigrated(p) PROVE ControlInv'
<1>1. p \in Programs /\ DatabaseInv /\ LocalInv(p)
  BY DEF ControlInv, DatabaseInv
<1>5. SchemaVersions[p] \subseteq Versions
  BY <1>1, ReleasesAre
<1>2. DatabaseInv'
  BY <1>1, <1>5 DEF DatabaseInv, LocalInv, AssumeMigrated, database, history
<1>3. OnlyAt(p)
  BY <1>1 DEF OnlyAt, AssumeMigrated, GoTo, Conclude, ControlInv, database, history
<1>4. LocalInv(p)'
  BY <1>1, <1>5 DEF AssumeMigrated, GoTo, Conclude, LocalInv, ControlInv, database, history
<1> QED BY <1>2, <1>3, <1>4, ControlStep DEF AssumeMigrated, database, history

LEMMA ControlPendingMigrations == ASSUME ControlInv, NEW p \in inUse, PendingMigrations(p) PROVE ControlInv'
<1>1. p \in Programs /\ DatabaseInv /\ LocalInv(p)
  BY DEF ControlInv, DatabaseInv
<1>5. /\ Pending(p) \in SUBSET Versions
      /\ Pending(p) # {} => Min(Pending(p)) \in Pending(p)
      /\ \A v \in Versions : 1 \in DOMAIN Steps[v]
  BY <1>1, Operands, StepsShape
<1>2. DatabaseInv'
  BY <1>1, <1>5 DEF DatabaseInv, LocalInv, PendingMigrations, database, history
<1>3. OnlyAt(p)
  BY <1>1 DEF OnlyAt, PendingMigrations, GoTo, Conclude, ControlInv, database, history
<1>4. LocalInv(p)'
  BY <1>1, <1>5 DEF PendingMigrations, GoTo, Conclude, LocalInv, ControlInv, database, history
<1> QED BY <1>2, <1>3, <1>4, ControlStep DEF PendingMigrations, database, history

LEMMA ControlAddMigrationsTable == ASSUME ControlInv, NEW p \in inUse, AddMigrationsTable(p) PROVE ControlInv'
<1>1. p \in Programs /\ DatabaseInv /\ LocalInv(p)
  BY DEF ControlInv, DatabaseInv
<1>2. DatabaseInv'
  BY <1>1 DEF DatabaseInv, LocalInv, AddMigrationsTable, database, history
<1>3. OnlyAt(p)
  BY <1>1 DEF OnlyAt, AddMigrationsTable, GoTo, Conclude, ControlInv, database, history
<1>4. LocalInv(p)'
  BY <1>1 DEF AddMigrationsTable, GoTo, Conclude, LocalInv, ControlInv, database, history
<1> QED BY <1>2, <1>3, <1>4, ControlStep DEF AddMigrationsTable, database, history

LEMMA ControlAddMigration == ASSUME ControlInv, NEW p \in inUse, AddMigration(p) PROVE ControlInv'
<1>1. p \in Programs /\ DatabaseInv /\ LocalInv(p)
  BY DEF ControlInv, DatabaseInv
<1>5. /\ todo[p] # {} /\ Min(todo[p]) \in todo[p] /\ Min(todo[p]) \in Versions
      /\ \A v \in Versions : 1 \in DOMAIN Steps[v]
  BY <1>1, Operands, StepsShape DEF AddMigration, LocalInv
<1>6. todo[p] \ {Min(todo[p])} # {} =>
        Min(todo[p] \ {Min(todo[p])}) \in todo[p] \ {Min(todo[p])}
  <2>1. todo[p] \ {Min(todo[p])} \subseteq Nat
    BY <1>1, MigratorAssumption DEF LocalInv
  <2> QED BY <2>1, MinIs
<1>2. DatabaseInv'
  BY <1>1, <1>5, <1>6 DEF DatabaseInv, LocalInv, AddMigration, database, history
<1>3. OnlyAt(p)
  BY <1>1 DEF OnlyAt, AddMigration, GoTo, Conclude, ControlInv, database, history
<1>4. LocalInv(p)'
  BY <1>1, <1>5, <1>6 DEF AddMigration, GoTo, Conclude, LocalInv, ControlInv, database, history
<1> QED BY <1>2, <1>3, <1>4, ControlStep DEF AddMigration, database, history

LEMMA ControlRemoveMigration == ASSUME ControlInv, NEW p \in inUse, RemoveMigration(p) PROVE ControlInv'
<1>1. p \in Programs /\ DatabaseInv /\ LocalInv(p)
  BY DEF ControlInv, DatabaseInv
<1>2. DatabaseInv'
  BY <1>1 DEF DatabaseInv, LocalInv, RemoveMigration, database, history
<1>3. OnlyAt(p)
  BY <1>1 DEF OnlyAt, RemoveMigration, GoTo, Conclude, ControlInv, database, history
<1>4. LocalInv(p)'
  BY <1>1 DEF RemoveMigration, GoTo, Conclude, LocalInv, ControlInv, database, history
<1> QED BY <1>2, <1>3, <1>4, ControlStep DEF RemoveMigration, database, history

LEMMA ControlInterrupt == ASSUME ControlInv, NEW p \in inUse, Interrupt(p) PROVE ControlInv'
<1>1. p \in Programs /\ DatabaseInv /\ LocalInv(p)
  BY DEF ControlInv, DatabaseInv
<1>2. DatabaseInv'
  BY <1>1, MigratorAssumption DEF DatabaseInv, LocalInv, Interrupt, database, history
<1>3. OnlyAt(p)
  BY <1>1 DEF OnlyAt, Interrupt, GoTo, Conclude, ControlInv, database, history
<1>4. LocalInv(p)'
  BY <1>1 DEF Interrupt, GoTo, Conclude, LocalInv, ControlInv, database, history
<1> QED BY <1>2, <1>3, <1>4, ControlStep DEF Interrupt, database, history

LEMMA ControlDisconnectInterface == ASSUME ControlInv, NEW p \in inUse, DisconnectInterface(p) PROVE ControlInv'
<1>1. p \in Programs /\ DatabaseInv /\ LocalInv(p)
  BY DEF ControlInv, DatabaseInv
<1>2. DatabaseInv'
  BY <1>1 DEF DatabaseInv, LocalInv, DisconnectInterface, database, history
<1>3. OnlyAt(p)
  BY <1>1 DEF OnlyAt, DisconnectInterface, GoTo, Conclude, ControlInv, database, history
<1>4. LocalInv(p)'
  BY <1>1 DEF DisconnectInterface, GoTo, Conclude, LocalInv, ControlInv, database, history
<1> QED BY <1>2, <1>3, <1>4, ControlStep DEF DisconnectInterface, database, history

LEMMA ControlRunCommand ==
  ASSUME ControlInv, NEW p \in inUse, NEW where \in {"create", "pending", "up", "down"},
         NEW versions \in SUBSET Versions, NEW first \in Nat,
         RunCommand(p, where, versions, first),
         where \in {"up", "down"} =>
           versions # {} /\ first \in DOMAIN Steps[Min(versions)]
  PROVE  ControlInv'
<1>1. p \in Programs /\ DatabaseInv /\ LocalInv(p)
  BY DEF ControlInv, DatabaseInv
<1>2. DatabaseInv'
  BY <1>1 DEF DatabaseInv, RunCommand, database
<1>3. OnlyAt(p)
  BY <1>1 DEF OnlyAt, RunCommand, GoTo, ControlInv
<1>4. LocalInv(p)'
  BY <1>1 DEF RunCommand, GoTo, LocalInv, ControlInv, database
<1> QED BY <1>2, <1>3, <1>4, ControlStep DEF RunCommand, database

LEMMA MinOfOne == ASSUME NEW n \in Nat PROVE Min({n}) = n
<1>1. Min({n}) \in {n}
  BY MinIs
<1> QED BY <1>1

LEMMA ControlCommand == ASSUME ControlInv, NEW p \in inUse, Command(p) PROVE ControlInv'
<1>1. p \in Programs
  BY DEF ControlInv, DatabaseInv
<1>2. CASE RunCommand(p, "create", {}, 1)
  BY <1>2, ControlRunCommand
<1>3. CASE RunCommand(p, "pending", {}, 1)
  BY <1>3, ControlRunCommand
<1>4. CASE Pending(p) # {} /\ RunCommand(p, "up", {Min(Pending(p))}, 1)
  <2>1. Min(Pending(p)) \in Versions
    BY <1>1, <1>4, Operands
  <2>2. Min({Min(Pending(p))}) = Min(Pending(p)) /\ 1 \in DOMAIN Steps[Min(Pending(p))]
    BY <2>1, StepsShape, MinOfOne
  <2> QED BY <1>4, <2>1, <2>2, ControlRunCommand
<1>5. CASE recorded # {} /\ RunCommand(p, "down", {Max(recorded)}, Len(Steps[Max(recorded)]))
  <2>1. Max(recorded) \in Versions
    BY <1>1, <1>5, Operands
  <2>2. /\ Min({Max(recorded)}) = Max(recorded)
        /\ Len(Steps[Max(recorded)]) \in DOMAIN Steps[Max(recorded)]
        /\ Len(Steps[Max(recorded)]) \in Nat
    BY <2>1, StepsShape, MinOfOne
  <2> QED BY <1>5, <2>1, <2>2, ControlRunCommand
<1> QED BY <1>2, <1>3, <1>4, <1>5 DEF Command

LEMMA ControlInitial == ASSUME MigratorInit PROVE ControlInv
<1>1. DatabaseInv
  <2>1. \A V : SchemaOf(V) \subseteq AllColumns
    BY AfterIsSchema DEF SchemaOf
  <2>2. /\ columns \subseteq AllColumns /\ recorded \subseteq Versions
        /\ exists \in BOOLEAN /\ table \in BOOLEAN
        /\ recorded # {} => table
        /\ columns # {} \/ table => exists
    BY <2>1, MigratorAssumption DEF MigratorInit
  <2>3. inUse \subseteq Programs /\ interrupts = 0 /\ forced = FALSE /\ 0 \in 0 .. MaxInterrupts
    BY MigratorAssumption DEF MigratorInit
  <2>4. origin \in {"regular", "old", "mistaken"}
    BY DEF MigratorInit
  <2> QED BY <2>2, <2>3, <2>4 DEF DatabaseInv
<1>2. \A p \in Programs : LocalInv(p)
  BY DEF MigratorInit, LocalInv
<1> QED BY <1>1, <1>2 DEF MigratorInit, ControlInv

LEMMA ControlNext == ASSUME ControlInv, [MigratorNext]_migratorVars PROVE ControlInv'
<1>1. CASE UNCHANGED migratorVars
  BY <1>1 DEF ControlInv, DatabaseInv, LocalInv, migratorVars
<1>2. ASSUME NEW p \in inUse, Work(p) PROVE ControlInv'
  BY <1>2, ControlCreateDatabase, ControlShowTables, ControlCurrentVersion,
     ControlEnsureCurrent, ControlCreateMigrationsTable, ControlClearMigrationsTable,
     ControlCreateTable, ControlAssumeMigrated, ControlPendingMigrations, ControlUp,
     ControlAddMigrationsTable, ControlAddMigration, ControlDown, ControlRemoveMigration
     DEF Work
<1> QED BY <1>1, <1>2, ControlConnect, ControlCommand, ControlInterrupt,
        ControlDisconnectInterface DEF MigratorNext

(* Every statement has its operand, what is recorded is recorded somewhere. *)
THEOREM MigratorTypeCorrect == MigratorSpec => []MigratorTypeOK
<1>1. MigratorInit => ControlInv
  BY ControlInitial
<1>2. ControlInv /\ [MigratorNext]_migratorVars => ControlInv'
  BY ControlNext
<1>3. ControlInv => MigratorTypeOK
  BY ControlTypes
<1> QED BY <1>1, <1>2, <1>3, PTL DEF MigratorSpec

-----------------------------------------------------------------------------
(* One program that nobody interrupted: the schema is exactly known *)

LEMMA SchemaOfNone == SchemaOf({}) = {}
BY DEF SchemaOf, After, StatementsOf

PrefixClosed(V) == \A v \in V, w \in Versions : w < v => w \in V

LEMMA SchemaOfSome ==
  ASSUME NEW V \in SUBSET Versions, V # {}, PrefixClosed(V)
  PROVE  SchemaOf(V) # {}
<1>1. PICK v \in V : TRUE
  OBVIOUS
<1>2. /\ Min(Versions) \in Versions /\ Min(Versions) <= v /\ Versions \subseteq Nat
      /\ \A S : Applied(S, Min(Versions)) => S # {}
  BY <1>1, InitialIs, MigratorAssumption
<1>3. Min(Versions) \in V
  <2>1. Min(Versions) \in Nat /\ v \in Nat
    BY <1>1, <1>2
  <2>2. Min(Versions) = v \/ Min(Versions) < v
    BY <1>2, <2>1
  <2> QED BY <1>1, <1>2, <2>2 DEF PrefixClosed
<1> QED BY <1>2, <1>3, SchemaApplies

\* the migrations recorded are those before the next one to run
LEMMA Below ==
  ASSUME NEW R \in SUBSET Versions, NEW T \in SUBSET Versions, T # {}, T \cap R = {},
         PrefixClosed(R), \A x \in T : \A w \in Versions \ T : w < x => w \in R
  PROVE  /\ R = {w \in Versions : w < Min(T)}
         /\ R \cup {Min(T)} = {w \in Versions : w <= Min(T)}
         /\ PrefixClosed(R \cup {Min(T)})
<1>1. /\ Min(T) \in T /\ Min(T) \in Nat /\ Versions \subseteq Nat
      /\ \A x \in T : Min(T) <= x
  BY MinIs, MigratorAssumption
<1>2. ASSUME NEW w \in Versions, w < Min(T) PROVE w \in R
  <2>1. w \notin T
    BY <1>1, <1>2
  <2> QED BY <1>1, <1>2, <2>1
<1>3. ASSUME NEW w \in R PROVE w < Min(T)
  <2>1. w # Min(T) /\ ~(Min(T) < w)
    BY <1>1 DEF PrefixClosed
  <2> QED BY <1>1, <2>1
<1>4. R = {w \in Versions : w < Min(T)}
  BY <1>2, <1>3
<1>5. \A w \in Versions : w <= Min(T) <=> w < Min(T) \/ w = Min(T)
  BY <1>1
<1>6. R \cup {Min(T)} = {w \in Versions : w <= Min(T)}
  BY <1>1, <1>4, <1>5
<1>7. PrefixClosed(R \cup {Min(T)})
  BY <1>1, <1>4 DEF PrefixClosed
<1> QED BY <1>4, <1>6, <1>7

LEMMA UpToGreatest ==
  ASSUME NEW R \in SUBSET Versions, NEW v \in R, PrefixClosed(R), \A w \in R : w <= v
  PROVE  /\ R = {w \in Versions : w <= v} /\ R \ {v} = {w \in Versions : w < v}
         /\ PrefixClosed(R \ {v})
<1>1. Versions \subseteq Nat
  BY MigratorAssumption
<1>2. ASSUME NEW w \in Versions
      PROVE  (w \in R <=> w <= v) /\ (w \in R \ {v} <=> w < v)
  <2>1. w \in Nat /\ v \in Nat
    BY <1>1
  <2>2. w < v => w \in R
    BY DEF PrefixClosed
  <2> QED BY <2>1, <2>2
<1>3. R = {w \in Versions : w <= v} /\ R \ {v} = {w \in Versions : w < v}
  BY <1>2
<1>4. ASSUME NEW x \in R \ {v}, NEW w \in Versions, w < x PROVE w \in R \ {v}
  <2>1. w \in Nat /\ v \in Nat /\ x \in Nat
    BY <1>1
  <2> QED BY <1>2, <1>4, <2>1
<1> QED BY <1>3, <1>4 DEF PrefixClosed

LEMMA ExactConnect ==
  ASSUME ControlInv, NEW p \in inUse, ExactInv(p), Connect(p)
  PROVE  ExactInv(p)'
<1>1. p \in Programs /\ DatabaseInv
  BY DEF ControlInv, DatabaseInv
<1>2. ~exists => recorded = {} /\ columns = {}
  BY <1>1 DEF DatabaseInv
<1> QED BY <1>1, <1>2 DEF Connect, GoTo, ExactInv, ControlInv, database, history, Migrating

LEMMA ExactCreateDatabase ==
  ASSUME ControlInv, NEW p \in inUse, ExactInv(p), CreateDatabase(p)
  PROVE  ExactInv(p)'
<1>1. p \in Programs /\ DatabaseInv
  BY DEF ControlInv, DatabaseInv
<1> QED BY <1>1, SchemaOfNone DEF CreateDatabase, GoTo, ExactInv, ControlInv, history, Migrating

LEMMA ExactColumns ==
  ASSUME ControlInv, NEW p \in inUse, ExactInv(p), columns = SchemaOf(recorded)
  PROVE  columns = {} <=> recorded = {}
<1>1. recorded \in SUBSET Versions /\ PrefixClosed(recorded)
  BY DEF ControlInv, DatabaseInv, ExactInv, PrefixClosed
<1> QED BY <1>1, SchemaOfNone, SchemaOfSome

LEMMA ExactShowTables ==
  ASSUME ControlInv, NEW p \in inUse, ExactInv(p), ShowTables(p)
  PROVE  ExactInv(p)'
<1>1. p \in Programs /\ DatabaseInv
  BY DEF ControlInv, DatabaseInv
<1>2. columns = SchemaOf(recorded) /\ (columns = {} <=> recorded = {})
  BY ExactColumns DEF ExactInv, ShowTables
<1>3. recorded # {} => table
  BY <1>1 DEF DatabaseInv
<1> QED BY <1>1, <1>2, <1>3
        DEF ShowTables, GoTo, ExactInv, ControlInv, database, history, Migrating

LEMMA ExactCurrentVersion ==
  ASSUME ControlInv, NEW p \in inUse, ExactInv(p), CurrentVersion(p)
  PROVE  ExactInv(p)'
<1>1. p \in Programs /\ DatabaseInv
  BY DEF ControlInv, DatabaseInv
<1>2. columns = SchemaOf(recorded) /\ (columns = {} <=> recorded = {})
  BY ExactColumns DEF ExactInv, CurrentVersion
<1>3. recorded # {} /\ Max(recorded) = Max(Available[p]) => Available[p] \subseteq recorded
  <2> SUFFICES ASSUME recorded # {}, Max(recorded) = Max(Available[p]), NEW v \in Available[p]
               PROVE  v \in recorded
    OBVIOUS
  <2>1. Available[p] \subseteq Versions /\ Versions \subseteq Nat /\ IsFiniteSet(Versions)
    BY <1>1, ReleasesAre, MigratorAssumption
  <2>2. IsFiniteSet(Available[p])
    BY <2>1, FS_Subset
  <2>3. v <= Max(recorded)
    BY <2>1, <2>2, MaxIs
  <2>4. Max(recorded) \in recorded /\ Max(recorded) \in Versions
    BY <1>1, Operands
  <2>5. v = Max(recorded) \/ v < Max(recorded)
    <3>1. v \in Nat /\ Max(recorded) \in Nat
      BY <2>1, <2>4
    <3> QED BY <2>3, <3>1
  <2> QED BY <2>1, <2>4, <2>5 DEF ExactInv
<1> QED BY <1>1, <1>2, <1>3
        DEF CurrentVersion, GoTo, ExactInv, ControlInv, database, history, Migrating

LEMMA ExactEnsureCurrent ==
  ASSUME ControlInv, NEW p \in inUse, ExactInv(p), EnsureCurrent(p)
  PROVE  ExactInv(p)'
<1>1. p \in Programs /\ DatabaseInv
  BY DEF ControlInv, DatabaseInv
<1>2. Pending(p) = {} => Available[p] \subseteq recorded
  BY DEF Pending
<1> QED BY <1>1, <1>2
        DEF EnsureCurrent, GoTo, ExactInv, ControlInv, database, history, Migrating

LEMMA ExactCreateMigrationsTable ==
  ASSUME ControlInv, NEW p \in inUse, ExactInv(p), CreateMigrationsTable(p)
  PROVE  ExactInv(p)'
<1>1. p \in Programs
  BY DEF ControlInv, DatabaseInv
<1> QED BY <1>1 DEF CreateMigrationsTable, GoTo, ExactInv, ControlInv, history, Migrating

LEMMA ExactClearMigrationsTable ==
  ASSUME ControlInv, NEW p \in inUse, ExactInv(p), ClearMigrationsTable(p)
  PROVE  ExactInv(p)'
<1>1. p \in Programs /\ columns = {} /\ recorded = {}
  BY DEF ControlInv, DatabaseInv, ExactInv, ClearMigrationsTable
<1>2. tables'[p] = {n \in DOMAIN Tables : HasTable(CurrentSchema(p), Tables[n])}
  BY <1>1 DEF ClearMigrationsTable, ControlInv
<1>3. \A c \in CurrentSchema(p) : \E n \in tables'[p] : Tables[n] = TableOf(c)
  BY <1>1, <1>2, TablesAssumption DEF HasTable
<1>4. {} = {c \in CurrentSchema(p) : \A n \in tables'[p] : Tables[n] # TableOf(c)}
  BY <1>3
<1> QED BY <1>1, <1>4
        DEF ClearMigrationsTable, GoTo, ExactInv, ControlInv, history, Migrating, CurrentSchema

LEMMA ExactCreateTable ==
  ASSUME ControlInv, NEW p \in inUse, ExactInv(p), CreateTable(p)
  PROVE  ExactInv(p)'
<1> DEFINE n == Min(tables[p])
<1>1. p \in Programs /\ LocalInv(p)
  BY DEF ControlInv, DatabaseInv
<1>2. n \in tables[p] /\ tables[p] \subseteq DOMAIN Tables
  BY <1>1, Operands DEF LocalInv, CreateTable
<1>3. columns = {c \in CurrentSchema(p) : \A m \in tables[p] : Tables[m] # TableOf(c)}
  BY DEF ExactInv, CreateTable
<1>4. ~HasTable(columns, Tables[n])
  BY <1>2, <1>3 DEF HasTable
<1>5. columns' = columns \cup {c \in CurrentSchema(p) : TableOf(c) = Tables[n]}
  BY <1>4 DEF CreateTable
<1>6. tables'[p] = tables[p] \ {n}
  BY <1>1 DEF CreateTable, ControlInv
<1>7. \A m \in tables[p] \ {n} : Tables[m] # Tables[n]
  BY <1>2, TablesAssumption
<1> HIDE DEF n
<1>8. columns' = {c \in CurrentSchema(p) : \A m \in tables'[p] : Tables[m] # TableOf(c)}
  BY <1>2, <1>3, <1>5, <1>6, <1>7
<1>9. tables[p] = {n} => columns' = CurrentSchema(p)
  BY <1>6, <1>8
<1>10. doing'[p] = IF tables[p] = {n} THEN "assume" ELSE "load"
  BY <1>1 DEF CreateTable, GoTo, ControlInv, n
<1> QED BY <1>1, <1>8, <1>9, <1>10
        DEF CreateTable, ExactInv, history, Migrating, CurrentSchema

LEMMA ExactAssumeMigrated ==
  ASSUME ControlInv, NEW p \in inUse, ExactInv(p), AssumeMigrated(p)
  PROVE  ExactInv(p)'
<1>1. p \in Programs /\ recorded = {} /\ columns = CurrentSchema(p)
  BY DEF ControlInv, DatabaseInv, ExactInv, AssumeMigrated
<1>2. \A v \in SchemaVersions[p], w \in Versions : w < v => w \in SchemaVersions[p]
  BY <1>1, ReleasesAre
<1>3. recorded' = SchemaVersions[p] /\ columns' = SchemaOf(recorded')
  BY <1>1 DEF AssumeMigrated, CurrentSchema
<1>4. doing'[p] \in {"off", "ensure"}
  BY <1>1 DEF AssumeMigrated, GoTo, Conclude, ControlInv
<1> QED BY <1>2, <1>3, <1>4 DEF AssumeMigrated, ExactInv, history, Migrating

LEMMA ExactPendingMigrations ==
  ASSUME ControlInv, NEW p \in inUse, ExactInv(p), PendingMigrations(p)
  PROVE  ExactInv(p)'
<1>1. /\ p \in Programs /\ columns = SchemaOf(recorded) /\ recorded \in SUBSET Versions
      /\ PrefixClosed(recorded)
  BY DEF ControlInv, DatabaseInv, ExactInv, PendingMigrations, PrefixClosed
<1>2. todo'[p] = Pending(p) /\ step'[p] = 1
  BY <1>1 DEF PendingMigrations, ControlInv
<1>3. CASE Pending(p) = {}
  <2>1. doing'[p] \in {"off", "ensure"}
    BY <1>1, <1>3 DEF PendingMigrations, GoTo, Conclude, ControlInv
  <2> QED BY <1>1, <2>1 DEF PendingMigrations, ExactInv, database, history, Migrating
<1>4. CASE Pending(p) # {}
  <2>1. doing'[p] = "up"
    BY <1>1, <1>4 DEF PendingMigrations, GoTo, ControlInv
  <2>2. \A x \in Pending(p) : \A w \in Versions \ Pending(p) : w < x => w \in recorded
    BY <1>1, ReleasesAre DEF Pending
  <2>3. Pending(p) \in SUBSET Versions /\ Pending(p) \cap recorded = {}
        /\ Min(Pending(p)) \in Versions
    BY <1>1, <1>4, Operands DEF Pending
  <2>4. recorded = {w \in Versions : w < Min(Pending(p))}
    BY <1>1, <1>4, <2>2, <2>3, Below
  <2>5. columns = After(Earlier(<<Min(Pending(p)), 1>>))
    BY <1>1, <2>3, <2>4, FirstStatement DEF SchemaOf
  <2>6. mode[p] # "cli" => recorded # {}
    BY DEF ExactInv, PendingMigrations
  <2> QED BY <1>1, <1>2, <2>1, <2>2, <2>3, <2>5, <2>6
          DEF PendingMigrations, ExactInv, database, history, Migrating
<1> QED BY <1>3, <1>4

LEMMA ExactUp ==
  ASSUME ControlInv, NEW p \in inUse, ExactInv(p), Up(p)
  PROVE  ExactInv(p)'
<1> DEFINE v == Min(todo[p])
           a == <<v, step[p]>>
<1>1. /\ p \in Programs /\ recorded \in SUBSET Versions /\ todo[p] \in SUBSET Versions
      /\ todo[p] # {} /\ doing[p] = "up"
  BY DEF ControlInv, DatabaseInv, LocalInv, Up
<1>2. /\ a \in StatementsOf(Versions) /\ Statement(a) = Steps[v][step[p]]
      /\ step[p] \in DOMAIN Steps[v] /\ v \in Versions
  BY <1>1, StatementAt
<1>3. columns = After(Earlier(a))
  BY <1>1 DEF ExactInv
<1>4. ~Fails(columns, Statement(a))
  BY <1>2, <1>3, StepsAssumption DEF Earlier
<1>5. columns' = After(UpTo(a))
  <2>1. columns' = Alter(columns, Statement(a))
    BY <1>2, <1>4 DEF Up, Run
  <2> HIDE DEF a
  <2> QED BY <2>1, <1>2, <1>3, AlterAfter
<1>6. /\ todo[p] \cap recorded = {} /\ PrefixClosed(recorded)
      /\ \A x \in todo[p] : \A w \in Versions \ todo[p] : w < x => w \in recorded
  BY <1>1 DEF ExactInv, Migrating, PrefixClosed
<1>7. recorded \cup {v} = {w \in Versions : w <= v}
  BY <1>1, <1>6, Below
<1>8. CASE step[p] = Len(Steps[v])
  <2>1. doing'[p] = "table" /\ UNCHANGED step
    BY <1>1, <1>2, <1>4, <1>8 DEF Up, Run, GoTo, ControlInv
  <2>2. columns' = SchemaOf(recorded \cup {v})
    BY <1>2, <1>5, <1>7, <1>8, LastStatement DEF SchemaOf
  <2> QED BY <1>1, <2>1, <2>2 DEF Up, Run, ExactInv, history, Migrating
<1>9. CASE step[p] # Len(Steps[v])
  <2>1. doing' = doing /\ step'[p] = step[p] + 1
    BY <1>1, <1>2, <1>4, <1>9 DEF Up, Run, ControlInv
  <2>2. Earlier(<<v, step[p] + 1>>) = UpTo(a)
    BY <1>2, <1>9, NextStatement
  <2>3. columns' = After(Earlier(<<v, step'[p]>>))
    BY <1>5, <2>1, <2>2
  <2> QED BY <1>1, <2>1, <2>3 DEF Up, Run, ExactInv, history, Migrating
<1> QED BY <1>8, <1>9

LEMMA ExactAddMigrationsTable ==
  ASSUME ControlInv, NEW p \in inUse, ExactInv(p), AddMigrationsTable(p)
  PROVE  ExactInv(p)'
<1>1. p \in Programs
  BY DEF ControlInv, DatabaseInv
<1> QED BY <1>1 DEF AddMigrationsTable, GoTo, ExactInv, ControlInv, history, Migrating

\* also for the first migration of an old database, see OldAddMigration
LEMMA ExactAdded ==
  ASSUME ControlInv, NEW p \in inUse, AddMigration(p),
         inUse = {p}, interrupts = 0, PrefixClosed(recorded), todo[p] \cap recorded = {},
         \A x \in todo[p] : \A w \in Versions \ todo[p] : w < x => w \in recorded,
         columns = SchemaOf(recorded \cup {Min(todo[p])})
  PROVE  ExactInv(p)'
<1> DEFINE v == Min(todo[p])
           T == todo[p] \ {v}
<1>1. /\ p \in Programs /\ recorded \in SUBSET Versions /\ todo[p] \in SUBSET Versions
      /\ todo[p] # {} /\ doing[p] = "insert" /\ v \in todo[p]
  BY Operands DEF ControlInv, DatabaseInv, LocalInv, AddMigration
<1>2. recorded' = recorded \cup {v} /\ columns' = columns /\ todo'[p] = T /\ step'[p] = 1
  BY <1>1 DEF AddMigration, ControlInv
<1>3. /\ todo[p] \cap recorded = {} /\ PrefixClosed(recorded)
      /\ \A x \in todo[p] : \A w \in Versions \ todo[p] : w < x => w \in recorded
      /\ columns = SchemaOf(recorded \cup {v})
  OBVIOUS
<1>4. PrefixClosed(recorded \cup {v})
  BY <1>1, <1>3, Below
<1>5. CASE T = {}
  <2>1. doing'[p] \in {"off", "ensure"}
    BY <1>1, <1>5 DEF AddMigration, GoTo, Conclude, ControlInv
  <2> QED BY <1>2, <1>3, <1>4, <2>1
          DEF AddMigration, ExactInv, history, Migrating, PrefixClosed
<1>6. CASE T # {}
  <2>1. doing'[p] = "up"
    BY <1>1, <1>6 DEF AddMigration, GoTo, ControlInv
  <2>2. /\ T \cap (recorded \cup {v}) = {} /\ T \in SUBSET Versions
        /\ recorded \cup {v} \in SUBSET Versions
        /\ \A x \in T : \A w \in Versions \ T : w < x => w \in recorded \cup {v}
    BY <1>1, <1>3
  <2>3. recorded \cup {v} = {w \in Versions : w < Min(T)} /\ Min(T) \in Versions
    <3> HIDE DEF T, v
    <3>1. Min(T) \in T
      BY <1>6, <2>2, MinIs, MigratorAssumption
    <3> QED BY <1>4, <1>6, <2>2, <3>1, Below
  <2>4. columns' = After(Earlier(<<Min(T), 1>>))
    <3> HIDE DEF T, v
    <3> QED BY <1>2, <1>3, <2>3, FirstStatement DEF SchemaOf
  <2> HIDE DEF T, v
  <2> QED BY <1>2, <1>4, <2>1, <2>2, <2>4
          DEF AddMigration, ExactInv, history, Migrating, PrefixClosed
<1> QED BY <1>5, <1>6

LEMMA ExactAddMigration ==
  ASSUME ControlInv, NEW p \in inUse, ExactInv(p), AddMigration(p)
  PROVE  ExactInv(p)'
<1>1. doing[p] = "insert"
  BY DEF AddMigration
<1>2. /\ inUse = {p} /\ interrupts = 0
      /\ todo[p] \cap recorded = {} /\ PrefixClosed(recorded)
      /\ \A x \in todo[p] : \A w \in Versions \ todo[p] : w < x => w \in recorded
      /\ columns = SchemaOf(recorded \cup {Min(todo[p])})
  BY <1>1 DEF ExactInv, Migrating, PrefixClosed
<1> QED BY <1>2, ExactAdded

LEMMA ExactDown ==
  ASSUME ControlInv, NEW p \in inUse, ExactInv(p), Down(p)
  PROVE  ExactInv(p)'
<1> DEFINE v == Min(todo[p])
           a == <<v, step[p]>>
<1>1. /\ p \in Programs /\ recorded \in SUBSET Versions /\ todo[p] \in SUBSET Versions
      /\ todo[p] # {} /\ doing[p] = "down" /\ mode[p] = "cli"
  BY DEF ControlInv, DatabaseInv, LocalInv, Down
<1>2. /\ a \in StatementsOf(Versions) /\ Statement(a) = Steps[v][step[p]]
      /\ step[p] \in DOMAIN Steps[v] /\ v \in Versions
  BY <1>1, StatementAt
<1>3. columns = After(UpTo(a)) /\ "db:down" \in Commands
  BY <1>1 DEF ExactInv
<1>4. /\ ~Fails(After(UpTo(a)), Reversed(Statement(a)))
      /\ Alter(After(UpTo(a)), Reversed(Statement(a))) = After(Earlier(a))
  <2> HIDE DEF a
  <2> QED BY <1>2, <1>3, DownAssumption DEF Earlier, UpTo
<1>5. columns' = After(Earlier(a)) /\ ~Fails(columns, Reversed(Steps[v][step[p]]))
  BY <1>2, <1>3, <1>4 DEF Down, Run
<1>6. /\ todo[p] = {v} /\ v \in recorded /\ PrefixClosed(recorded)
      /\ \A w \in recorded : w <= v
  BY <1>1 DEF ExactInv, PrefixClosed
<1>7. recorded \ {v} = {w \in Versions : w < v}
  BY <1>1, <1>6, UpToGreatest
<1>8. CASE step[p] = 1
  <2>1. doing'[p] = "remove" /\ UNCHANGED step
    BY <1>1, <1>2, <1>5, <1>8 DEF Down, Run, GoTo, ControlInv
  <2>2. columns' = SchemaOf(recorded \ todo[p])
    BY <1>2, <1>5, <1>6, <1>7, <1>8, FirstStatement DEF SchemaOf
  <2> QED BY <1>1, <2>1, <2>2 DEF Down, Run, ExactInv, history, Migrating
<1>9. CASE step[p] # 1
  <2>1. doing' = doing /\ step'[p] = step[p] - 1
    BY <1>1, <1>2, <1>5, <1>9 DEF Down, Run, ControlInv
  <2>2. Earlier(a) = UpTo(<<v, step[p] - 1>>)
    <3>1. /\ step[p] - 1 \in DOMAIN Steps[v] /\ step[p] - 1 # Len(Steps[v])
          /\ (step[p] - 1) + 1 = step[p]
      BY <1>2, <1>9, StepsShape
    <3> QED BY <1>2, <3>1, NextStatement
  <2>3. columns' = After(UpTo(<<v, step'[p]>>))
    BY <1>5, <2>1, <2>2
  <2> QED BY <1>1, <2>1, <2>3 DEF Down, Run, ExactInv, history, Migrating
<1> QED BY <1>8, <1>9

LEMMA ExactRemoveMigration ==
  ASSUME ControlInv, NEW p \in inUse, ExactInv(p), RemoveMigration(p)
  PROVE  ExactInv(p)'
<1> DEFINE v == Min(todo[p])
<1>1. p \in Programs /\ recorded \in SUBSET Versions /\ doing[p] = "remove"
  BY DEF ControlInv, DatabaseInv, RemoveMigration
<1>2. /\ todo[p] = {v} /\ v \in recorded /\ PrefixClosed(recorded)
      /\ \A w \in recorded : w <= v
      /\ columns = SchemaOf(recorded \ {v})
  BY <1>1 DEF ExactInv, PrefixClosed
<1>3. PrefixClosed(recorded \ {v})
  BY <1>1, <1>2, UpToGreatest
<1>4. doing'[p] = "off" /\ recorded' = recorded \ {v} /\ columns' = columns
  BY <1>1 DEF RemoveMigration, GoTo, ControlInv
<1> QED BY <1>2, <1>3, <1>4
        DEF RemoveMigration, ExactInv, history, Migrating, PrefixClosed

LEMMA ExactCommand ==
  ASSUME ControlInv, NEW p \in inUse, ExactInv(p), ~forced', Command(p)
  PROVE  ExactInv(p)'
<1>1. /\ p \in Programs /\ recorded \in SUBSET Versions /\ doing[p] = "off"
      /\ PrefixClosed(recorded) /\ columns = SchemaOf(recorded)
  BY DEF ControlInv, DatabaseInv, ExactInv, Command, RunCommand, PrefixClosed
<1>2. columns = {} <=> recorded = {}
  BY <1>1, ExactColumns
<1>3. CASE RunCommand(p, "create", {}, 1)
  <2>1. columns = {} /\ recorded = {} /\ doing'[p] = "create"
    BY <1>1, <1>2, <1>3 DEF RunCommand, GoTo, ControlInv
  <2> QED BY <1>3, <2>1 DEF RunCommand, ExactInv, database, Migrating
<1>4. CASE RunCommand(p, "pending", {}, 1)
  <2>1. doing'[p] = "pending" /\ mode'[p] = "cli"
    BY <1>1, <1>4 DEF RunCommand, GoTo, ControlInv
  <2> QED BY <1>1, <1>4, <2>1 DEF RunCommand, ExactInv, database, Migrating
<1>5. CASE Pending(p) # {} /\ RunCommand(p, "up", {Min(Pending(p))}, 1)
  <2> DEFINE v == Min(Pending(p))
  <2>1. /\ v \in Pending(p) /\ v \in Versions /\ \A w \in Pending(p) : v <= w
        /\ Versions \subseteq Nat
    BY <1>1, <1>5, Operands, MinIs, MigratorAssumption
  <2>2. doing'[p] = "up" /\ mode'[p] = "cli" /\ todo'[p] = {v} /\ step'[p] = 1
    BY <1>1, <1>5 DEF RunCommand, GoTo, ControlInv
  <2>3. {v} \cap recorded = {} /\ \A w \in Versions : w < v => w \in recorded
    <3>1. v \in Available[p] /\ v \notin recorded
      BY <2>1 DEF Pending
    <3>2. ASSUME NEW w \in Versions, w < v PROVE w \in recorded
      <4>1. w \in Available[p]
        BY <1>1, <3>1, <3>2, ReleasesAre
      <4>2. w \notin Pending(p)
        <5>1. v \in Nat /\ w \in Nat
          BY <2>1
        <5> QED BY <2>1, <3>2, <5>1
      <4> QED BY <4>1, <4>2 DEF Pending
    <3> QED BY <3>1, <3>2
  <2> HIDE DEF v
  <2>4. Min({v}) = v
    BY <2>1, MinOfOne
  <2>5. recorded = {w \in Versions : w < v}
    <3>1. /\ {v} \in SUBSET Versions /\ {v} # {}
          /\ \A x \in {v} : \A w \in Versions \ {v} : w < x => w \in recorded
      BY <2>1, <2>3
    <3>2. recorded = {w \in Versions : w < Min({v})}
      BY <1>1, <2>3, <3>1, Below
    <3> QED BY <2>4, <3>2
  <2>6. columns = After(Earlier(<<v, 1>>))
    BY <1>1, <2>1, <2>5, FirstStatement DEF SchemaOf
  <2>7. RunCommand(p, "up", {v}, 1)
    BY <1>5 DEF v
  <2> QED BY <1>1, <2>2, <2>3, <2>4, <2>6, <2>7 DEF RunCommand, ExactInv, database, Migrating
<1>6. CASE /\ "db:down" \in Commands /\ recorded # {}
           /\ RunCommand(p, "down", {Max(recorded)}, Len(Steps[Max(recorded)]))
  <2> DEFINE v == Max(recorded)
  <2>1. v \in recorded /\ v \in Versions /\ \A w \in recorded : w <= v
    BY <1>1, <1>6, Operands
  <2>2. doing'[p] = "down" /\ mode'[p] = "cli" /\ todo'[p] = {v} /\ step'[p] = Len(Steps[v])
    BY <1>1, <1>6 DEF RunCommand, GoTo, ControlInv
  <2> HIDE DEF v
  <2>3. Min({v}) = v
    BY <2>1, MinOfOne, MigratorAssumption
  <2>4. recorded = {w \in Versions : w <= v}
    BY <1>1, <2>1, UpToGreatest
  <2>5. columns = After(UpTo(<<v, Len(Steps[v])>>))
    BY <1>1, <2>1, <2>4, LastStatement DEF SchemaOf
  <2>6. RunCommand(p, "down", {v}, Len(Steps[v])) /\ "db:down" \in Commands
    BY <1>6 DEF v
  <2> QED BY <1>1, <2>1, <2>2, <2>3, <2>5, <2>6
          DEF RunCommand, ExactInv, database, Migrating
<1> QED BY <1>3, <1>4, <1>5, <1>6 DEF Command

LEMMA ExactDisconnectInterface ==
  ASSUME ControlInv, NEW p \in inUse, ExactInv(p), DisconnectInterface(p)
  PROVE  ExactInv(p)'
<1>1. p \in Programs
  BY DEF ControlInv, DatabaseInv
<1> QED BY <1>1 DEF DisconnectInterface, GoTo, ExactInv, ControlInv, database, history, Migrating

LEMMA SchemaIsWhole ==
  ASSUME NEW p \in Programs
  PROVE  /\ Whole({}) /\ Whole(CurrentSchema(p))
         /\ \A T : Whole({c \in CurrentSchema(p) : \A n \in T : Tables[n] # TableOf(c)})
<1>1. \A q \in Programs : CurrentSchema(q) = CurrentSchema(p)
  BY ReleasesAre
<1>2. ASSUME NEW T
      PROVE  Whole({c \in CurrentSchema(p) : \A n \in T : Tables[n] # TableOf(c)})
  <2> DEFINE S == {c \in CurrentSchema(p) : \A n \in T : Tables[n] # TableOf(c)}
  <2>1. ASSUME NEW c \in S, NEW q \in Programs, NEW d \in CurrentSchema(q),
               TableOf(d) = TableOf(c)
        PROVE  Held(S, d)
    BY <1>1, <2>1 DEF Held
  <2> QED BY <2>1 DEF Whole, Complete
<1>3. Whole({})
  BY DEF Whole
<1>4. Whole(CurrentSchema(p))
  BY <1>1 DEF Whole, Complete, Held
<1> QED BY <1>2, <1>3, <1>4

\* where an interruption leaves the database
LEMMA ExactHolds ==
  ASSUME ControlInv, NEW p \in inUse, ExactInv(p), doing[p] \notin {"down", "remove"}
  PROVE  /\ \A v \in recorded, w \in Versions : w <= v => Applied(columns, w)
         /\ mode[p] # "cli" => /\ columns # {} => table
                               /\ recorded = {} => Whole(columns)
<1>1. /\ p \in Programs /\ recorded \in SUBSET Versions /\ todo[p] \in SUBSET Versions
      /\ LocalInv(p) /\ DatabaseInv
  BY DEF ControlInv, DatabaseInv, LocalInv
<1>2. PrefixClosed(recorded)
  BY DEF ExactInv, PrefixClosed
<1>3. ASSUME NEW v \in recorded, NEW w \in Versions, w <= v PROVE w \in recorded
  <2>1. v \in Nat /\ w \in Nat
    BY <1>1, MigratorAssumption
  <2>2. w = v \/ w < v
    BY <1>3, <2>1
  <2> QED BY <2>2, <1>2 DEF PrefixClosed
<1>4. CASE doing[p] \in {"off", "tables", "version", "pending", "ensure", "connected"}
  <2>1. columns = SchemaOf(recorded)
    BY <1>4 DEF ExactInv
  <2>2. \A w \in recorded : Applied(columns, w)
    BY <1>1, <2>1, SchemaApplies
  <2>3. columns = {} <=> recorded = {}
    BY <2>1, ExactColumns
  <2> QED BY <1>1, <1>3, <2>2, <2>3, SchemaIsWhole DEF DatabaseInv
<1>5. CASE doing[p] \in {"createDb", "create", "clear", "load", "assume"}
  <2>1. recorded = {}
    BY <1>5 DEF ExactInv
  <2>2. Whole(columns)
    <3>1. \/ columns = {} \/ columns = CurrentSchema(p)
          \/ columns = {c \in CurrentSchema(p) : \A n \in tables[p] : Tables[n] # TableOf(c)}
      BY <1>5 DEF ExactInv
    <3>2. /\ Whole({}) /\ Whole(CurrentSchema(p))
          /\ Whole({c \in CurrentSchema(p) : \A n \in tables[p] : Tables[n] # TableOf(c)})
      BY <1>1, SchemaIsWhole
    <3> HIDE DEF Whole
    <3> QED BY <3>1, <3>2
  <2>3. columns # {} => table
    BY <1>1, <1>5 DEF LocalInv, ExactInv
  <2> QED BY <2>1, <2>2, <2>3
<1>6. CASE Migrating(p)
  <2> DEFINE v == Min(todo[p])
  <2>1. /\ todo[p] # {} /\ todo[p] \cap recorded = {}
        /\ \A x \in todo[p] : \A w \in Versions \ todo[p] : w < x => w \in recorded
        /\ v \in Versions
    BY <1>1, <1>6, Operands DEF ExactInv, LocalInv, Migrating
  <2>2. recorded = {w \in Versions : w < v}
    BY <1>1, <1>2, <2>1, Below
  <2>3. mode[p] # "cli" => recorded # {} /\ table
    BY <1>1, <1>6 DEF ExactInv, Migrating, DatabaseInv
  <2>4. ASSUME NEW w \in recorded PROVE Applied(columns, w)
    <3>1. CASE doing[p] = "up"
      <4> DEFINE A == Earlier(<<v, step[p]>>)
      <4>1. columns = After(A) /\ A \in SUBSET StatementsOf(Versions)
        BY <3>1 DEF ExactInv, Earlier
      <4>2. \A i \in DOMAIN Steps[w] :
              /\ <<w, i>> \in A /\ Statement(<<w, i>>) = Steps[w][i]
        <5>1. \A i \in DOMAIN Steps[w] :
                <<w, i>> \in StatementsOf(Versions) /\ Statement(<<w, i>>) = Steps[w][i]
          BY <1>1, StatementIs
        <5>2. w < v
          BY <2>2
        <5> QED BY <5>1, <5>2 DEF Earlier, Precedes
      <4> HIDE DEF A
      <4>3. \A i \in DOMAIN Steps[w] :
              Steps[w][i][2] # NoColumn => Held(After(A), Steps[w][i][2])
        BY <4>1, <4>2, AfterHolds
      <4> QED BY <4>1, <4>3 DEF Applied
    <3>2. CASE doing[p] \in {"table", "insert"}
      <4>1. columns = SchemaOf(recorded \cup {v})
        BY <3>2 DEF ExactInv
      <4> QED BY <1>1, <2>1, <4>1, SchemaApplies
    <3> QED BY <1>6, <3>1, <3>2 DEF Migrating
  <2> QED BY <1>3, <2>3, <2>4
<1> QED BY <1>1, <1>4, <1>5, <1>6 DEF LocalInv, Migrating

LEMMA ExactInterrupt ==
  ASSUME ControlInv, NEW p \in inUse, ExactInv(p), ~forced', Interrupt(p)
  PROVE  GeneralInv'
<1>1. p \in Programs /\ inUse = {p} /\ LocalInv(p) /\ DatabaseInv
  BY DEF ControlInv, DatabaseInv, ExactInv
<1>2. mode[p] # "cli" /\ interrupts' > 0
  <2>1. mode[p] # "cli"
    BY DEF Interrupt
  <2>2. interrupts \in Nat /\ interrupts' = interrupts + 1
    BY <1>1, MigratorAssumption DEF Interrupt, DatabaseInv
  <2> QED BY <2>1, <2>2
<1>3. doing[p] \notin {"down", "remove"}
  BY <1>1, <1>2 DEF LocalInv
<1>4. \A q \in Programs : doing'[q] = "off"
  <2>1. \A q \in Programs \ {p} : doing[q] = "off"
    BY <1>1 DEF ControlInv, LocalInv
  <2> QED BY <1>1, <2>1 DEF Interrupt, GoTo, ControlInv
<1>5. ~SomeLoading' /\ ~CliUp' /\ \A q \in Programs : ~Migrating(q)'
  BY <1>4 DEF SomeLoading, Loading, CliUp, Migrating
<1>6. columns' = columns /\ recorded' = recorded /\ table' = table
  BY DEF Interrupt, database
<1>7. /\ \A v \in recorded, w \in Versions : w <= v => Applied(columns, w)
      /\ columns # {} => table
      /\ recorded = {} => Whole(columns)
  BY <1>2, <1>3, ExactHolds
<1> HIDE DEF Applied, Whole, Migrating
<1> QED BY <1>2, <1>4, <1>5, <1>6, <1>7 DEF GeneralInv, GeneralAt

-----------------------------------------------------------------------------
(* Several programs, or interruptions: what is recorded has been applied *)

LEMMA Alone ==
  ASSUME ControlInv, NEW p \in inUse
  PROVE  /\ p \in Programs /\ LocalInv(p) /\ DatabaseInv
         /\ CliUp => mode[p] = "cli" /\ Migrating(p)
         /\ mode[p] = "cli" /\ doing[p] # "off" =>
              /\ \A q \in Programs \ {p} : doing[q] = "off"
              /\ SomeLoading => Loading(p)
<1>1. p \in Programs /\ LocalInv(p) /\ DatabaseInv
  BY DEF ControlInv, DatabaseInv
<1>2. ASSUME NEW q \in Programs, mode[q] = "cli", doing[q] # "off" PROVE q = p
  BY <1>2 DEF ControlInv, LocalInv
<1>3. ASSUME mode[p] = "cli", doing[p] # "off", NEW q \in Programs \ {p} PROVE doing[q] = "off"
  BY <1>1, <1>3 DEF ControlInv, LocalInv
<1> QED BY <1>1, <1>2, <1>3 DEF CliUp, Migrating, SomeLoading, Loading

\* a step of p that takes no column away for good, and begins to load only
\* where nothing is recorded, concerns no other program
LEMMA OthersStay ==
  ASSUME ControlInv, GeneralInv, NEW p \in inUse, OnlyAt(p), inUse' = inUse,
         \A c \in columns : Held(columns', c),
         (recorded' = {} \/ SomeLoading') => recorded = {} \/ SomeLoading \/ Loaded(columns)
  PROVE  \A q \in Programs \ {p} : GeneralAt(q)'
<1> SUFFICES ASSUME NEW q \in Programs \ {p} PROVE GeneralAt(q)'
  OBVIOUS
<1>1. p \in Programs /\ q \in Programs /\ LocalInv(q) /\ GeneralAt(q)
  BY Alone DEF ControlInv, GeneralInv
<1>2. /\ doing'[q] = doing[q] /\ mode'[q] = mode[q] /\ tables'[q] = tables[q]
      /\ todo'[q] = todo[q] /\ step'[q] = step[q] /\ Migrating(q)' = Migrating(q)
  BY <1>1 DEF OnlyAt, ControlInv, Migrating
<1>3. ~(mode[q] = "cli" /\ Migrating(q))
  BY <1>1 DEF LocalInv, Migrating
<1>4. /\ \A c : Held(columns, c) => Held(columns', c)
      /\ \A v \in Versions : Applied(columns, v) => Applied(columns', v)
      /\ \A t : Complete(columns, t) => Complete(columns', t)
      /\ Loaded(columns) => Loaded(columns')
  BY HeldStays
<1>5. Available[q] \subseteq Versions /\ todo[q] \subseteq Versions
      /\ (todo[q] # {} => Min(todo[q]) \in Versions)
  BY <1>1, ReleasesAre, Operands DEF LocalInv
<1>6. doing[q] \in {"up", "table", "insert"} => todo[q] # {}
  BY <1>1 DEF LocalInv
<1> HIDE DEF Held, Applied, Complete, Loaded, Migrating
<1> QED BY <1>1, <1>2, <1>3, <1>4, <1>5, <1>6 DEF GeneralAt

\* a step of p that changes neither columns nor rows
LEMMA GeneralQuiet ==
  ASSUME ControlInv, GeneralInv, NEW p \in inUse, OnlyAt(p), inUse' = inUse,
         columns' = columns, recorded' = recorded, table => table',
         interrupts' = interrupts \/ interrupts' > 0,
         CliUp => CliUp', SomeLoading' => SomeLoading \/ recorded = {},
         GeneralAt(p)'
  PROVE  GeneralInv'
<1>1. \A c \in columns : Held(columns', c)
  BY DEF Held
<1>2. \A q \in Programs \ {p} : GeneralAt(q)'
  BY <1>1, OthersStay
<1>3. interrupts' > 0 \/ \A q \in Programs : inUse' # {q}
  BY DEF GeneralInv
<1>4. \A v \in recorded', w \in Versions : w <= v => Applied(columns', w)
  BY DEF GeneralInv
<1>5. columns' # {} => table' \/ CliUp'
  BY DEF GeneralInv
<1>6. (SomeLoading' \/ recorded' = {}) => Whole(columns') \/ CliUp'
  BY DEF GeneralInv
<1>7. SomeLoading' /\ recorded' # {} => Loaded(columns')
  BY DEF GeneralInv
<1>8. \A q \in Programs : GeneralAt(q)'
  BY <1>2
<1> QED BY <1>3, <1>4, <1>5, <1>6, <1>7, <1>8 DEF GeneralInv

LEMMA LoadingOnlyAt ==
  ASSUME ControlInv, NEW p \in inUse, OnlyAt(p), SomeLoading'
  PROVE  SomeLoading \/ Loading(p)'
<1>1. p \in Programs
  BY Alone
<1>2. PICK q \in Programs : Loading(q)'
  BY DEF SomeLoading
<1> QED BY <1>1, <1>2 DEF SomeLoading, Loading, OnlyAt, ControlInv

\* where something is recorded there are columns
LEMMA RecordedIsSomething ==
  ASSUME ControlInv, GeneralInv, recorded # {} PROVE columns # {}
<1>1. PICK v \in recorded : v \in Versions
  BY DEF ControlInv, DatabaseInv
<1>2. Min(Versions) \in Versions /\ Min(Versions) <= v
  BY <1>1, InitialIs
<1>3. Applied(columns, Min(Versions))
  BY <1>1, <1>2 DEF GeneralInv
<1> QED BY <1>1, <1>3, InitialIs

LEMMA GeneralConnect ==
  ASSUME ControlInv, GeneralInv, NEW p \in inUse, Connect(p) PROVE GeneralInv'
<1>1. p \in Programs /\ doing[p] = "off" /\ ~CliUp
  BY Alone DEF Connect, Migrating
<1>2. doing'[p] \in {"tables", "createDb"} /\ OnlyAt(p)
  BY <1>1 DEF Connect, GoTo, OnlyAt, ControlInv
<1>3. GeneralAt(p)'
  BY <1>2 DEF GeneralAt, Migrating
<1>4. SomeLoading' => SomeLoading
  BY <1>2, LoadingOnlyAt DEF Loading
<1> QED BY <1>1, <1>2, <1>3, <1>4, GeneralQuiet DEF Connect, database, history

LEMMA GeneralCreateDatabase ==
  ASSUME ControlInv, GeneralInv, NEW p \in inUse, CreateDatabase(p) PROVE GeneralInv'
<1>1. p \in Programs /\ doing[p] = "createDb" /\ ~CliUp /\ (~exists => recorded = {})
  BY Alone DEF CreateDatabase, Migrating, DatabaseInv
<1>2. /\ doing'[p] = IF exists THEN "off" ELSE "create"
      /\ OnlyAt(p)
  BY <1>1 DEF CreateDatabase, GoTo, OnlyAt, ControlInv
<1>3. GeneralAt(p)'
  BY <1>2 DEF GeneralAt, Migrating
<1>4. SomeLoading' => SomeLoading \/ recorded = {}
  BY <1>1, <1>2, LoadingOnlyAt DEF Loading
<1> QED BY <1>1, <1>2, <1>3, <1>4, GeneralQuiet DEF CreateDatabase, history

LEMMA GeneralShowTables ==
  ASSUME ControlInv, GeneralInv, NEW p \in inUse, ShowTables(p) PROVE GeneralInv'
<1>1. p \in Programs /\ doing[p] = "tables" /\ ~CliUp
  BY Alone DEF ShowTables, Migrating
<1>2. /\ doing'[p] = IF columns = {} THEN "create" ELSE IF ~table THEN "pending" ELSE "version"
      /\ OnlyAt(p)
  BY <1>1 DEF ShowTables, GoTo, OnlyAt, ControlInv
<1>3. columns # {} => table
  BY <1>1 DEF GeneralInv
<1>4. doing'[p] \in {"create", "version"}
  BY <1>2, <1>3
<1>5. GeneralAt(p)'
  BY <1>4 DEF GeneralAt, Migrating
<1>6. SomeLoading' => SomeLoading \/ recorded = {}
  <2>1. columns = {} => recorded = {}
    BY RecordedIsSomething
  <2> QED BY <1>2, <1>3, <2>1, LoadingOnlyAt DEF Loading
<1> QED BY <1>1, <1>2, <1>5, <1>6, GeneralQuiet DEF ShowTables, database, history

LEMMA GeneralCurrentVersion ==
  ASSUME ControlInv, GeneralInv, NEW p \in inUse, CurrentVersion(p) PROVE GeneralInv'
<1>1. p \in Programs /\ doing[p] = "version" /\ ~CliUp /\ DatabaseInv
  BY Alone DEF CurrentVersion, Migrating
<1>2. /\ doing'[p] = IF recorded = {} THEN "create"
                     ELSE IF Max(recorded) = Max(Available[p]) THEN "connected"
                     ELSE "pending"
      /\ OnlyAt(p)
  BY <1>1 DEF CurrentVersion, GoTo, OnlyAt, ControlInv
<1>3. SomeLoading' => SomeLoading \/ recorded = {}
  BY <1>2, LoadingOnlyAt DEF Loading
<1>4. ASSUME doing'[p] = "create" PROVE GeneralAt(p)'
  BY <1>4 DEF GeneralAt, Migrating
<1>5. ASSUME doing'[p] = "connected" PROVE GeneralAt(p)'
  <2>1. /\ Available[p] \subseteq Versions /\ Versions \subseteq Nat /\ IsFiniteSet(Versions)
        /\ Available[p] # {} /\ recorded # {} /\ Max(recorded) = Max(Available[p])
    BY <1>1, <1>2, <1>5, ReleasesAre, MigratorAssumption
  <2>2. IsFiniteSet(Available[p])
    BY <2>1, FS_Subset
  <2>3. \A w \in Available[p] : w <= Max(recorded)
    BY <2>1, <2>2, MaxIs
  <2>4. Max(recorded) \in recorded
    BY <1>1, <2>1, Operands
  <2>5. \A w \in Available[p] : Applied(columns, w)
    BY <2>1, <2>3, <2>4 DEF GeneralInv
  <2>6. columns' = columns
    BY DEF CurrentVersion, database
  <2> HIDE DEF Applied
  <2> QED BY <1>5, <2>5, <2>6 DEF GeneralAt, Migrating
<1>6. ASSUME doing'[p] = "pending" PROVE GeneralAt(p)'
  <2>1. recorded # {} /\ recorded' = recorded /\ columns' = columns
    BY <1>2, <1>6 DEF CurrentVersion, database
  <2>2. SomeLoading' => Loaded(columns)
    BY <1>3, <2>1 DEF GeneralInv
  <2> HIDE DEF Loaded
  <2> QED BY <1>6, <2>1, <2>2 DEF GeneralAt, Migrating
<1>7. GeneralAt(p)'
  BY <1>2, <1>4, <1>5, <1>6
<1> QED BY <1>1, <1>2, <1>3, <1>7, GeneralQuiet DEF CurrentVersion, database, history

LEMMA RecordedApplied ==
  ASSUME ControlInv, GeneralInv, NEW v \in recorded PROVE Applied(columns, v)
<1>1. v \in Versions /\ v \in Nat
  BY MigratorAssumption DEF ControlInv, DatabaseInv
<1>2. v <= v
  BY <1>1
<1> QED BY <1>1, <1>2 DEF GeneralInv

LEMMA GeneralEnsureCurrent ==
  ASSUME ControlInv, GeneralInv, NEW p \in inUse, EnsureCurrent(p) PROVE GeneralInv'
<1>1. p \in Programs /\ doing[p] = "ensure" /\ ~CliUp
  BY Alone DEF EnsureCurrent, Migrating
<1>2. /\ doing'[p] \in {"off", "tables", "connected"} /\ OnlyAt(p)
      /\ doing'[p] = "connected" => Pending(p) = {}
  BY <1>1 DEF EnsureCurrent, GoTo, OnlyAt, ControlInv
<1>3. SomeLoading' => SomeLoading
  BY <1>2, LoadingOnlyAt DEF Loading
<1>4. doing'[p] = "connected" => \A w \in Available[p] : Applied(columns, w)
  BY <1>2, RecordedApplied DEF Pending
<1>5. GeneralAt(p)'
  <2>1. columns' = columns
    BY DEF EnsureCurrent, database
  <2> HIDE DEF Applied
  <2> QED BY <1>2, <1>4, <2>1 DEF GeneralAt, Migrating
<1> QED BY <1>1, <1>2, <1>3, <1>5, GeneralQuiet DEF EnsureCurrent, database, history

LEMMA GeneralDisconnectInterface ==
  ASSUME ControlInv, GeneralInv, NEW p \in inUse, DisconnectInterface(p) PROVE GeneralInv'
<1>1. p \in Programs /\ doing[p] = "connected" /\ ~CliUp
  BY Alone DEF DisconnectInterface, Migrating
<1>2. doing'[p] = "off" /\ OnlyAt(p)
  BY <1>1 DEF DisconnectInterface, GoTo, OnlyAt, ControlInv
<1>3. GeneralAt(p)'
  BY <1>2 DEF GeneralAt, Migrating
<1>4. SomeLoading' => SomeLoading
  BY <1>2, LoadingOnlyAt DEF Loading
<1> QED BY <1>1, <1>2, <1>3, <1>4, GeneralQuiet DEF DisconnectInterface, database, history

LEMMA GeneralInterrupt ==
  ASSUME ControlInv, GeneralInv, NEW p \in inUse, ~forced', Interrupt(p) PROVE GeneralInv'
<1>1. p \in Programs /\ ~CliUp
  BY Alone DEF Interrupt
<1>2. doing'[p] = "off" /\ OnlyAt(p)
  BY <1>1 DEF Interrupt, GoTo, OnlyAt, ControlInv
<1>3. GeneralAt(p)'
  BY <1>2 DEF GeneralAt, Migrating
<1>4. SomeLoading' => SomeLoading
  BY <1>2, LoadingOnlyAt DEF Loading
<1>5. interrupts' > 0
  <2>1. interrupts \in Nat /\ interrupts' = interrupts + 1
    BY Alone, MigratorAssumption DEF Interrupt, DatabaseInv
  <2> QED BY <2>1
<1> QED BY <1>1, <1>2, <1>3, <1>4, <1>5, GeneralQuiet DEF Interrupt, database

LEMMA GeneralCreateMigrationsTable ==
  ASSUME ControlInv, GeneralInv, NEW p \in inUse, CreateMigrationsTable(p) PROVE GeneralInv'
<1>1. p \in Programs /\ doing[p] = "create" /\ ~CliUp /\ SomeLoading
  BY Alone DEF CreateMigrationsTable, Migrating, SomeLoading, Loading
<1>2. doing'[p] = "clear" /\ OnlyAt(p)
  BY <1>1 DEF CreateMigrationsTable, GoTo, OnlyAt, ControlInv
<1>3. GeneralAt(p)'
  BY <1>2 DEF GeneralAt, Migrating
<1> QED BY <1>1, <1>2, <1>3, GeneralQuiet DEF CreateMigrationsTable, history

LEMMA PendingInOrder ==
  ASSUME ControlInv, GeneralInv, NEW p \in Programs
  PROVE  /\ \A x \in Pending(p) : \A w \in Versions \ Pending(p) :
              w < x => Applied(columns, w)
         /\ Pending(p) # {} => \A w \in Versions : w < Min(Pending(p)) => Applied(columns, w)
         /\ recorded = {} => Min(Pending(p)) = Min(Versions)
<1>1. /\ Available[p] \in SUBSET Versions /\ Min(Versions) \in Available[p]
      /\ \A v \in Available[p], w \in Versions : w < v => w \in Available[p]
  BY ReleasesAre
<1>2. ASSUME NEW x \in Pending(p), NEW w \in Versions \ Pending(p), w < x
      PROVE  Applied(columns, w)
  <2>1. w \in recorded
    BY <1>1, <1>2 DEF Pending
  <2> QED BY <2>1, RecordedApplied
<1>3. /\ Pending(p) \in SUBSET Versions /\ Versions \subseteq Nat
      /\ Pending(p) # {} => Min(Pending(p)) \in Pending(p) /\ \A w \in Pending(p) : Min(Pending(p)) <= w
  BY Operands, MinIs, MigratorAssumption
<1>4. ASSUME Pending(p) # {}, NEW w \in Versions, w < Min(Pending(p)) PROVE Applied(columns, w)
  <2>1. w \in Nat /\ Min(Pending(p)) \in Nat
    BY <1>3, <1>4
  <2>2. w \notin Pending(p)
    BY <1>3, <1>4, <2>1
  <2> QED BY <1>2, <1>3, <1>4, <2>2
<1>5. ASSUME recorded = {} PROVE Min(Pending(p)) = Min(Versions)
  <2>1. Pending(p) = Available[p]
    BY <1>5 DEF Pending
  <2>2. /\ Min(Pending(p)) \in Nat /\ Min(Versions) \in Nat
        /\ Min(Pending(p)) <= Min(Versions) /\ Min(Versions) <= Min(Pending(p))
    BY <1>1, <1>3, <2>1, InitialIs
  <2> QED BY <2>2
<1> QED BY <1>2, <1>4, <1>5

LEMMA GeneralPendingMigrations ==
  ASSUME ControlInv, GeneralInv, NEW p \in inUse, PendingMigrations(p) PROVE GeneralInv'
<1>1. p \in Programs /\ doing[p] = "pending" /\ ~CliUp
  BY Alone DEF PendingMigrations, Migrating
<1>2. /\ doing'[p] \in {"off", "ensure", "up"} /\ OnlyAt(p)
      /\ doing'[p] = "up" => Pending(p) # {}
      /\ todo'[p] = Pending(p) /\ step'[p] = 1 /\ mode' = mode
  BY <1>1 DEF PendingMigrations, GoTo, Conclude, OnlyAt, ControlInv
<1>3. SomeLoading' => SomeLoading
  BY <1>2, LoadingOnlyAt DEF Loading
<1>4. columns' = columns /\ recorded' = recorded
  BY DEF PendingMigrations, database
<1>5. mode[p] # "cli" /\ (recorded = {} \/ SomeLoading) => Loaded(columns)
  BY <1>1 DEF GeneralInv, GeneralAt
<1>6. /\ \A x \in Pending(p) : \A w \in Versions \ Pending(p) : w < x => Applied(columns, w)
      /\ recorded = {} => Min(Pending(p)) = Min(Versions)
      /\ Pending(p) # {} => Min(Pending(p)) \in Versions
  BY <1>1, PendingInOrder, Operands
<1>7. \A v \in Versions : \A i \in DOMAIN Steps[v] : ~(i < 1)
  BY StepsShape
<1>8. GeneralAt(p)'
  <2>1. CASE doing'[p] # "up"
    BY <1>2, <2>1 DEF GeneralAt, Migrating
  <2>2. CASE doing'[p] = "up"
    <3>1. Min(todo'[p]) \in Versions
      BY <1>2, <1>6, <2>2
    <3>2. \A i \in DOMAIN Steps[Min(todo'[p])] : ~(i < step'[p])
      BY <1>2, <1>7, <3>1
    <3>3. recorded = {} => Min(todo'[p]) = Min(Versions)
      BY <1>2, <1>6
    <3> HIDE DEF Applied, Loaded, Held
    <3> QED BY <1>2, <1>3, <1>4, <1>5, <1>6, <2>2, <3>2, <3>3 DEF GeneralAt, Migrating
  <2> QED BY <2>1, <2>2
<1> QED BY <1>1, <1>2, <1>3, <1>8, GeneralQuiet DEF PendingMigrations, database, history

LEMMA GeneralCommand ==
  ASSUME ControlInv, GeneralInv, NEW p \in inUse, ~forced', Command(p) PROVE GeneralInv'
<1>1. p \in Programs /\ doing[p] = "off" /\ ~CliUp /\ inUse = {p}
  BY Alone DEF Command, RunCommand, Migrating
<1>2. interrupts > 0
  BY <1>1 DEF GeneralInv
<1>3. PICK where \in {"create", "pending", "up", "down"}, versions \in SUBSET Versions, first \in Nat :
        /\ RunCommand(p, where, versions, first)
        /\ where = "up" => Pending(p) # {} /\ versions = {Min(Pending(p))} /\ first = 1
  <2>1. Pending(p) # {} => Min(Pending(p)) \in Versions
    BY <1>1, Operands
  <2>2. recorded # {} => Max(recorded) \in Versions
    BY <1>1, Operands
  <2>3. recorded # {} => Len(Steps[Max(recorded)]) \in Nat
    BY <2>2, StepsShape
  <2> QED BY <2>1, <2>2, <2>3 DEF Command
<1>4. /\ doing'[p] = where /\ mode'[p] = "cli" /\ todo'[p] = versions /\ step'[p] = first
      /\ OnlyAt(p) /\ columns' = columns /\ recorded' = recorded
  BY <1>1, <1>3 DEF RunCommand, GoTo, OnlyAt, ControlInv, database
<1>5. where # "down" /\ (where = "create" => columns = {})
  BY <1>2, <1>3 DEF RunCommand
<1>6. SomeLoading' => SomeLoading \/ recorded = {}
  BY <1>4, <1>5, RecordedIsSomething, LoadingOnlyAt DEF Loading
<1>7. GeneralAt(p)'
  <2>1. CASE where # "up"
    BY <1>3, <1>4, <1>5, <2>1 DEF GeneralAt, Migrating
  <2>2. CASE where = "up"
    <3> DEFINE v == Min(Pending(p))
    <3>1. /\ Pending(p) # {} /\ todo'[p] = {v} /\ step'[p] = 1 /\ v \in Versions
          /\ \A w \in Versions : w < v => Applied(columns, w)
          /\ recorded = {} => v = Min(Versions)
      BY <1>1, <1>3, <1>4, <2>2, Operands, PendingInOrder
    <3> HIDE DEF v
    <3>2. Min({v}) = v
      BY <3>1, MinOfOne, MigratorAssumption
    <3>3. \A i \in DOMAIN Steps[v] : ~(i < 1)
      BY <3>1, StepsShape
    <3> HIDE DEF Applied, Loaded, Held
    <3> QED BY <1>4, <2>2, <3>1, <3>2, <3>3 DEF GeneralAt, Migrating
  <2> QED BY <2>1, <2>2
<1> QED BY <1>1, <1>3, <1>4, <1>6, <1>7, GeneralQuiet DEF RunCommand, database

LEMMA GeneralClearMigrationsTable ==
  ASSUME ControlInv, GeneralInv, NEW p \in inUse, ClearMigrationsTable(p) PROVE GeneralInv'
<1>1. /\ p \in Programs /\ doing[p] = "clear" /\ ~CliUp /\ SomeLoading /\ table
  BY Alone DEF ClearMigrationsTable, Migrating, SomeLoading, Loading, LocalInv
<1>2. /\ doing'[p] = "load" /\ OnlyAt(p) /\ columns' = columns /\ recorded' = {}
      /\ tables'[p] = {n \in DOMAIN Tables : HasTable(CurrentSchema(p), Tables[n])}
      /\ table' = table
  BY <1>1 DEF ClearMigrationsTable, GoTo, OnlyAt, ControlInv
<1>3. \A c \in columns : Held(columns', c)
  BY <1>2 DEF Held
<1>4. \A q \in Programs \ {p} : GeneralAt(q)'
  BY <1>1, <1>2, <1>3, OthersStay DEF ClearMigrationsTable, history
<1>5. \A n \in DOMAIN Tables \ tables'[p] : Complete(columns', Tables[n])
  <2> SUFFICES ASSUME NEW n \in DOMAIN Tables, n \notin tables'[p], NEW q \in Programs,
                      NEW c \in CurrentSchema(q), TableOf(c) = Tables[n]
               PROVE  FALSE
    BY DEF Complete
  <2>1. c \in CurrentSchema(p)
    BY <1>1, ReleasesAre
  <2> QED BY <1>2, <2>1 DEF HasTable
<1>6. GeneralAt(p)'
  <2> HIDE DEF Complete
  <2> QED BY <1>2, <1>5 DEF GeneralAt, Migrating
<1>7. Whole(columns)
  BY <1>1 DEF GeneralInv
<1>8. interrupts' > 0 \/ \A q \in Programs : inUse' # {q}
  BY DEF GeneralInv, ClearMigrationsTable, history
<1> HIDE DEF Whole, Applied, Loaded
<1> QED BY <1>1, <1>2, <1>4, <1>6, <1>7, <1>8 DEF GeneralInv

LEMMA GeneralCreateTable ==
  ASSUME ControlInv, GeneralInv, NEW p \in inUse, CreateTable(p) PROVE GeneralInv'
<1> DEFINE n == Min(tables[p])
           new == {c \in CurrentSchema(p) : TableOf(c) = Tables[n]}
<1>1. /\ p \in Programs /\ doing[p] = "load" /\ ~CliUp /\ SomeLoading /\ table
      /\ tables[p] # {} /\ tables[p] \subseteq DOMAIN Tables
  BY Alone DEF CreateTable, Migrating, SomeLoading, Loading, LocalInv
<1>2. n \in tables[p] /\ n \in DOMAIN Tables
  BY <1>1, Operands
<1>3. /\ columns' = IF HasTable(columns, Tables[n]) THEN columns ELSE columns \cup new
      /\ tables'[p] = tables[p] \ {n} /\ OnlyAt(p) /\ recorded' = recorded /\ table' = table
      /\ doing'[p] = IF tables[p] = {n} THEN "assume" ELSE "load"
  BY <1>1 DEF CreateTable, GoTo, OnlyAt, ControlInv
<1>4. \A q \in Programs : CurrentSchema(q) = CurrentSchema(p)
  BY <1>1, ReleasesAre
<1> HIDE DEF n
<1>5. columns \subseteq columns' /\ \A c \in columns : Held(columns', c)
  BY <1>3 DEF Held
<1>6. /\ \A c : Held(columns, c) => Held(columns', c)
      /\ \A v \in Versions : Applied(columns, v) => Applied(columns', v)
      /\ \A t : Complete(columns, t) => Complete(columns', t)
      /\ Loaded(columns) => Loaded(columns')
  BY <1>5, HeldStays
<1>7. Whole(columns)
  BY <1>1 DEF GeneralInv
<1>8. Complete(columns', Tables[n])
  <2>1. CASE HasTable(columns, Tables[n])
    <3>1. Complete(columns, Tables[n])
      BY <1>7, <2>1 DEF Whole, HasTable
    <3> QED BY <3>1, <1>6
  <2>2. CASE ~HasTable(columns, Tables[n])
    <3>1. new \subseteq columns'
      BY <1>3, <2>2
    <3> QED BY <1>4, <3>1 DEF Complete, Held
  <2> QED BY <2>1, <2>2
<1>9. Whole(columns')
  <2>1. ASSUME NEW c \in columns' PROVE Complete(columns', TableOf(c))
    <3>1. CASE c \in columns
      <4>1. Complete(columns, TableOf(c))
        BY <1>7, <3>1 DEF Whole
      <4> QED BY <4>1, <1>6
    <3>2. CASE c \notin columns
      <4>1. TableOf(c) = Tables[n]
        BY <1>3, <3>2
      <4> QED BY <4>1, <1>8
    <3> QED BY <3>1, <3>2
  <2> QED BY <2>1 DEF Whole
<1>10. \A m \in DOMAIN Tables \ tables'[p] : Complete(columns', Tables[m])
  <2>1. \A m \in DOMAIN Tables \ tables[p] : Complete(columns, Tables[m])
    BY <1>1 DEF GeneralInv, GeneralAt
  <2> HIDE DEF Complete
  <2> QED BY <1>3, <1>6, <1>8, <2>1
<1>11. doing'[p] = "assume" => Loaded(columns')
  <2> SUFFICES ASSUME tables'[p] = {}, NEW q \in Programs, NEW c \in CurrentSchema(q)
               PROVE  Held(columns', c)
    BY <1>3 DEF Loaded
  <2>1. PICK m \in DOMAIN Tables : Tables[m] = TableOf(c)
    BY TablesAssumption
  <2>2. Complete(columns', Tables[m])
    BY <1>10
  <2> QED BY <2>1, <2>2 DEF Complete
<1>12. GeneralAt(p)'
  <2> HIDE DEF Complete, Loaded
  <2> QED BY <1>3, <1>10, <1>11 DEF GeneralAt, Migrating
<1>13. \A q \in Programs \ {p} : GeneralAt(q)'
  BY <1>1, <1>3, <1>5, OthersStay DEF CreateTable, history
<1>14. interrupts' > 0 \/ \A q \in Programs : inUse' # {q}
  BY DEF GeneralInv, CreateTable, history
<1>15. \A v \in recorded', w \in Versions : w <= v => Applied(columns', w)
  BY <1>3, <1>6 DEF GeneralInv
<1>16. recorded' # {} => Loaded(columns')
  BY <1>1, <1>3, <1>6 DEF GeneralInv
<1> HIDE DEF Whole, Applied, Loaded, Held, Complete
<1> QED BY <1>1, <1>3, <1>9, <1>12, <1>13, <1>14, <1>15, <1>16 DEF GeneralInv

LEMMA GeneralAssumeMigrated ==
  ASSUME ControlInv, GeneralInv, NEW p \in inUse, AssumeMigrated(p) PROVE GeneralInv'
<1>1. /\ p \in Programs /\ doing[p] = "assume" /\ ~CliUp /\ SomeLoading /\ table
      /\ recorded \in SUBSET Versions
  BY Alone DEF AssumeMigrated, Migrating, SomeLoading, Loading, LocalInv, DatabaseInv
<1>2. /\ doing'[p] \in {"off", "ensure"} /\ OnlyAt(p) /\ columns' = columns /\ table' = table
      /\ recorded' \in {recorded, recorded \cup SchemaVersions[p]}
  BY <1>1 DEF AssumeMigrated, Conclude, GoTo, OnlyAt, ControlInv
<1>3. \A c \in columns : Held(columns', c)
  BY <1>2 DEF Held
<1>4. \A q \in Programs \ {p} : GeneralAt(q)'
  BY <1>1, <1>2, <1>3, OthersStay DEF AssumeMigrated, history
<1>5. GeneralAt(p)'
  BY <1>2 DEF GeneralAt, Migrating
<1>6. Loaded(columns) /\ Whole(columns)
  BY <1>1 DEF GeneralInv, GeneralAt
<1>7. \A v \in recorded', w \in Versions : w <= v => Applied(columns', w)
  <2>1. \A v \in SchemaVersions[p], w \in Versions : w <= v => Applied(columns, w)
    BY <1>1, <1>6, LoadedApplies
  <2> HIDE DEF Applied
  <2> QED BY <1>2, <2>1 DEF GeneralInv
<1>8. interrupts' > 0 \/ \A q \in Programs : inUse' # {q}
  BY DEF GeneralInv, AssumeMigrated, history
<1> HIDE DEF Whole, Applied, Loaded
<1> QED BY <1>1, <1>2, <1>4, <1>5, <1>6, <1>7, <1>8 DEF GeneralInv

LEMMA GeneralAddMigrationsTable ==
  ASSUME ControlInv, GeneralInv, NEW p \in inUse, AddMigrationsTable(p) PROVE GeneralInv'
<1>1. p \in Programs /\ doing[p] = "table" /\ GeneralAt(p)
  BY Alone DEF AddMigrationsTable, GeneralInv
<1>2. /\ doing'[p] = "insert" /\ OnlyAt(p) /\ columns' = columns /\ recorded' = recorded
      /\ mode' = mode /\ todo' = todo /\ step' = step
  BY <1>1 DEF AddMigrationsTable, GoTo, OnlyAt, ControlInv
<1>3. SomeLoading' => SomeLoading
  BY <1>2, LoadingOnlyAt DEF Loading
<1>4. CliUp => CliUp'
  BY <1>1, <1>2, Alone DEF CliUp, Migrating
<1>5. GeneralAt(p)'
  <2> HIDE DEF Applied, Loaded, Held
  <2> QED BY <1>1, <1>2, <1>3 DEF GeneralAt, Migrating
<1> QED BY <1>1, <1>2, <1>3, <1>4, <1>5, GeneralQuiet DEF AddMigrationsTable, history

LEMMA GeneralAddMigration ==
  ASSUME ControlInv, GeneralInv, NEW p \in inUse, AddMigration(p) PROVE GeneralInv'
<1> DEFINE v == Min(todo[p])
           T == todo[p] \ {v}
<1>1. /\ p \in Programs /\ doing[p] = "insert" /\ table /\ GeneralAt(p) /\ Migrating(p)
      /\ todo[p] # {} /\ todo[p] \subseteq Versions /\ recorded \subseteq Versions
  BY Alone DEF AddMigration, GeneralInv, LocalInv, DatabaseInv, Migrating
<1>2. v \in todo[p] /\ v \in Versions /\ v \in Nat /\ \A w \in todo[p] : v <= w
  BY <1>1, Operands, MigratorAssumption
<1>3. /\ doing'[p] \in {"off", "ensure", "up"} /\ OnlyAt(p) /\ mode' = mode
      /\ doing'[p] = "up" => T # {}
      /\ columns' = columns /\ table' = table
      /\ recorded' = recorded \cup {v} /\ todo'[p] = T /\ step'[p] = 1
  <2>1. /\ OnlyAt(p) /\ mode' = mode /\ columns' = columns /\ table' = table
        /\ recorded' = recorded \cup {v} /\ todo'[p] = T /\ step'[p] = 1
    BY <1>1 DEF AddMigration, OnlyAt, Conclude, GoTo, ControlInv
  <2>2. /\ todo[p] = {v} => doing'[p] \in {"off", "ensure"}
        /\ todo[p] # {v} => doing'[p] = "up"
    BY <1>1 DEF AddMigration, Conclude, GoTo, ControlInv
  <2>3. T = {} <=> todo[p] = {v}
    BY <1>2
  <2> QED BY <2>1, <2>2, <2>3
<1>4. SomeLoading' => SomeLoading
  BY <1>3, LoadingOnlyAt DEF Loading
<1>5. SomeLoading => mode[p] # "cli" /\ ~CliUp
  BY <1>1, Alone DEF Loading
<1>6. SomeLoading => Loaded(columns) /\ Whole(columns)
  <2>1. SomeLoading => Whole(columns)
    BY <1>5 DEF GeneralInv
  <2>2. SomeLoading => Loaded(columns)
    BY <1>1, <1>5 DEF GeneralInv, GeneralAt
  <2> QED BY <2>1, <2>2
<1> HIDE DEF v
<1>7. Applied(columns, v) /\ \A w \in Versions : w < v => Applied(columns, w)
  <2>1. Applied(columns, v) /\ \A x \in todo[p] : \A w \in Versions \ todo[p] :
                       w < x => Applied(columns, w)
    BY <1>1 DEF GeneralAt, v
  <2>2. \A w \in Versions : w < v => w \notin todo[p]
    BY <1>1, <1>2, MigratorAssumption
  <2> QED BY <1>2, <2>1, <2>2
<1>8. \A x \in recorded', w \in Versions : w <= x => Applied(columns', w)
  <2>1. \A w \in Versions : w <= v => Applied(columns, w)
    <3>1. \A w \in Versions : w <= v => w = v \/ w < v
      BY <1>2, MigratorAssumption
    <3> QED BY <1>7, <3>1
  <2>2. \A x \in recorded, w \in Versions : w <= x => Applied(columns, w)
    BY DEF GeneralInv
  <2> HIDE DEF Applied
  <2> QED BY <1>3, <2>1, <2>2
<1>9. \A q \in Programs \ {p} : GeneralAt(q)'
  <2>1. \A c \in columns : Held(columns', c)
    BY <1>3 DEF Held
  <2>2. (recorded' = {} \/ SomeLoading') => SomeLoading
    BY <1>3, <1>4
  <2> QED BY <1>1, <1>3, <2>1, <2>2, OthersStay DEF AddMigration, history
<1>10. GeneralAt(p)'
  <2>1. CASE doing'[p] # "up"
    BY <1>3, <2>1 DEF GeneralAt, Migrating
  <2>2. CASE doing'[p] = "up"
    <3>1. T # {} /\ T \subseteq Versions
      BY <1>1, <1>3, <2>2
    <3>2. Min(T) \in Versions
      <4> HIDE DEF T
      <4> QED BY <3>1, MinIs, MigratorAssumption
    <3>3. \A i \in DOMAIN Steps[Min(T)] : ~(i < 1)
      <4> HIDE DEF T
      <4> QED BY <3>2, StepsShape
    <3>4. \A x \in T : \A w \in Versions \ T : w < x => Applied(columns, w)
      <4>1. \A x \in todo[p] : \A w \in Versions \ todo[p] : w < x => Applied(columns, w)
        BY <1>1 DEF GeneralAt
      <4> HIDE DEF Applied
      <4> QED BY <1>7, <4>1
    <3> HIDE DEF T, Applied, Loaded, Held
    <3> QED BY <1>3, <1>4, <1>6, <2>2, <3>3, <3>4 DEF GeneralAt, Migrating
  <2> QED BY <2>1, <2>2
<1>11. interrupts' > 0 \/ \A q \in Programs : inUse' # {q}
  BY DEF GeneralInv, AddMigration, history
<1> HIDE DEF Whole, Applied, Loaded
<1> QED BY <1>1, <1>3, <1>4, <1>6, <1>8, <1>9, <1>10, <1>11 DEF GeneralInv

\* the initial migration only adds and finds the tables it adds to
LEMMA InitialAdds ==
  ASSUME NEW S \in SUBSET AllColumns, NEW i \in DOMAIN Steps[Min(Versions)],
         Versions # {},
         \A j \in DOMAIN Steps[Min(Versions)] : j < i => Steps[Min(Versions)][j][2] \in S
  PROVE  /\ ~Fails(S, Steps[Min(Versions)][i])
         /\ Alter(S, Steps[Min(Versions)][i]) = S \cup {Steps[Min(Versions)][i][2]}
<1> DEFINE v == Min(Versions)
           a == <<v, i>>
           s == Steps[v][i]
<1>1. /\ v \in Versions /\ {v} \in SUBSET Versions /\ \A w \in Versions : v <= w
      /\ v \in {v} /\ i \in DOMAIN Steps[v]
  BY InitialIs
<1>2. /\ a \in StatementsOf({v}) /\ a \in StatementsOf(Versions) /\ Statement(a) = s
  <2> HIDE DEF v
  <2> QED BY <1>1, StatementIs
<1>3. s[1] = NoColumn /\ s[2] # NoColumn
  BY <1>2, StatementsIn, StepsAssumption
<1>4. ~Fails(After(Earlier(a)), s)
  BY <1>2, StepsAssumption DEF Earlier
<1>5. ASSUME NEW c \in After(Earlier(a)) PROVE c \in S
  <2>1. PICK b \in StatementsOf(Versions) : Precedes(b, a) /\ Statement(b)[2] = c
    BY DEF After, Earlier
  <2>2. /\ b[1] \in Versions /\ b[2] \in DOMAIN Steps[b[1]]
        /\ Statement(b) = Steps[b[1]][b[2]] /\ b[1] \in Nat
    BY StatementsIn
  <2>3. v \in Nat /\ v <= b[1]
    BY <1>1, <2>2, MigratorAssumption
  <2>4. b[1] = v /\ b[2] < i
    <3> HIDE DEF v
    <3> QED BY <2>1, <2>2, <2>3 DEF Precedes
  <2> QED BY <2>1, <2>2, <2>4
<1>6. ~Fails(S, s)
  <2> HIDE DEF s, a
  <2> QED BY <1>3, <1>4, <1>5 DEF Fails, HasTable, Renames
<1>7. Alter(S, s) = S \cup {s[2]}
  <2> HIDE DEF s
  <2> QED BY <1>3, NoColumnIsNone DEF Alter, Drops
<1> QED BY <1>6, <1>7

LEMMA GeneralUpFails ==
  ASSUME ControlInv, GeneralInv, NEW p \in inUse, Up(p),
         Fails(columns, Steps[Min(todo[p])][step[p]])
  PROVE  GeneralInv'
<1>1. /\ p \in Programs /\ doing[p] = "up" /\ GeneralAt(p) /\ LocalInv(p) /\ DatabaseInv
      /\ Migrating(p) /\ ~Loading(p)
  BY Alone DEF Up, GeneralInv, Migrating, Loading
<1>2. /\ doing'[p] = "off" /\ OnlyAt(p) /\ columns' = columns /\ recorded' = recorded
      /\ table' = table
  BY <1>1 DEF Up, Run, GoTo, OnlyAt, ControlInv
<1>3. SomeLoading' => SomeLoading
  BY <1>2, LoadingOnlyAt DEF Loading
<1>4. GeneralAt(p)'
  BY <1>2 DEF GeneralAt, Migrating
<1>5. \A q \in Programs \ {p} : GeneralAt(q)'
  <2>1. \A c \in columns : Held(columns', c)
    BY <1>2 DEF Held
  <2> QED BY <1>1, <1>2, <1>3, <2>1, OthersStay DEF Up, Run, history
<1>6. CliUp => recorded # {} /\ ~SomeLoading
  <2> SUFFICES ASSUME CliUp PROVE recorded # {} /\ ~SomeLoading
    OBVIOUS
  <2>1. mode[p] = "cli" /\ ~SomeLoading
    BY <1>1, Alone
  <2>2. CASE recorded = {}
    <3>1. /\ Min(todo[p]) = Min(Versions)
          /\ \A i \in DOMAIN Steps[Min(Versions)] :
               i < step[p] => Steps[Min(Versions)][i][2] \in columns
      BY <1>1, <2>1, <2>2 DEF GeneralAt
    <3>2. step[p] \in DOMAIN Steps[Min(Versions)] /\ columns \in SUBSET AllColumns /\ Versions # {}
      BY <1>1, <3>1, ReleasesAre DEF LocalInv, DatabaseInv
    <3>3. ~Fails(columns, Steps[Min(Versions)][step[p]])
      BY <3>1, <3>2, InitialAdds
    <3> QED BY <3>1, <3>3
  <2> QED BY <2>1, <2>2
<1>7. interrupts' > 0 \/ \A q \in Programs : inUse' # {q}
  BY DEF GeneralInv, Up, Run, history
<1>8. columns # {} => table
  BY <1>1, <1>6 DEF GeneralInv, DatabaseInv
<1>9. SomeLoading \/ recorded = {} => Whole(columns)
  BY <1>6 DEF GeneralInv
<1>10. SomeLoading /\ recorded # {} => Loaded(columns)
  BY DEF GeneralInv
<1>11. \A v \in recorded, w \in Versions : w <= v => Applied(columns, w)
  BY DEF GeneralInv
<1> HIDE DEF Whole, Applied, Loaded
<1> QED BY <1>2, <1>3, <1>4, <1>5, <1>7, <1>8, <1>9, <1>10, <1>11 DEF GeneralInv

LEMMA LoadedIsWhole == ASSUME NEW S, Loaded(S) PROVE Whole(S)
BY DEF Loaded, Whole, Complete

LEMMA GeneralUp ==
  ASSUME ControlInv, GeneralInv, NEW p \in inUse, Up(p),
         ~Fails(columns, Steps[Min(todo[p])][step[p]])
  PROVE  GeneralInv'
<1> DEFINE v == Min(todo[p])
           s == Steps[v][step[p]]
           k == step[p]
<1>1. /\ p \in Programs /\ doing[p] = "up" /\ GeneralAt(p) /\ LocalInv(p) /\ DatabaseInv
      /\ Migrating(p) /\ ~Loading(p) /\ columns \in SUBSET AllColumns
  BY Alone DEF Up, GeneralInv, Migrating, Loading, DatabaseInv
<1>2. /\ <<v, k>> \in StatementsOf(Versions) /\ Statement(<<v, k>>) = s
      /\ k \in DOMAIN Steps[v] /\ v \in Versions
  BY <1>1, StatementAt
<1>3. DOMAIN Steps[v] = 1 .. Len(Steps[v]) /\ Len(Steps[v]) \in Nat /\ k \in Nat
  BY <1>2, StepsShape
<1>4. /\ columns' = Alter(columns, s) /\ OnlyAt(p) /\ recorded' = recorded
      /\ table' = table /\ mode' = mode /\ todo' = todo
      /\ k = Len(Steps[v]) => doing'[p] = "table"
      /\ k # Len(Steps[v]) => doing'[p] = "up" /\ step'[p] = k + 1
  BY <1>1 DEF Up, Run, GoTo, OnlyAt, ControlInv
<1> HIDE DEF v, s, k
<1>5. \A c \in columns : Held(columns', c)
  BY <1>2, <1>4, AlterHolds
<1>6. /\ \A c : Held(columns, c) => Held(columns', c)
      /\ \A w \in Versions : Applied(columns, w) => Applied(columns', w)
      /\ Loaded(columns) => Loaded(columns')
  BY <1>5, HeldStays
<1>7. SomeLoading' => SomeLoading
  BY <1>4, LoadingOnlyAt DEF Loading
<1>8. \A q \in Programs \ {p} : GeneralAt(q)'
  BY <1>1, <1>4, <1>5, <1>7, OthersStay DEF Up, Run, history
<1>9. s[2] # NoColumn => Held(columns', s[2])
  BY <1>4 DEF Alter, Held
<1>10. \A i \in DOMAIN Steps[v] :
         i <= k /\ Steps[v][i][2] # NoColumn => Held(columns', Steps[v][i][2])
  <2>1. \A i \in DOMAIN Steps[v] :
          i < k /\ Steps[v][i][2] # NoColumn => Held(columns, Steps[v][i][2])
    BY <1>1 DEF GeneralAt, v, k
  <2>2. \A i \in DOMAIN Steps[v] : i <= k => i < k \/ i = k
    BY <1>3
  <2>3. s = Steps[v][k]
    BY DEF s, k
  <2> HIDE DEF Held
  <2> QED BY <1>6, <1>9, <2>1, <2>2, <2>3
<1>11. mode[p] = "cli" /\ recorded = {} =>
         /\ v = Min(Versions)
         /\ \A i \in DOMAIN Steps[v] : i <= k => Steps[v][i][2] \in columns'
  <2> SUFFICES ASSUME mode[p] = "cli", recorded = {}
               PROVE  /\ v = Min(Versions)
                      /\ \A i \in DOMAIN Steps[v] : i <= k => Steps[v][i][2] \in columns'
    OBVIOUS
  <2>1. v = Min(Versions) /\ \A i \in DOMAIN Steps[v] : i < k => Steps[v][i][2] \in columns
    BY <1>1 DEF GeneralAt, v, k
  <2>2. columns' = columns \cup {Steps[v][k][2]}
    BY <1>1, <1>2, <1>4, <2>1, InitialAdds DEF s, k
  <2>3. \A i \in DOMAIN Steps[v] : i <= k => i < k \/ i = k
    BY <1>3
  <2> QED BY <2>1, <2>2, <2>3
<1>12. (k = Len(Steps[v]) /\ doing'[p] = "table") \/ (doing'[p] = "up" /\ step'[p] = k + 1)
  BY <1>4
<1>13. GeneralAt(p)'
  <2>1. \A x \in todo[p] : \A w \in Versions \ todo[p] : w < x => Applied(columns', w)
    <3> HIDE DEF Applied
    <3> QED BY <1>1, <1>6 DEF GeneralAt
  <2>2. mode[p] # "cli" /\ (recorded = {} \/ SomeLoading) => Loaded(columns')
    <3> HIDE DEF Loaded
    <3> QED BY <1>1, <1>6 DEF GeneralAt
  <2>3. CASE k = Len(Steps[v]) /\ doing'[p] = "table"
    <3>1. Applied(columns', v)
      BY <1>3, <1>10, <2>3 DEF Applied
    <3> HIDE DEF Applied, Loaded, Held
    <3> QED BY <1>4, <1>7, <1>11, <2>1, <2>2, <2>3, <3>1 DEF GeneralAt, Migrating, v
  <2>4. CASE doing'[p] = "up" /\ step'[p] = k + 1
    <3>1. \A i \in DOMAIN Steps[v] : i < k + 1 => i <= k
      BY <1>3
    <3>2. \A i \in DOMAIN Steps[v] :
            i < step'[p] /\ Steps[v][i][2] # NoColumn => Held(columns', Steps[v][i][2])
      <4> HIDE DEF Held
      <4> QED BY <1>10, <2>4, <3>1
    <3>3. mode[p] = "cli" /\ recorded = {} =>
            /\ v = Min(Versions)
            /\ \A i \in DOMAIN Steps[v] : i < step'[p] => Steps[v][i][2] \in columns'
      BY <1>11, <2>4, <3>1
    <3>4. Min(todo'[p]) = v
      BY <1>4 DEF v
    <3> HIDE DEF Applied, Loaded, Held
    <3> QED BY <1>4, <1>7, <2>1, <2>2, <2>4, <3>2, <3>3, <3>4 DEF GeneralAt, Migrating
  <2> QED BY <1>12, <2>3, <2>4
<1>14. \A x \in recorded', w \in Versions : w <= x => Applied(columns', w)
  <2> HIDE DEF Applied
  <2> QED BY <1>4, <1>6 DEF GeneralInv
<1>15. mode[p] = "cli" => CliUp'
  BY <1>1, <1>4, <1>12 DEF CliUp, Migrating
<1>16. mode[p] # "cli" /\ (recorded = {} \/ SomeLoading) => Loaded(columns) /\ Loaded(columns')
  <2> HIDE DEF Loaded
  <2> QED BY <1>1, <1>6 DEF GeneralAt
<1>17. columns' # {} => table' \/ CliUp'
  <2>1. CASE mode[p] # "cli" /\ recorded = {}
    <3>1. columns # {}
      BY <1>1, <1>16, <2>1, LoadedIsSomething
    <3>2. ~CliUp
      BY <2>1, Alone
    <3> QED BY <1>4, <3>1, <3>2 DEF GeneralInv
  <2> QED BY <1>1, <1>4, <1>15, <2>1 DEF DatabaseInv
<1>18. (SomeLoading' \/ recorded' = {}) => Whole(columns') \/ CliUp'
  BY <1>4, <1>7, <1>15, <1>16, LoadedIsWhole
<1>19. SomeLoading' /\ recorded' # {} => Loaded(columns')
  <2> HIDE DEF Loaded
  <2> QED BY <1>4, <1>6, <1>7 DEF GeneralInv
<1>20. interrupts' > 0 \/ \A q \in Programs : inUse' # {q}
  BY DEF GeneralInv, Up, Run, history
<1>21. \A q \in Programs : GeneralAt(q)'
  BY <1>8, <1>13
<1> HIDE DEF Whole, Applied, Loaded
<1> QED BY <1>14, <1>17, <1>18, <1>19, <1>20, <1>21 DEF GeneralInv

LEMMA GeneralDown ==
  ASSUME ControlInv, GeneralInv, NEW p \in inUse, Down(p) \/ RemoveMigration(p) PROVE FALSE
<1>1. p \in Programs /\ doing[p] \in {"down", "remove"}
  BY Alone DEF Down, RemoveMigration
<1> QED BY <1>1 DEF GeneralInv, GeneralAt

-----------------------------------------------------------------------------
(* A database from before the migrations *)

LEMMA FirstVersion ==
  ASSUME ControlInv, OldInv, NEW p \in inUse
  PROVE  /\ p \in Programs /\ LocalInv(p) /\ DatabaseInv
         /\ Versions # {} /\ Min(Versions) \in Versions /\ Min(Versions) \in Nat
         /\ \A v \in Versions : Min(Versions) <= v /\ v \in Nat
         /\ columns # {} /\ columns \in SUBSET AllColumns
         /\ Pending(p) = Available[p] /\ Min(Available[p]) = Min(Versions)
         /\ PrefixClosed({Min(Versions)})
<1>1. /\ p \in Programs /\ LocalInv(p) /\ DatabaseInv
  BY Alone
<1>2. /\ Versions # {} /\ Min(Versions) \in Available[p] /\ Available[p] \in SUBSET Versions
  BY <1>1, ReleasesAre
<1>3. /\ Min(Versions) \in Versions /\ Versions \subseteq Nat
      /\ \A v \in Versions : Min(Versions) <= v
  BY <1>2, InitialIs, MigratorAssumption
<1>4. PrefixClosed({Min(Versions)})
  <2>1. \A w \in Versions : ~(w < Min(Versions))
    <3> SUFFICES ASSUME NEW w \in Versions PROVE ~(w < Min(Versions))
      OBVIOUS
    <3>1. w \in Nat /\ Min(Versions) \in Nat /\ Min(Versions) <= w
      BY <1>3
    <3> QED BY <3>1
  <2> QED BY <2>1 DEF PrefixClosed
<1>5. columns # {}
  BY <1>3, <1>4, SchemaOfSome DEF OldInv
<1>6. Min(Available[p]) = Min(Versions)
  <2>1. Min(Available[p]) \in Available[p] /\ \A v \in Available[p] : Min(Available[p]) <= v
    BY <1>2, <1>3, MinIs
  <2>2. Min(Available[p]) <= Min(Versions) /\ Min(Versions) <= Min(Available[p])
        /\ Min(Available[p]) \in Nat /\ Min(Versions) \in Nat
    BY <1>2, <1>3, <2>1
  <2> QED BY <2>2
<1>7. Pending(p) = Available[p] /\ columns \in SUBSET AllColumns
  BY <1>1 DEF Pending, OldInv, DatabaseInv
<1> QED BY <1>1, <1>2, <1>3, <1>4, <1>5, <1>6, <1>7

\* a step of p that leaves the database alone
LEMMA OldQuiet ==
  ASSUME ControlInv, OldInv, NEW p \in inUse, OnlyAt(p),
         columns' = columns, recorded' = recorded, exists' = exists, origin' = origin,
         doing'[p] \in {"off", "tables", "version", "pending", "up", "table", "insert"},
         Migrating(p)' => /\ Min(todo'[p]) = Min(Versions)
                          /\ \A x \in todo'[p] : \A w \in Versions \ todo'[p] : x <= w
  PROVE  OldInv'
<1>1. p \in Programs
  BY Alone
<1>2. \A q \in Programs \ {p} : /\ doing'[q] = doing[q] /\ todo'[q] = todo[q]
                                /\ Migrating(q)' = Migrating(q)
  BY <1>1 DEF OnlyAt, ControlInv, Migrating
<1>3. \A q \in Programs :
       /\ doing'[q] \in {"off", "tables", "version", "pending", "up", "table", "insert"}
       /\ Migrating(q)' => /\ Min(todo'[q]) = Min(Versions)
                           /\ \A x \in todo'[q] : \A w \in Versions \ todo'[q] : x <= w
  BY <1>1, <1>2 DEF OldInv
<1> QED BY <1>3 DEF OldInv

LEMMA OldLooks ==
  ASSUME ControlInv, OldInv, NEW p \in inUse,
         Connect(p) \/ ShowTables(p) \/ Interrupt(p) \/ CurrentVersion(p)
  PROVE  OldInv' \/ OldTakenForCanceled'
<1>1. p \in Programs /\ columns # {}
  BY FirstVersion
<1>2. CASE CurrentVersion(p)
  BY <1>2 DEF CurrentVersion, OldInv, OldTakenForCanceled
<1>3. CASE Connect(p) \/ ShowTables(p) \/ Interrupt(p)
  <2>1. OnlyAt(p) /\ doing'[p] \in {"off", "tables", "version", "pending"}
    BY <1>1, <1>3 DEF Connect, ShowTables, Interrupt, GoTo, OnlyAt, ControlInv, OldInv
  <2>2. /\ columns' = columns /\ recorded' = recorded /\ exists' = exists
        /\ origin' = origin
    BY <1>3 DEF Connect, ShowTables, Interrupt, database, history
  <2> QED BY <2>1, <2>2, OldQuiet DEF Migrating
<1> QED BY <1>2, <1>3

LEMMA OldBegins ==
  ASSUME ControlInv, OldInv, NEW p \in inUse, ~forced',
         PendingMigrations(p) \/ Command(p)
  PROVE  OldInv'
<1>1. /\ p \in Programs /\ columns # {} /\ Pending(p) = Available[p]
      /\ Min(Versions) \in Versions /\ Min(Versions) \in Nat
      /\ Min(Available[p]) = Min(Versions)
      /\ \A v \in Versions : Min(Versions) <= v /\ v \in Nat
  BY FirstVersion
<1>2. \A x \in Available[p] : \A w \in Versions \ Available[p] : x <= w
  <2>1. \A x \in Available[p], w \in Versions : w < x => w \in Available[p]
    BY <1>1, ReleasesAre
  <2>2. Available[p] \in SUBSET Versions
    BY <1>1, ReleasesAre
  <2> QED BY <1>1, <2>1, <2>2
<1>3. CASE PendingMigrations(p)
  <2>1. OnlyAt(p) /\ doing'[p] = "up" /\ todo'[p] = Available[p]
    <3>1. Available[p] # {}
      BY <1>1, ReleasesAre
    <3> QED BY <1>1, <1>3, <3>1 DEF PendingMigrations, GoTo, OnlyAt, ControlInv
  <2>2. /\ columns' = columns /\ recorded' = recorded /\ exists' = exists
        /\ origin' = origin
    BY <1>3 DEF PendingMigrations, database, history
  <2> QED BY <1>1, <1>2, <2>1, <2>2, OldQuiet
<1>4. CASE Command(p)
  <2>1. \/ RunCommand(p, "pending", {}, 1)
        \/ RunCommand(p, "up", {Min(Versions)}, 1)
    <3>1. ~RunCommand(p, "create", {}, 1)
      BY <1>1 DEF RunCommand
    <3>2. recorded = {}
      BY DEF OldInv
    <3> QED BY <1>1, <1>4, <3>1, <3>2 DEF Command
  <2>2. /\ columns' = columns /\ recorded' = recorded /\ exists' = exists
        /\ origin' = origin
    BY <2>1 DEF RunCommand, database
  <2>3. CASE RunCommand(p, "pending", {}, 1)
    <3>1. OnlyAt(p) /\ doing'[p] = "pending"
      BY <1>1, <2>3 DEF RunCommand, GoTo, OnlyAt, ControlInv
    <3> QED BY <2>2, <3>1, OldQuiet DEF Migrating
  <2>4. CASE RunCommand(p, "up", {Min(Versions)}, 1)
    <3>1. OnlyAt(p) /\ doing'[p] = "up" /\ todo'[p] = {Min(Versions)}
      BY <1>1, <2>4 DEF RunCommand, GoTo, OnlyAt, ControlInv
    <3>2. Min({Min(Versions)}) = Min(Versions)
      BY <1>1, MinOfOne
    <3>3. \A x \in todo'[p] : \A w \in Versions \ todo'[p] : x <= w
      BY <1>1, <3>1
    <3> QED BY <2>2, <3>1, <3>2, <3>3, OldQuiet
  <2> QED BY <2>1, <2>3, <2>4
<1> QED BY <1>3, <1>4

\* the initial migration finds its columns there
LEMMA OldHas ==
  ASSUME ControlInv, OldInv, NEW p \in inUse, NEW i \in DOMAIN Steps[Min(Versions)]
  PROVE  Steps[Min(Versions)][i][2] \in columns
<1> DEFINE v == Min(Versions)
           a == <<v, i>>
<1>1. /\ v \in Versions /\ {v} \in SUBSET Versions /\ v \in {v} /\ columns = SchemaOf({v})
      /\ i \in DOMAIN Steps[v]
  BY FirstVersion DEF OldInv
<1>2. a \in StatementsOf({v}) /\ a \in StatementsOf(Versions) /\ Statement(a) = Steps[v][i]
  <2> HIDE DEF v
  <2> QED BY <1>1, StatementIs
<1>3. \A b \in StatementsOf({v}) : Statement(b)[1] = NoColumn /\ Statement(b)[2] # NoColumn
  <2>1. \A b \in StatementsOf({v}) : Statement(b)[1] = NoColumn /\ b \in StatementsOf(Versions)
    BY <1>1, StepsAssumption, StatementsIn
  <2> QED BY <2>1, StatementsIn, StepsAssumption
<1> HIDE DEF v, a
<1>4. Statement(a)[2] \in AllColumns /\ Statement(a)[2] # NoColumn
  BY <1>2, <1>3, StatementsIn
<1>5. \A b \in StatementsOf({v}) : ~Drops(Statement(b), Statement(a)[2])
  BY <1>3, <1>4 DEF Drops
<1> QED BY <1>1, <1>2, <1>4, <1>5 DEF v, SchemaOf, After

LEMMA OldUp ==
  ASSUME ControlInv, OldInv, NEW p \in inUse, Up(p) \/ AddMigrationsTable(p)
  PROVE  OldInv'
<1> DEFINE v == Min(Versions)
           s == Steps[v][step[p]]
<1>1. /\ p \in Programs /\ LocalInv(p) /\ v \in Versions /\ Versions # {}
      /\ columns \in SUBSET AllColumns
  BY FirstVersion
<1>2. Migrating(p) /\ Min(todo[p]) = v
      /\ \A x \in todo[p] : \A w \in Versions \ todo[p] : x <= w
  BY <1>1 DEF Up, AddMigrationsTable, Migrating, OldInv
<1>3. CASE Up(p)
  <2>1. doing[p] = "up" /\ step[p] \in DOMAIN Steps[v]
    BY <1>1, <1>2, <1>3 DEF Up, LocalInv
  <2>2. ~Fails(columns, s) /\ Alter(columns, s) = columns \cup {s[2]} /\ s[2] \in columns
    BY <1>1, <2>1, InitialAdds, OldHas
  <2>3. Run(p, s, Len(Steps[v]), step[p] + 1, "table")
    BY <1>2, <1>3 DEF Up
  <2> HIDE DEF v, s
  <2>4. /\ columns' = columns /\ recorded' = recorded /\ exists' = exists
        /\ origin' = origin /\ todo' = todo /\ OnlyAt(p) /\ doing'[p] \in {"up", "table"}
    BY <1>1, <2>1, <2>2, <2>3 DEF Run, GoTo, OnlyAt, ControlInv, history
  <2> QED BY <1>2, <2>4, OldQuiet DEF v
<1>4. CASE AddMigrationsTable(p)
  <2>1. /\ columns' = columns /\ recorded' = recorded /\ exists' = exists
        /\ origin' = origin /\ todo' = todo /\ OnlyAt(p) /\ doing'[p] = "insert"
    BY <1>1, <1>4 DEF AddMigrationsTable, GoTo, OnlyAt, ControlInv, history
  <2> QED BY <1>2, <2>1, OldQuiet
<1> QED BY <1>3, <1>4

\* the first row makes it a database like any other
LEMMA OldAddMigration ==
  ASSUME ControlInv, OldInv, NEW p \in inUse, AddMigration(p)
  PROVE  (\E q \in Programs : ExactInv(q)') \/ GeneralInv'
<1> DEFINE v == Min(Versions)
<1>1. /\ p \in Programs /\ LocalInv(p) /\ DatabaseInv /\ v \in Versions /\ v \in Nat
      /\ \A w \in Versions : v <= w /\ w \in Nat
      /\ columns = SchemaOf({v}) /\ recorded = {} /\ {v} \in SUBSET Versions
  BY FirstVersion DEF OldInv
<1>2. /\ doing[p] = "insert" /\ Min(todo[p]) = v /\ table
      /\ \A x \in todo[p] : \A w \in Versions \ todo[p] : x <= w
      /\ todo[p] \in SUBSET Versions /\ todo[p] # {}
  BY <1>1 DEF AddMigration, OldInv, Migrating, LocalInv
<1>3. ASSUME interrupts = 0, inUse = {p} PROVE ExactInv(p)'
  <2>1. PrefixClosed(recorded) /\ todo[p] \cap recorded = {}
        /\ columns = SchemaOf(recorded \cup {Min(todo[p])})
    BY <1>1, <1>2 DEF PrefixClosed
  <2>2. \A x \in todo[p] : \A w \in Versions \ todo[p] : w < x => w \in recorded
    BY <1>1, <1>2
  <2> QED BY <1>3, <2>1, <2>2, ExactAdded
<1>4. ASSUME interrupts > 0 \/ \A q \in Programs : inUse # {q} PROVE GeneralInv'
  <2>1. /\ columns' = columns /\ table' = table /\ recorded' = {v}
        /\ inUse' = inUse /\ interrupts' = interrupts
        /\ OnlyAt(p) /\ doing'[p] \in {"off", "ensure", "up"} /\ mode' = mode
        /\ todo'[p] = todo[p] \ {v} /\ step'[p] = 1
        /\ doing'[p] = "up" => todo'[p] # {}
    <3>1. /\ columns' = columns /\ table' = table /\ recorded' = {v}
          /\ inUse' = inUse /\ interrupts' = interrupts /\ mode' = mode
          /\ OnlyAt(p) /\ todo'[p] = todo[p] \ {v} /\ step'[p] = 1
      BY <1>1, <1>2 DEF AddMigration, OnlyAt, Conclude, GoTo, ControlInv
    <3>2. /\ todo[p] = {v} => doing'[p] \in {"off", "ensure"}
          /\ todo[p] # {v} => doing'[p] = "up"
      BY <1>1, <1>2 DEF AddMigration, Conclude, GoTo, ControlInv
    <3>3. todo[p] \ {v} = {} => todo[p] = {v}
      BY <1>2
    <3> QED BY <3>1, <3>2, <3>3
  <2>2. Applied(columns, v)
    BY <1>1, SchemaApplies
  <2>3. \A q \in Programs \ {p} :
          /\ doing'[q] = doing[q] /\ mode'[q] = mode[q] /\ todo'[q] = todo[q]
          /\ step'[q] = step[q] /\ Migrating(q)' = Migrating(q)
    BY <1>1, <2>1 DEF OnlyAt, ControlInv, Migrating
  <2>4. \A q \in Programs : ~Loading(q)'
    BY <2>1, <2>3 DEF OldInv, Loading
  <2>5. ~SomeLoading'
    BY <2>4 DEF SomeLoading
  <2> HIDE DEF v
  <2>6. ASSUME NEW q \in Programs \ {p} PROVE GeneralAt(q)'
    <3>1. /\ Migrating(q) => Min(todo[q]) = v
                             /\ \A x \in todo[q] : \A w \in Versions \ todo[q] : x <= w
          /\ doing[q] \in {"off", "tables", "version", "pending", "up", "table", "insert"}
          /\ todo[q] \in SUBSET Versions
      <4>1. q \in Programs /\ LocalInv(q)
        BY DEF ControlInv
      <4> HIDE DEF Migrating
      <4>2. /\ doing[q] \in {"off", "tables", "version", "pending", "up", "table", "insert"}
            /\ Migrating(q) => /\ Min(todo[q]) = Min(Versions)
                               /\ \A x \in todo[q] : \A w \in Versions \ todo[q] : x <= w
        BY <4>1 DEF OldInv
      <4> QED BY <4>1, <4>2 DEF LocalInv, v
    <3>2. Migrating(q) => \A x \in todo[q] : \A w \in Versions \ todo[q] : ~(w < x)
      <4> SUFFICES ASSUME Migrating(q), NEW x \in todo[q], NEW w \in Versions \ todo[q]
                   PROVE  ~(w < x)
        OBVIOUS
      <4>1. x \in Nat /\ w \in Nat
        BY <1>1, <3>1
      <4>2. x <= w
        BY <3>1
      <4> QED BY <4>1, <4>2
    <3>3. \A i \in DOMAIN Steps[v] : Steps[v][i][2] # NoColumn => Held(columns, Steps[v][i][2])
      BY <2>2 DEF Applied
    <3> HIDE DEF Applied, Loaded, Held, Migrating
    <3>4. doing[q] \in {"up", "table", "insert"} <=> Migrating(q)
      BY DEF Migrating
    <3> QED BY <2>1, <2>2, <2>3, <2>5, <3>1, <3>2, <3>3, <3>4 DEF GeneralAt
  <2>7. GeneralAt(p)'
    <3>1. CASE doing'[p] # "up"
      BY <2>1, <3>1 DEF GeneralAt, Migrating
    <3>2. CASE doing'[p] = "up"
      <4> DEFINE T == todo[p] \ {v}
      <4>1. T # {} /\ T \in SUBSET Versions /\ todo'[p] = T
        BY <1>2, <2>1, <3>2
      <4>2. \A x \in T : \A w \in Versions \ T : w < x => Applied(columns, w)
        <5>1. ASSUME NEW x \in T, NEW w \in Versions \ T, w < x PROVE w = v
          <6>1. x \in todo[p] /\ x \in Nat /\ w \in Nat
            BY <1>1, <1>2
          <6>2. w \in todo[p]
            BY <1>2, <5>1, <6>1
          <6> QED BY <6>2
        <5> QED BY <2>2, <5>1
      <4> HIDE DEF T
      <4>3. \A i \in DOMAIN Steps[Min(T)] : ~(i < 1)
        <5>1. Min(T) \in Versions
          BY <4>1, MinIs, MigratorAssumption
        <5> QED BY <5>1, StepsShape
      <4> HIDE DEF Applied, Loaded, Held
      <4> QED BY <2>1, <2>5, <3>2, <4>1, <4>2, <4>3 DEF GeneralAt, Migrating
    <3> QED BY <3>1, <3>2
  <2>8. \A x \in recorded', w \in Versions : w <= x => Applied(columns', w)
    <3>1. \A w \in Versions : w <= v => w = v
      BY <1>1
    <3> HIDE DEF Applied
    <3> QED BY <2>1, <2>2, <3>1
  <2>9. \A q \in Programs : GeneralAt(q)'
    BY <2>6, <2>7
  <2> HIDE DEF Whole, Applied, Loaded
  <2> QED BY <1>2, <1>4, <2>1, <2>5, <2>8, <2>9 DEF GeneralInv
<1>5. interrupts \in Nat
  BY <1>1, MigratorAssumption DEF DatabaseInv
<1>6. CASE interrupts > 0 \/ \A q \in Programs : inUse # {q}
  BY <1>4, <1>6
<1>7. CASE interrupts = 0 /\ \E q \in Programs : inUse = {q}
  BY <1>1, <1>3, <1>7
<1> QED BY <1>5, <1>6, <1>7

LEMMA OldNext ==
  ASSUME ControlInv, MigratorNext, ~forced', OldInv
  PROVE  OldTakenForCanceled' \/ OldInv' \/ (\E p \in Programs : ExactInv(p)') \/ GeneralInv'
<1>1. PICK p \in inUse :
        Connect(p) \/ Command(p) \/ Work(p) \/ Interrupt(p) \/ DisconnectInterface(p)
  BY DEF MigratorNext
<1>2. doing[p] \in {"off", "tables", "version", "pending", "up", "table", "insert"}
  BY FirstVersion DEF OldInv
<1>3. \/ Connect(p) \/ ShowTables(p) \/ Interrupt(p) \/ CurrentVersion(p)
      \/ PendingMigrations(p) \/ Command(p) \/ Up(p) \/ AddMigrationsTable(p) \/ AddMigration(p)
  BY <1>1, <1>2 DEF Work, CreateDatabase, EnsureCurrent, CreateMigrationsTable,
     ClearMigrationsTable, CreateTable, AssumeMigrated, Down, RemoveMigration, DisconnectInterface
<1> QED BY <1>3, OldLooks, OldBegins, OldUp, OldAddMigration

-----------------------------------------------------------------------------
(* The inductive invariant *)

LEMMA MigratorInitial == ASSUME MigratorInit PROVE MigratorIInv
<1>1. ControlInv
  BY ControlInitial
<1>0. CASE origin = "old"
  <2>1. /\ exists = TRUE /\ columns = SchemaOf({Min(Versions)}) /\ recorded = {}
        /\ \A p \in Programs : doing[p] = "off"
    BY <1>0 DEF MigratorInit
  <2>2. OldInv
    BY <1>0, <2>1 DEF OldInv, Migrating
  <2> QED BY <1>1, <2>2 DEF MigratorIInv
<1> SUFFICES ASSUME origin # "old" PROVE MigratorIInv
  BY <1>0
<1>2. /\ columns = SchemaOf(recorded) /\ recorded \in SUBSET Versions /\ PrefixClosed(recorded)
      /\ recorded # {} => table
  <2>1. CASE exists = FALSE /\ columns = {} /\ table = FALSE /\ recorded = {}
    BY <2>1, SchemaOfNone DEF PrefixClosed
  <2>2. CASE \E V \in StartVersions : /\ exists = TRUE /\ columns = SchemaOf(V)
                                      /\ table = TRUE /\ recorded = V
    <3>1. PICK V \in StartVersions : columns = SchemaOf(V) /\ table = TRUE /\ recorded = V
      BY <2>2
    <3>2. \A v \in V, w \in Versions : w < v => w \in V
      BY ReleasesAssumption
    <3> QED BY <3>1, <3>2, MigratorAssumption DEF PrefixClosed
  <2> QED BY <2>1, <2>2 DEF MigratorInit
<1>3. /\ \A p \in Programs : doing[p] = "off"
      /\ interrupts = 0
  BY DEF MigratorInit
<1>4. ASSUME NEW p \in Programs, inUse = {p} PROVE ExactInv(p)
  <2>1. p \in inUse
    BY <1>4
  <2> QED BY <1>2, <1>3, <1>4 DEF ExactInv, Migrating, PrefixClosed
<1>5. ASSUME \A p \in Programs : inUse # {p} PROVE GeneralInv
  <2>1. /\ ~SomeLoading /\ ~CliUp /\ \A p \in Programs : GeneralAt(p)
    BY <1>3 DEF SomeLoading, Loading, CliUp, Migrating, GeneralAt
  <2>2. \A v \in recorded, w \in Versions : w <= v => Applied(columns, w)
    <3>1. \A v \in recorded, w \in Versions : w <= v => w \in recorded
      <4>1. \A v \in recorded, w \in Versions : w <= v => w = v \/ w < v
        BY <1>2, MigratorAssumption
      <4> QED BY <1>2, <4>1 DEF PrefixClosed
    <3> QED BY <1>2, <3>1, SchemaApplies
  <2>3. recorded = {} => columns = {} /\ Whole(columns)
    BY <1>2, SchemaOfNone DEF Whole
  <2>4. columns # {} => table
    BY <1>2, <2>3
  <2> HIDE DEF Whole, Applied, Loaded
  <2> QED BY <1>5, <2>1, <2>2, <2>3, <2>4 DEF GeneralInv
<1>6. (\E p \in Programs : ExactInv(p)) \/ GeneralInv
  BY <1>4, <1>5
<1> QED BY <1>1, <1>6 DEF MigratorIInv

LEMMA ForcedStays ==
  ASSUME MigratorNext
  PROVE  (forced => forced') /\ (OldTakenForCanceled => OldTakenForCanceled')
<1>1. PICK p \in inUse :
        Connect(p) \/ Command(p) \/ Work(p) \/ Interrupt(p) \/ DisconnectInterface(p)
  BY DEF MigratorNext
<1>2. CASE Command(p)
  BY <1>2 DEF OldTakenForCanceled, Command, RunCommand
<1>3. CASE Connect(p) \/ DisconnectInterface(p)
  BY <1>3 DEF OldTakenForCanceled, Connect, DisconnectInterface, history
<1>6. CASE Interrupt(p)
  BY <1>6 DEF OldTakenForCanceled, Interrupt
<1>4. CASE CurrentVersion(p) \/ AddMigration(p)
  BY <1>4 DEF OldTakenForCanceled, CurrentVersion, AddMigration
<1>5. CASE Work(p) /\ ~CurrentVersion(p) /\ ~AddMigration(p)
  <2>1. UNCHANGED history
    BY <1>5 DEF Work, CreateDatabase, ShowTables, EnsureCurrent, CreateMigrationsTable,
       ClearMigrationsTable, CreateTable, AssumeMigrated, PendingMigrations, Up, Down, Run,
       AddMigrationsTable, RemoveMigration
  <2> QED BY <2>1 DEF OldTakenForCanceled, history
<1> QED BY <1>1, <1>2, <1>3, <1>4, <1>5, <1>6

LEMMA ExactNext ==
  ASSUME ControlInv, MigratorNext, ~forced', NEW q \in Programs, ExactInv(q)
  PROVE  ExactInv(q)' \/ GeneralInv'
<1>1. inUse = {q}
  BY DEF ExactInv
<1>2. q \in inUse
  BY <1>1
<1>3. CASE Work(q)
  BY <1>2, <1>3, ExactCreateDatabase, ExactShowTables, ExactCurrentVersion,
     ExactEnsureCurrent, ExactCreateMigrationsTable, ExactClearMigrationsTable,
     ExactCreateTable, ExactAssumeMigrated, ExactPendingMigrations, ExactUp,
     ExactAddMigrationsTable, ExactAddMigration, ExactDown, ExactRemoveMigration DEF Work
<1>4. CASE Connect(q) \/ Command(q) \/ DisconnectInterface(q)
  BY <1>2, <1>4, ExactConnect, ExactCommand, ExactDisconnectInterface
<1>5. CASE Interrupt(q)
  BY <1>2, <1>5, ExactInterrupt
<1> QED BY <1>1, <1>3, <1>4, <1>5 DEF MigratorNext

LEMMA GeneralNext == ASSUME ControlInv, MigratorNext, ~forced', GeneralInv PROVE GeneralInv'
<1>1. PICK p \in inUse :
        Connect(p) \/ Command(p) \/ Work(p) \/ Interrupt(p) \/ DisconnectInterface(p)
  BY DEF MigratorNext
<1>2. CASE Work(p)
  BY <1>2, GeneralCreateDatabase, GeneralShowTables, GeneralCurrentVersion,
     GeneralEnsureCurrent, GeneralCreateMigrationsTable, GeneralClearMigrationsTable,
     GeneralCreateTable, GeneralAssumeMigrated, GeneralPendingMigrations, GeneralUp,
     GeneralUpFails, GeneralAddMigrationsTable, GeneralAddMigration, GeneralDown DEF Work
<1> QED BY <1>1, <1>2, GeneralConnect, GeneralCommand, GeneralInterrupt,
        GeneralDisconnectInterface

LEMMA MigratorInductive ==
  ASSUME MigratorIInv, [MigratorNext]_migratorVars PROVE MigratorIInv'
<1>1. CASE UNCHANGED migratorVars
  <2>1. ControlInv'
    BY <1>1, ControlNext DEF MigratorIInv
  <2>2. \A p \in Programs : ExactInv(p)' = ExactInv(p)
    BY <1>1 DEF ExactInv, Migrating, CurrentSchema, migratorVars
  <2>3. GeneralInv' = GeneralInv
    BY <1>1 DEF GeneralInv, GeneralAt, SomeLoading, Loading, CliUp, Migrating, migratorVars
  <2>4. forced' = forced /\ OldTakenForCanceled' = OldTakenForCanceled /\ OldInv' = OldInv
    BY <1>1 DEF OldTakenForCanceled, OldInv, Migrating, migratorVars
  <2> QED BY <2>1, <2>2, <2>3, <2>4 DEF MigratorIInv
<1>2. CASE MigratorNext
  <2>1. ControlInv'
    BY ControlNext DEF MigratorIInv
  <2>2. CASE forced'
    BY <2>1, <2>2 DEF MigratorIInv
  <2>3. CASE ~forced'
    <3>1. ~forced
      BY <1>2, <2>3, ForcedStays
    <3>2. OldTakenForCanceled \/ OldInv \/ (\E p \in Programs : ExactInv(p)) \/ GeneralInv
      BY <3>1 DEF MigratorIInv
    <3>3. \/ OldTakenForCanceled' \/ OldInv'
          \/ (\E p \in Programs : ExactInv(p)') \/ GeneralInv'
      BY <1>2, <2>3, <3>2, ForcedStays, OldNext, ExactNext, GeneralNext DEF MigratorIInv
    <3> QED BY <2>1, <3>3 DEF MigratorIInv
  <2> QED BY <2>2, <2>3
<1> QED BY <1>1, <1>2

\* whoever is connected finds what the migrations it knows have added
LEMMA ConnectedApplied ==
  ASSUME MigratorIInv, ~forced, ~OldTakenForCanceled,
         NEW p \in Programs, doing[p] = "connected", NEW w \in Available[p]
  PROVE  Applied(columns, w)
<1>1. CASE \E q \in Programs : ExactInv(q)
  <2>1. PICK q \in Programs : ExactInv(q)
    BY <1>1
  <2>2. p \in inUse /\ p = q
    BY <2>1 DEF MigratorIInv, ControlInv, LocalInv, ExactInv
  <2>3. w \in recorded /\ columns = SchemaOf(recorded) /\ recorded \in SUBSET Versions
    BY <2>1, <2>2 DEF MigratorIInv, ControlInv, DatabaseInv, ExactInv
  <2> QED BY <2>3, SchemaApplies
<1>2. CASE GeneralInv
  BY <1>2 DEF GeneralInv, GeneralAt
<1> QED BY <1>1, <1>2 DEF MigratorIInv, OldInv

LEMMA InvariantConnected == ASSUME MigratorIInv PROVE ConnectedIsCurrent
<1> SUFFICES ASSUME NEW p \in Programs, doing[p] = "connected",
                    ~forced, ~OldTakenForCanceled,
                    NEW c \in SchemaOf(Available[p])
             PROVE  c \in columns
  BY DEF ConnectedIsCurrent
<1>1. Kept(c) /\ Available[p] \in SUBSET Versions
  BY ReleasesAre
<1>2. PICK a \in StatementsOf(Available[p]) : Statement(a)[2] = c /\ c \in AllColumns
  BY DEF SchemaOf, After
<1>3. /\ a[1] \in Available[p] /\ a[2] \in DOMAIN Steps[a[1]]
      /\ Statement(a) = Steps[a[1]][a[2]]
  BY <1>1, StatementsIn
<1>4. Applied(columns, a[1])
  BY <1>3, ConnectedApplied
<1>5. Held(columns, c)
  BY <1>2, <1>3, <1>4, NoColumnIsNone DEF Applied
<1> QED BY <1>1, <1>5, KeptHeld

\* at rest, the rows tell what has been applied
LEMMA RestApplied ==
  ASSUME MigratorIInv, AtRest, ~forced, ~OldTakenForCanceled, NEW v \in recorded
  PROVE  Applied(columns, v)
<1>1. CASE \E q \in Programs : ExactInv(q)
  <2>1. PICK q \in Programs : ExactInv(q)
    BY <1>1
  <2>2. columns = SchemaOf(recorded) /\ recorded \in SUBSET Versions
    BY <2>1 DEF MigratorIInv, ControlInv, DatabaseInv, ExactInv, AtRest
  <2> QED BY <2>2, SchemaApplies
<1>2. CASE GeneralInv
  BY <1>2, RecordedApplied DEF MigratorIInv
<1> QED BY <1>1, <1>2 DEF MigratorIInv, OldInv

LEMMA InvariantRecorded == ASSUME MigratorIInv PROVE RecordedIsApplied
<1> SUFFICES ASSUME AtRest, ~forced, ~OldTakenForCanceled, recorded # {}
             PROVE  /\ \A c \in SchemaOf(recorded) \ columns : RemovedUnrecorded(c)
                    /\ interrupts = 0 /\ Cardinality(inUse) = 1 => columns = SchemaOf(recorded)
  BY DEF RecordedIsApplied
<1>1. recorded \in SUBSET Versions /\ inUse \in SUBSET Programs
  BY DEF MigratorIInv, ControlInv, DatabaseInv
<1>2. ASSUME NEW c \in SchemaOf(recorded), c \notin columns PROVE RemovedUnrecorded(c)
  <2>1. PICK a \in StatementsOf(recorded) :
          /\ Statement(a)[2] = c /\ c \in AllColumns
          /\ \A b \in StatementsOf(recorded) : Precedes(a, b) => ~Drops(Statement(b), c)
    BY DEF SchemaOf, After
  <2>2. /\ a[1] \in recorded /\ a[2] \in DOMAIN Steps[a[1]] /\ c # NoColumn
        /\ Statement(a) = Steps[a[1]][a[2]] /\ a \in StatementsOf(Versions)
    BY <1>1, <2>1, StatementsIn, NoColumnIsNone
  <2>3. Held(columns, c)
    BY <2>1, <2>2, RestApplied DEF Applied
  <2>4. PICK b \in StatementsOf(Versions) :
          /\ Drops(Statement(b), c)
          /\ Renames(Statement(b)) /\ Kept(Statement(b)[2]) => Statement(b)[2] \in columns
    BY <1>2, <2>3 DEF Held
  <2>5. Precedes(a, b)
    BY <2>1, <2>2, <2>4, StepsAssumption
  <2>6. b \notin StatementsOf(recorded)
    BY <2>1, <2>4, <2>5
  <2>7. b[1] \notin recorded /\ b[1] \in Versions /\ b[2] \in DOMAIN Steps[b[1]]
        /\ b = <<b[1], b[2]>>
    BY <1>1, <2>6, StatementsIn, StatementIs
  <2>8. b \in StatementsOf(Versions \ recorded)
    BY <2>7, StatementIs
  <2> QED BY <2>4, <2>8 DEF RemovedUnrecorded
<1>3. ASSUME interrupts = 0, Cardinality(inUse) = 1 PROVE columns = SchemaOf(recorded)
  <2>1. \E p : inUse = {p}
    <3>1. IsFiniteSet(inUse)
      BY <1>1, MigratorAssumption, FS_Subset
    <3> QED BY <1>3, <3>1, FS_Singleton
  <2>2. ~GeneralInv
    BY <1>1, <1>3, <2>1 DEF GeneralInv
  <2>3. PICK q \in Programs : ExactInv(q)
    BY <2>2 DEF MigratorIInv, OldInv
  <2> QED BY <2>3 DEF ExactInv, AtRest
<1> QED BY <1>2, <1>3

(* A program that is connected finds every column it uses, whatever the     *)
(* database was in the beginning, unless one from before the migrations was *)
(* taken for a load that was canceled, or something was forced.             *)
THEOREM ConnectedFindsColumns == MigratorSpec => []ConnectedIsCurrent
<1>1. MigratorInit => MigratorIInv
  BY MigratorInitial
<1>2. MigratorIInv /\ [MigratorNext]_migratorVars => MigratorIInv'
  BY MigratorInductive
<1>3. MigratorIInv => ConnectedIsCurrent
  BY InvariantConnected
<1> QED BY <1>1, <1>2, <1>3, PTL DEF MigratorSpec

(* The rows of schema_migrations tell what has been applied, wherever       *)
(* loading or migrating was interrupted, with the same two exceptions.      *)
THEOREM RowsTellSchema == MigratorSpec => []RecordedIsApplied
<1>1. MigratorInit => MigratorIInv
  BY MigratorInitial
<1>2. MigratorIInv /\ [MigratorNext]_migratorVars => MigratorIInv'
  BY MigratorInductive
<1>3. MigratorIInv => RecordedIsApplied
  BY InvariantRecorded
<1> QED BY <1>1, <1>2, <1>3, PTL DEF MigratorSpec

=============================================================================
