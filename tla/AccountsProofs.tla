--------------------------- MODULE AccountsProofs ---------------------------
(***************************************************************************)
(* What holds of a user's account and row for any number of concurrent     *)
(* calls, names, plans, days and faults.                                   *)
(***************************************************************************)
EXTENDS Accounts, FiniteSetTheorems, TLAPS

LEMMA Records ==
    /\ Absent \in Account /\ LegacyAccount \in Account
    /\ NoSub \in Row /\ NoPlan \in Plan
  BY DEF Absent, LegacyAccount, NoSub, NoPlan, Account, Row, Plan

LEMMA PlansTyped == ASSUME TypeOK, NEW c \in Callers PROVE plan[c] \in Plan
<1>1. plan[c] \in Plans \cup {NoPlan}
  BY DEF TypeOK
<1>2. QED
  BY <1>1, Records, ConstantsAssumption

\* The rows built from an account.
LEMMA RowTyped ==
  ASSUME NEW n \in Names, NEW a \in Account PROVE RowOf(n, a) \in Row
  BY DEF RowOf, Row, Account

\* What a grant computes from the account it read is an account again.
LEMMA WrittenTyped ==
  ASSUME TypeOK, NEW c \in Callers, name[c] \in Names PROVE Written(c) \in Account
<1>1. /\ account[name[c]] \in Account /\ snap[c] \in Account
      /\ plan[c] \in Plan /\ began[c] \in Nat
  BY PlansTyped, ConstantsAssumption DEF TypeOK
<1>2. RenewedExpire(snap[c], plan[c], began[c]) \in Nat
  BY <1>1 DEF RenewedExpire, Later, Account, Plan
<1>3. RenewedLimit(snap[c], plan[c]) \in Nat
  BY <1>1 DEF RenewedLimit, Account, Plan
<1>4. Renewed(c, account[name[c]]) \in Account
  BY <1>1, <1>2, <1>3 DEF Renewed, Later, Account, Plan
<1>5. Created(c) \in Account
  BY <1>1 DEF Created, Account, Plan
<1>6. QED
  BY <1>4, <1>5 DEF Written

LEMMA OperatedTyped ==
  ASSUME NEW a \in Account, NEW o \in Ops \ {"grant"} PROVE Operated(o, a) \in Account
<1>1. CASE o = "disable"
  BY <1>1 DEF Operated, Account
<1>2. CASE o = "enable"
  BY <1>2 DEF Operated, Account
<1>3. CASE o = "revoke"
  BY <1>3 DEF Operated, Account
<1>4. CASE o = "delete"
  BY <1>4, Records DEF Operated
<1>5. QED
  BY <1>1, <1>2, <1>3, <1>4 DEF Ops

LEMMA StoredTyped ==
  ASSUME NEW row \in Row, NEW r \in Row, NEW o \in {"grant", "revoke", "delete"}
  PROVE  Stored(o, row, r) \in Row
<1>1. CASE o = "grant"
  BY <1>1 DEF Stored
<1>2. CASE o = "revoke"
  BY <1>2 DEF Stored, Row
<1>3. CASE o = "delete"
  BY <1>3, Records DEF Stored
<1>4. QED
  BY <1>1, <1>2, <1>3

-----------------------------------------------------------------------------
(* Type correctness needs to know which steps belong to which operation,   *)
(* and that a resolved call has a name.                                    *)

Shape ==
    \A c \in Callers :
        /\ pc[c] \in {"read", "write", "operate", "record"} => name[c] \in Names
        /\ pc[c] = "operate" => op[c] # "grant"
        /\ pc[c] = "record" => op[c] \in {"grant", "revoke", "delete"}
        /\ pc[c] \in {"probe", "read", "write"} => op[c] = "grant"

TypeInv == TypeOK /\ Shape

CallsTyped ==
    /\ pc \in [Callers -> CallPC] /\ op \in [Callers -> Ops]
    /\ plan \in [Callers -> Plans \cup {NoPlan}]
    /\ name \in [Callers -> Names \cup {NoName}]
    /\ began \in [Callers -> 0..MaxNow]
    /\ snap \in [Callers -> Account] /\ reply \in [Callers -> Row]

LEMMA ReturnTyped ==
  ASSUME TypeInv, NEW c \in Callers, Return(c)
  PROVE  CallsTyped' /\ Shape'
<1>1. "idle" \in CallPC /\ "grant" \in Ops
  BY DEF CallPC, Ops
<1>2. 0 \in 0..MaxNow
  BY ConstantsAssumption
<1>3. CallsTyped'
  BY <1>1, <1>2, Records DEF Return, GoTo, TypeInv, TypeOK, CallsTyped
<1>4. Shape'
  BY DEF Return, GoTo, TypeInv, TypeOK, Shape
<1>5. QED
  BY <1>3, <1>4

LEMMA KeepTyped ==
  ASSUME TypeInv, NEW c \in Callers, NEW row \in Row, Keep(c, row),
         name[c] \in Names, op[c] \in {"grant", "revoke", "delete"}
  PROVE  CallsTyped' /\ Shape'
<1>1. CallsTyped'
  BY DEF Keep, GoTo, TypeInv, TypeOK, CallsTyped, CallPC
<1>2. Shape'
  BY DEF Keep, GoTo, TypeInv, TypeOK, Shape
<1>3. QED
  BY <1>1, <1>2

LEMMA FaultTyped ==
  ASSUME TypeOK
  PROVE  /\ \A f : Fault(f) => faults' \in 0..MaxFaults /\ calm' \in BOOLEAN
         /\ Refusal => faults' \in 0..MaxFaults /\ calm' \in BOOLEAN
         /\ Fine => faults' \in 0..MaxFaults /\ calm' \in BOOLEAN
<1>1. faults < MaxFaults => faults + 1 \in 0..MaxFaults
  BY ConstantsAssumption DEF TypeOK
<1>2. QED
  BY <1>1 DEF Fault, Refusal, Fine, TypeOK

LEMMA TypeInvInit == Init => TypeInv
<1> SUFFICES ASSUME Init PROVE TypeInv
  OBVIOUS
<1>1. account \in [Names -> Account] /\ sub \in Row
  <2>1. Legacy \in Names
    BY DEF Names
  <2>2. RowOf(Legacy, LegacyAccount) \in Row
    BY <2>1, Records, RowTyped
  <2>3. QED
    BY <2>2, Records DEF Init
<1>2. CallsTyped
  BY Records, ConstantsAssumption DEF Init, CallsTyped, CallPC, Ops
<1>3. Shape
  BY DEF Init, Shape
<1>4. /\ now \in 0..MaxNow /\ drawn \subseteq RandomNames
      /\ calls \in 0..MaxCalls /\ faults \in 0..MaxFaults
      /\ credit \in [days: Nat, traffic: Nat] /\ source \subseteq {"plan", "bare"}
      /\ alone \subseteq Callers /\ calm \in BOOLEAN
  BY ConstantsAssumption DEF Init
<1>5. QED
  BY <1>1, <1>2, <1>3, <1>4 DEF TypeInv, TypeOK, CallsTyped

\* What a step leaves to show once the calls' own variables are typed.
LEMMA TypeFromParts ==
  ASSUME CallsTyped', Shape',
         account' \in [Names -> Account], sub' \in Row,
         now' \in 0..MaxNow, drawn' \subseteq RandomNames,
         calls' \in 0..MaxCalls, faults' \in 0..MaxFaults,
         credit' \in [days: Nat, traffic: Nat], source' \subseteq {"plan", "bare"},
         alone' \subseteq Callers, calm' \in BOOLEAN
  PROVE  TypeInv'
  BY DEF TypeInv, TypeOK, CallsTyped

LEMMA StepTyped ==
  ASSUME TypeInv, NEW c \in Callers,
         \/ Lookup(c) \/ Probe(c) \/ Read(c) \/ Operate(c) \/ Record(c) \/ Die(c)
  PROVE  TypeInv'
<1> USE DEF panelvars
<1>1. ASSUME Lookup(c) PROVE TypeInv'
  <2>1. PICK stored \in {sub.name, NoName} :
           /\ IF stored = sub.name THEN Fine ELSE Fault("db_error")
           /\ IF op[c] = "grant" /\ stored = NoName
              THEN GoTo(c, "probe") /\ UNCHANGED name
              ELSE /\ name' = [name EXCEPT ![c] =
                                  IF stored = NoName THEN Legacy ELSE stored]
                   /\ GoTo(c, IF op[c] = "grant" THEN "read" ELSE "operate")
    BY <1>1 DEF Lookup
  <2>2. stored \in Names \cup {NoName} /\ Legacy \in Names
    BY DEF TypeInv, TypeOK, Row, Names
  <2>3. faults' \in 0..MaxFaults /\ calm' \in BOOLEAN
    BY <2>1, FaultTyped DEF TypeInv
  <2>4. CASE op[c] = "grant" /\ stored = NoName
    <3>1. CallsTyped' /\ Shape'
      BY <1>1, <2>1, <2>4 DEF Lookup, GoTo, CallsTyped, Shape, TypeInv, TypeOK, CallPC
    <3>2. QED
      BY <1>1, <2>3, <3>1, TypeFromParts DEF Lookup, TypeInv, TypeOK
  <2>5. CASE ~(op[c] = "grant" /\ stored = NoName)
    <3>1. /\ name' = [name EXCEPT ![c] = IF stored = NoName THEN Legacy ELSE stored]
          /\ pc' = [pc EXCEPT ![c] = IF op[c] = "grant" THEN "read" ELSE "operate"]
      BY <2>1, <2>5 DEF GoTo
    <3>2. name'[c] \in Names
      BY <2>2, <3>1 DEF TypeInv, TypeOK
    <3>3. CallsTyped' /\ Shape'
      BY <1>1, <3>1, <3>2 DEF Lookup, CallsTyped, Shape, TypeInv, TypeOK, CallPC
    <3>4. QED
      BY <1>1, <2>3, <3>3, TypeFromParts DEF Lookup, TypeInv, TypeOK
  <2>6. QED
    BY <2>4, <2>5
<1>2. ASSUME Probe(c) PROVE TypeInv'
  <2>1. /\ faults' \in 0..MaxFaults /\ calm' \in BOOLEAN
        /\ drawn' \subseteq RandomNames
        /\ \E n \in Names : name' = [name EXCEPT ![c] = n]
    BY <1>2, FaultTyped DEF Probe, TypeInv, TypeOK, Names
  <2>2. CallsTyped' /\ Shape'
    BY <1>2, <2>1 DEF Probe, GoTo, CallsTyped, Shape, TypeInv, TypeOK, CallPC
  <2>3. QED
    BY <1>2, <2>1, <2>2, TypeFromParts DEF Probe, TypeInv, TypeOK
<1>3. ASSUME Read(c) PROVE TypeInv'
  <2>1. faults' \in 0..MaxFaults /\ calm' \in BOOLEAN
    BY <1>3, FaultTyped DEF Read, TypeInv
  <2>2. CallsTyped' /\ Shape'
    <3>1. CASE Return(c)
      BY <3>1, ReturnTyped
    <3>2. CASE ~Return(c)
      <4>1. pc[c] = "read" /\ account[name[c]] \in Account
        BY <1>3 DEF Read, TypeInv, TypeOK, Shape
      <4>2. /\ snap' = [snap EXCEPT ![c] = account[name[c]]]
            /\ pc' = [pc EXCEPT ![c] = "write"]
            /\ UNCHANGED <<op, plan, began, name, reply>>
        BY <1>3, <3>2 DEF Read, GoTo
      <4>3. QED
        BY <4>1, <4>2 DEF CallsTyped, Shape, TypeInv, TypeOK, CallPC
    <3>3. QED
      BY <3>1, <3>2
  <2>3. QED
    BY <1>3, <2>1, <2>2, TypeFromParts DEF Read, TypeInv, TypeOK
<1>4. ASSUME Operate(c) PROVE TypeInv'
  <2> DEFINE a == account[name[c]]
             after == IF Present(a) THEN Operated(op[c], a) ELSE a
  <2>1. name[c] \in Names /\ op[c] \in Ops \ {"grant"} /\ a \in Account
    BY <1>4 DEF Operate, TypeInv, TypeOK, Shape
  <2>2. after \in Account /\ RowOf(name[c], after) \in Row
    BY <2>1, OperatedTyped, RowTyped
  <2> HIDE DEF after, a
  <2>3. faults' \in 0..MaxFaults /\ calm' \in BOOLEAN
    BY <1>4, FaultTyped DEF Operate, TypeInv
  <2>4. account' = [account EXCEPT ![name[c]] = after] \/ account' = account
    BY <1>4 DEF Operate, a, after
  <2>5. account' \in [Names -> Account]
    BY <2>1, <2>2, <2>4 DEF TypeInv, TypeOK
  <2>6. \/ op[c] \in {"delete", "revoke"} /\ Keep(c, RowOf(name[c], after))
        \/ Return(c)
    BY <1>4 DEF Operate, a, after
  <2>7. CallsTyped' /\ Shape'
    BY <2>1, <2>2, <2>6, ReturnTyped, KeepTyped
  <2>8. QED
    BY <1>4, <2>3, <2>5, <2>7, TypeFromParts DEF Operate, TypeInv, TypeOK
<1>5. ASSUME Record(c) PROVE TypeInv'
  <2>1. op[c] \in {"grant", "revoke", "delete"} /\ reply[c] \in Row /\ sub \in Row
    BY <1>5 DEF Record, TypeInv, TypeOK, Shape
  <2>2. sub' \in Row
    BY <1>5, <2>1, StoredTyped DEF Record
  <2>3. CallsTyped' /\ Shape'
    BY <1>5, ReturnTyped DEF Record
  <2>4. QED
    BY <1>5, <2>2, <2>3, TypeFromParts DEF Record, Fine, TypeInv, TypeOK
<1>6. ASSUME Die(c) PROVE TypeInv'
  <2>1. CallsTyped' /\ Shape'
    BY <1>6, ReturnTyped DEF Die
  <2>2. faults' \in 0..MaxFaults /\ calm' \in BOOLEAN
    BY <1>6, FaultTyped DEF Die, TypeInv
  <2>3. QED
    BY <1>6, <2>1, <2>2, TypeFromParts DEF Die, TypeInv, TypeOK
<1>7. QED
  BY <1>1, <1>2, <1>3, <1>4, <1>5, <1>6

\* The two ways a write comes to a change of the panel, and to none.
LEMMA WriteCases ==
  ASSUME NEW c \in Callers, Write(c)
  PROVE  \/ /\ account' = [account EXCEPT ![name[c]] = Written(c)]
            /\ credit' = [days    |-> credit.days + plan[c].days,
                          traffic |-> credit.traffic + plan[c].traffic]
            /\ source' = source \cup SourceOf(c)
            /\ Keep(c, Reply(c)) \/ Return(c)
         \/ UNCHANGED panelvars /\ Return(c)
  BY DEF Write

LEMMA WriteTyped ==
  ASSUME TypeInv, NEW c \in Callers, Write(c) PROVE TypeInv'
<1>1. name[c] \in Names /\ op[c] = "grant" /\ plan[c] \in Plan
  BY PlansTyped DEF Write, TypeInv, TypeOK, Shape
<1>2. Written(c) \in Account /\ Reply(c) \in Row
  BY <1>1, WrittenTyped, RowTyped DEF Reply, TypeInv
<1>3. CallsTyped' /\ Shape'
  BY <1>1, <1>2, WriteCases, KeepTyped, ReturnTyped
<1>4. account' \in [Names -> Account]
  BY <1>1, <1>2, WriteCases DEF TypeInv, TypeOK, panelvars
<1>5. credit' \in [days: Nat, traffic: Nat]
  BY <1>1, WriteCases DEF TypeInv, TypeOK, panelvars, Plan
<1>6. source' \subseteq {"plan", "bare"}
  BY WriteCases DEF TypeInv, TypeOK, panelvars, SourceOf
<1>7. faults' \in 0..MaxFaults /\ calm' \in BOOLEAN
  BY FaultTyped DEF Write, TypeInv
<1>8. QED
  BY <1>3, <1>4, <1>5, <1>6, <1>7, TypeFromParts DEF Write, TypeInv, TypeOK

LEMMA BeginTyped ==
  ASSUME TypeInv, NEW c \in Callers, NEW o \in Ops, NEW p \in Plans \cup {NoPlan},
         Begin(c, o, p)
  PROVE  TypeInv'
<1>1. CallsTyped' /\ Shape'
  BY DEF Begin, Start, GoTo, CallsTyped, Shape, TypeInv, TypeOK, CallPC
<1>2. calls' \in 0..MaxCalls
  BY ConstantsAssumption DEF Begin, TypeInv, TypeOK
<1>3. alone' \subseteq Callers /\ calm' \in BOOLEAN
  BY DEF Begin, TypeInv, TypeOK
<1>4. QED
  BY <1>1, <1>2, <1>3, TypeFromParts DEF Begin, panelvars, TypeInv, TypeOK

LEMMA TypeInvNext == TypeInv /\ [Next]_vars => TypeInv'
<1> SUFFICES ASSUME TypeInv, [Next]_vars PROVE TypeInv'
  OBVIOUS
<1>1. ASSUME NEW c \in Callers, NEW p \in Plans, Begin(c, "grant", p) PROVE TypeInv'
  BY <1>1, BeginTyped DEF Ops
<1>2. ASSUME NEW c \in Callers, NEW o \in Ops \ {"grant"}, Begin(c, o, NoPlan)
      PROVE  TypeInv'
  BY <1>2, BeginTyped
<1>3. ASSUME NEW c \in Callers,
             Lookup(c) \/ Probe(c) \/ Read(c) \/ Operate(c) \/ Record(c) \/ Die(c)
      PROVE  TypeInv'
  BY <1>3, StepTyped
<1>4. ASSUME NEW c \in Callers, Write(c) PROVE TypeInv'
  BY <1>4, WriteTyped
<1>5. CASE Tick
  <2>1. now' \in 0..MaxNow
    BY <1>5, ConstantsAssumption DEF Tick, TypeInv, TypeOK
  <2>2. CallsTyped' /\ Shape'
    BY <1>5 DEF Tick, callvars, CallsTyped, Shape, TypeInv, TypeOK
  <2>3. QED
    BY <1>5, <2>1, <2>2, TypeFromParts DEF Tick, panelvars, cvars, TypeInv, TypeOK
<1>6. CASE UNCHANGED vars
  BY <1>6 DEF vars, panelvars, callvars, cvars, TypeInv, TypeOK, Shape
<1>7. QED
  BY <1>1, <1>2, <1>3, <1>4, <1>5, <1>6 DEF Next

\* Type correctness of accounts, row and calls.
THEOREM TypeCorrect == Spec => []TypeOK
<1>1. TypeInv => TypeOK
  BY DEF TypeInv
<1>2. QED
  BY <1>1, TypeInvInit, TypeInvNext, PTL DEF Spec

-----------------------------------------------------------------------------
(* Nothing for free.  What an account holds is covered by the days and the *)
(* traffic of all applied grants; so is every snapshot a call still works  *)
(* with, however old, because the credit only grows; so is therefore what  *)
(* is computed from a snapshot and written over whatever came between.     *)

Covered(a, t, paid, reasons) ==
    /\ a.expire <= t + paid.days
    /\ a.limit <= paid.traffic
    /\ Unlimited(a) => reasons # {}

CoveredInv ==
    /\ \A n \in Names : Covered(account[n], now, credit, source)
    /\ \A c \in Callers :
          began[c] <= now /\ Covered(snap[c], now, credit, source)

IInv == TypeInv /\ CoveredInv

Credit == [days: Nat, traffic: Nat]

\* Time and credit only grow, and what was covered stays so.
LEMMA CoverGrows ==
  ASSUME NEW a \in Account, NEW t1 \in Nat, NEW t2 \in Nat,
         NEW p1 \in Credit, NEW p2 \in Credit, NEW r1, NEW r2,
         t1 <= t2, p1.days <= p2.days, p1.traffic <= p2.traffic, r1 \subseteq r2,
         Covered(a, t1, p1, r1)
  PROVE  Covered(a, t2, p2, r2)
<1>1. /\ a.expire \in Nat /\ a.limit \in Nat
      /\ p1.days \in Nat /\ p2.days \in Nat /\ p1.traffic \in Nat /\ p2.traffic \in Nat
  BY DEF Account, Credit
<1>2. a.expire <= t2 + p2.days /\ a.limit <= p2.traffic
  BY <1>1 DEF Covered
<1>3. Unlimited(a) => r2 # {}
  BY DEF Covered
<1>4. QED
  BY <1>2, <1>3 DEF Covered

LEMMA AbsentCovered ==
  ASSUME NEW t \in Nat, NEW paid \in Credit, NEW reasons
  PROVE  Covered(Absent, t, paid, reasons)
<1>1. paid.days \in Nat /\ paid.traffic \in Nat
  BY DEF Credit
<1>2. QED
  BY <1>1 DEF Covered, Absent, Unlimited, Present

\* A grant writes no more than what its snapshot had and its plan adds.
LEMMA WrittenCovered ==
  ASSUME IInv, NEW c \in Callers, pc[c] = "write"
  PROVE  Covered(Written(c), now,
                 [days |-> credit.days + plan[c].days,
                  traffic |-> credit.traffic + plan[c].traffic],
                 source \cup SourceOf(c))
<1> DEFINE old == snap[c]  p == plan[c]  start == began[c]
<1>1. /\ old.expire \in Nat /\ old.limit \in Nat
      /\ p.days \in Nat /\ p.traffic \in Nat /\ start \in Nat /\ now \in Nat
      /\ credit.days \in Nat /\ credit.traffic \in Nat
  BY PlansTyped, ConstantsAssumption DEF IInv, TypeInv, TypeOK, Account, Plan
<1>2. /\ start <= now /\ old.expire <= now + credit.days
      /\ old.limit <= credit.traffic /\ (Unlimited(old) => source # {})
  BY DEF IInv, CoveredInv, Covered
<1>3. CASE Present(old)
  <2>1. RenewedExpire(old, p, start) <= now + (credit.days + p.days)
    BY <1>1, <1>2 DEF RenewedExpire, Later
  <2>2. RenewedLimit(old, p) <= credit.traffic + p.traffic
    BY <1>1, <1>2 DEF RenewedLimit
  <2>3. RenewedLimit(old, p) = 0 => source \cup SourceOf(c) # {}
    <3>1. CASE old.limit = 0
      BY <1>2, <1>3, <3>1 DEF Unlimited
    <3>2. CASE p.unlimited
      BY <1>3, <3>2 DEF SourceOf
    <3>3. CASE ~(old.limit = 0 \/ p.unlimited)
      <4>1. RenewedLimit(old, p) = old.limit + p.traffic
        BY <3>3 DEF RenewedLimit
      <4>2. RenewedLimit(old, p) # 0
        BY <1>1, <3>3, <4>1
      <4>3. QED
        BY <4>2
    <3>4. QED
      BY <3>1, <3>2, <3>3
  <2>4. /\ Written(c).expire = RenewedExpire(old, p, start)
        /\ Written(c).limit = RenewedLimit(old, p)
    BY <1>3 DEF Written, Renewed
  <2>5. QED
    BY <2>1, <2>2, <2>3, <2>4 DEF Covered, Unlimited
<1>4. CASE ~Present(old)
  <2>1. Written(c).expire = start + p.days /\ Written(c).limit = p.traffic
    BY <1>4 DEF Written, Created
  <2>2. Written(c).expire <= now + (credit.days + p.days)
    BY <1>1, <1>2, <2>1
  <2>3. Written(c).limit <= credit.traffic + p.traffic
    BY <1>1, <2>1
  <2>4. p.traffic = 0 => SourceOf(c) # {}
    BY <1>4 DEF SourceOf
  <2>5. QED
    BY <2>1, <2>2, <2>3, <2>4 DEF Covered, Unlimited
<1>5. QED
  BY <1>3, <1>4

\* An operation changes neither expiry nor limit, or removes the account.
LEMMA OperatedCovered ==
  ASSUME NEW a \in Account, NEW o \in Ops \ {"grant"}, Present(a),
         NEW t \in Nat, NEW paid \in Credit, NEW reasons, Covered(a, t, paid, reasons)
  PROVE  Covered(Operated(o, a), t, paid, reasons)
<1>1. CASE o = "delete"
  BY <1>1, AbsentCovered DEF Operated
<1>2. CASE o # "delete"
  <2>1. o = "disable" \/ o = "enable" \/ o = "revoke"
    BY <1>2 DEF Ops
  <2>2. Operated(o, a).expire = a.expire /\ Operated(o, a).limit = a.limit
    <3>1. CASE o = "disable"
      BY <3>1 DEF Operated, Account
    <3>2. CASE o = "enable"
      BY <3>2 DEF Operated, Account
    <3>3. CASE o = "revoke"
      BY <3>3 DEF Operated, Account
    <3>4. QED
      BY <2>1, <3>1, <3>2, <3>3
  <2>3. QED
    BY <2>2 DEF Covered, Unlimited
<1>3. QED
  BY <1>1, <1>2

\* Steps after which time and credit are no less, the accounts are covered,
\* and every call has a covered snapshot, keep the invariant.
LEMMA CoveredStep ==
  ASSUME IInv, TypeInv',
         now <= now', credit.days <= credit'.days, credit.traffic <= credit'.traffic,
         source \subseteq source',
         \A n \in Names :
            account'[n] = account[n] \/ Covered(account'[n], now', credit', source'),
         \A c \in Callers : began'[c] \in {began[c], 0, now'},
         \A c \in Callers :
            \/ snap'[c] \in {snap[c], Absent}
            \/ \E n \in Names : snap'[c] = account[n]
  PROVE  CoveredInv'
<1>1. /\ now \in Nat /\ now' \in Nat /\ credit \in Credit /\ credit' \in Credit
  BY ConstantsAssumption DEF IInv, TypeInv, TypeOK, Credit
<1>2. ASSUME NEW a \in Account, Covered(a, now, credit, source)
      PROVE  Covered(a, now', credit', source')
  BY <1>1, <1>2, CoverGrows
<1>3. ASSUME NEW n \in Names PROVE Covered(account'[n], now', credit', source')
  <2>1. account[n] \in Account /\ Covered(account[n], now, credit, source)
    BY DEF IInv, TypeInv, TypeOK, CoveredInv
  <2>2. QED
    BY <1>2, <2>1
<1>4. ASSUME NEW c \in Callers
      PROVE  began'[c] <= now' /\ Covered(snap'[c], now', credit', source')
  <2>1. /\ began[c] \in Nat /\ began[c] <= now /\ snap[c] \in Account
        /\ Covered(snap[c], now, credit, source)
    BY ConstantsAssumption DEF IInv, TypeInv, TypeOK, CoveredInv
  <2>2. began'[c] <= now'
    BY <1>1, <2>1
  <2>3. ASSUME snap'[c] = snap[c] PROVE Covered(snap'[c], now', credit', source')
    <3>1. Covered(snap[c], now', credit', source')
      BY <1>2, <2>1
    <3>2. QED
      BY <2>3, <3>1
  <2>4. ASSUME snap'[c] = Absent PROVE Covered(snap'[c], now', credit', source')
    <3>1. Covered(Absent, now', credit', source')
      BY <1>1, AbsentCovered
    <3>2. QED
      BY <2>4, <3>1
  <2>5. ASSUME NEW n \in Names, snap'[c] = account[n]
        PROVE  Covered(snap'[c], now', credit', source')
    <3>1. account[n] \in Account /\ Covered(account[n], now, credit, source)
      BY DEF IInv, TypeInv, TypeOK, CoveredInv
    <3>2. QED
      BY <1>2, <2>5, <3>1
  <2>6. QED
    BY <2>2, <2>3, <2>4, <2>5
<1>5. QED
  BY <1>3, <1>4 DEF CoveredInv

\* Every step of every call, and the time, does only that.
LEMMA CoveredNext == IInv /\ [Next]_vars => CoveredInv'
<1> SUFFICES ASSUME IInv, [Next]_vars PROVE CoveredInv'
  OBVIOUS
<1>1. TypeInv'
  BY TypeInvNext DEF IInv
<1>2. /\ now \in Nat /\ credit.days \in Nat /\ credit.traffic \in Nat
      /\ account \in [Names -> Account] /\ snap \in [Callers -> Account]
      /\ began \in [Callers -> 0..MaxNow]
  BY ConstantsAssumption DEF IInv, TypeInv, TypeOK
<1>3. ASSUME NEW c \in Callers, NEW o, NEW p, Begin(c, o, p) PROVE CoveredInv'
  <2>1. \A d \in Callers : began'[d] \in {began[d], 0, now'}
    BY <1>2, <1>3 DEF Begin, Start
  <2>2. QED
    BY <1>1, <1>2, <1>3, <2>1, CoveredStep DEF Begin, panelvars
<1>4. ASSUME NEW c \in Callers, Lookup(c) \/ Probe(c) PROVE CoveredInv'
  BY <1>1, <1>2, <1>4, CoveredStep DEF Lookup, Probe, panelvars
<1>5. ASSUME NEW c \in Callers, Read(c) PROVE CoveredInv'
  <2>1. name[c] \in Names
    BY <1>5 DEF Read, IInv, TypeInv, Shape
  <2>2. /\ \A d \in Callers : began'[d] \in {began[d], 0, now'}
        /\ \A d \in Callers :
              \/ snap'[d] \in {snap[d], Absent}
              \/ \E n \in Names : snap'[d] = account[n]
    BY <1>2, <1>5, <2>1 DEF Read, Return
  <2>3. QED
    BY <1>1, <1>2, <1>5, <2>2, CoveredStep DEF Read, panelvars
<1>6. ASSUME NEW c \in Callers, Write(c) PROVE CoveredInv'
  <2>1. /\ name[c] \in Names /\ pc[c] = "write"
        /\ plan[c].days \in Nat /\ plan[c].traffic \in Nat
    BY <1>6, PlansTyped DEF Write, IInv, TypeInv, Shape, Plan
  <2>2. now' = now
    BY <1>6 DEF Write
  <2>3. CASE UNCHANGED panelvars /\ Return(c)
    BY <1>1, <1>2, <2>2, <2>3, CoveredStep DEF Return, panelvars
  <2>4. CASE ~(UNCHANGED panelvars /\ Return(c))
    <3>1. /\ account' = [account EXCEPT ![name[c]] = Written(c)]
          /\ credit' = [days    |-> credit.days + plan[c].days,
                        traffic |-> credit.traffic + plan[c].traffic]
          /\ source' = source \cup SourceOf(c)
          /\ Keep(c, Reply(c)) \/ Return(c)
      BY <1>6, <2>4, WriteCases
    <3>2. Covered(Written(c), now', credit', source')
      BY <2>1, <2>2, <3>1, WrittenCovered
    <3>3. \A n \in Names :
             account'[n] = account[n] \/ Covered(account'[n], now', credit', source')
      BY <1>2, <2>1, <3>1, <3>2
    <3>4. /\ credit.days <= credit'.days /\ credit.traffic <= credit'.traffic
          /\ now <= now' /\ source \subseteq source'
      BY <1>2, <2>1, <2>2, <3>1
    <3>5. /\ \A d \in Callers : began'[d] \in {began[d], 0, now'}
          /\ \A d \in Callers : snap'[d] \in {snap[d], Absent}
      BY <1>2, <3>1 DEF Keep, Return
    <3>6. QED
      BY <1>1, <3>3, <3>4, <3>5, CoveredStep
  <2>5. QED
    BY <2>3, <2>4
<1>7. ASSUME NEW c \in Callers, Operate(c) PROVE CoveredInv'
  <2> DEFINE a == account[name[c]]
             after == IF Present(a) THEN Operated(op[c], a) ELSE a
  <2>1. /\ name[c] \in Names /\ op[c] \in Ops \ {"grant"} /\ a \in Account
        /\ Covered(a, now, credit, source)
    BY <1>7 DEF Operate, IInv, TypeInv, TypeOK, Shape, CoveredInv
  <2>2. Covered(after, now, credit, source)
    <3>1. now \in Nat /\ credit \in Credit
      BY <1>2 DEF IInv, TypeInv, TypeOK, Credit
    <3>2. CASE Present(a)
      BY <2>1, <3>1, <3>2, OperatedCovered
    <3>3. CASE ~Present(a)
      BY <2>1, <3>3
    <3>4. QED
      BY <3>2, <3>3
  <2>3. account' = [account EXCEPT ![name[c]] = after] \/ account' = account
    BY <1>7 DEF Operate
  <2>4. /\ credit' = credit /\ source' = source /\ now' = now
        /\ Return(c) \/ Keep(c, RowOf(name[c], after))
    BY <1>7 DEF Operate
  <2> HIDE DEF after, a
  <2>5. \A n \in Names :
           account'[n] = account[n] \/ Covered(account'[n], now', credit', source')
    BY <1>2, <2>1, <2>2, <2>3, <2>4
  <2>6. /\ \A d \in Callers : began'[d] \in {began[d], 0, now'}
        /\ \A d \in Callers : snap'[d] \in {snap[d], Absent}
    BY <1>2, <2>4 DEF Keep, Return
  <2>7. QED
    BY <1>1, <1>2, <2>4, <2>5, <2>6, CoveredStep
<1>8. ASSUME NEW c \in Callers, Record(c) \/ Die(c) PROVE CoveredInv'
  <2>1. UNCHANGED panelvars /\ now' = now /\ Return(c)
    BY <1>8 DEF Record, Die
  <2>2. QED
    BY <1>1, <1>2, <2>1, CoveredStep DEF Return, panelvars
<1>9. CASE Tick
  BY <1>1, <1>2, <1>9, CoveredStep DEF Tick, panelvars, callvars
<1>10. CASE UNCHANGED vars
  BY <1>1, <1>2, <1>10, CoveredStep DEF vars, panelvars, callvars
<1>11. QED
  BY <1>3, <1>4, <1>5, <1>6, <1>7, <1>8, <1>9, <1>10 DEF Next

LEMMA CoveredInit == Init => CoveredInv
<1> SUFFICES ASSUME Init PROVE CoveredInv
  OBVIOUS
<1>1. /\ now = 0 /\ credit = [days |-> 1, traffic |-> 1] /\ source = {}
      /\ \A c \in Callers : began[c] = 0 /\ snap[c] = Absent
      /\ \A n \in Names : account[n] \in {Absent, LegacyAccount}
  BY DEF Init
<1>2. Covered(LegacyAccount, now, credit, source)
  BY <1>1 DEF Covered, LegacyAccount, Unlimited, Present
<1>3. Covered(Absent, now, credit, source)
  BY <1>1 DEF Covered, Absent, Unlimited, Present
<1>4. QED
  BY <1>1, <1>2, <1>3 DEF CoveredInv

LEMMA Invariant == Spec => []IInv
<1>1. Init => IInv
  BY TypeInvInit, CoveredInit DEF IInv
<1>2. IInv /\ [Next]_vars => IInv'
  BY TypeInvNext, CoveredNext DEF IInv
<1>3. QED
  BY <1>1, <1>2, PTL DEF Spec

\* However grants, operations, faults and days interleave, no account runs
\* longer, or has more traffic, than all applied grants together brought, and
\* none is unlimited without a grant that makes it so.
THEOREM GrantsArePaid == Spec => []NothingIsFree
<1>1. IInv => NothingIsFree
  BY DEF IInv, CoveredInv, Covered, NothingIsFree
<1>2. QED
  BY <1>1, Invariant, PTL

-----------------------------------------------------------------------------
(* A purchase never worsens what the user has.  A call that runs alone has  *)
(* everybody else idle, so that the account it writes to is still the one   *)
(* it has read, and the one it will store is still the one it wrote.        *)

Undisturbed ==
    \A c \in alone :
        /\ \A d \in Callers : d = c \/ Idle(d)
        /\ pc[c] = "write" => snap[c] = account[name[c]]
        /\ pc[c] = "record" /\ op[c] \in {"grant", "revoke"} =>
              reply[c] = RowOf(name[c], account[name[c]])

AloneInv == TypeInv /\ Undisturbed

\* A step of a call that is under way is a step of the one that runs alone.
LEMMA UndisturbedStep ==
  ASSUME AloneInv, NEW c \in Callers, ~Idle(c), alone' = alone,
         \A d \in Callers : d # c => pc'[d] = pc[d],
         /\ pc'[c] = "write" => snap'[c] = account'[name'[c]]
         /\ pc'[c] = "record" /\ op'[c] \in {"grant", "revoke"} =>
               reply'[c] = RowOf(name'[c], account'[name'[c]])
  PROVE  Undisturbed'
<1> SUFFICES ASSUME NEW e \in alone
             PROVE  (/\ \A d \in Callers : d = e \/ Idle(d)
                     /\ pc[e] = "write" => snap[e] = account[name[e]]
                     /\ pc[e] = "record" /\ op[e] \in {"grant", "revoke"} =>
                           reply[e] = RowOf(name[e], account[name[e]]))'
  BY DEF Undisturbed
<1>1. e = c
  BY DEF AloneInv, Undisturbed
<1>2. \A d \in Callers : d = c \/ Idle(d)'
  BY <1>1 DEF AloneInv, Undisturbed, Idle
<1>3. QED
  BY <1>1, <1>2

\* Who returns has nothing left to write or to store.
LEMMA UndisturbedReturn ==
  ASSUME AloneInv, NEW c \in Callers, ~Idle(c), Return(c), alone' = alone
  PROVE  Undisturbed'
<1>1. pc'[c] = "idle" /\ \A d \in Callers : d # c => pc'[d] = pc[d]
  BY DEF Return, GoTo, AloneInv, TypeInv, TypeOK
<1>2. QED
  BY <1>1, UndisturbedStep

\* Who keeps the panel's answer keeps what the panel holds.
LEMMA UndisturbedKeep ==
  ASSUME AloneInv, NEW c \in Callers, ~Idle(c), alone' = alone, name[c] \in Names,
         NEW after, account' = [account EXCEPT ![name[c]] = after],
         Keep(c, RowOf(name[c], after))
  PROVE  Undisturbed'
<1>1. /\ pc'[c] = "record" /\ \A d \in Callers : d # c => pc'[d] = pc[d]
      /\ reply'[c] = RowOf(name[c], after) /\ name'[c] = name[c]
  BY DEF Keep, GoTo, AloneInv, TypeInv, TypeOK
<1>2. account'[name[c]] = after
  BY DEF AloneInv, TypeInv, TypeOK
<1>3. QED
  BY <1>1, <1>2, UndisturbedStep

LEMMA UndisturbedNext == AloneInv /\ [Next]_vars => Undisturbed'
<1> SUFFICES ASSUME AloneInv, [Next]_vars PROVE Undisturbed'
  OBVIOUS
<1>a. /\ pc \in [Callers -> CallPC] /\ snap \in [Callers -> Account]
      /\ name \in [Callers -> Names \cup {NoName}] /\ alone \subseteq Callers
  BY DEF AloneInv, TypeInv, TypeOK
<1>1. ASSUME NEW c \in Callers, NEW o, NEW p, Begin(c, o, p) PROVE Undisturbed'
  <2>1. CASE \A d \in Callers : Idle(d)
    <3>1. alone' = {c} /\ pc'[c] = "lookup" /\ \A d \in Callers : d # c => pc'[d] = pc[d]
      BY <1>1, <1>a, <2>1 DEF Begin, GoTo
    <3>2. QED
      BY <2>1, <3>1 DEF Undisturbed, Idle
  <2>2. CASE ~ \A d \in Callers : Idle(d)
    <3>1. alone' = {}
      BY <1>1, <2>2 DEF Begin
    <3>2. QED
      BY <3>1 DEF Undisturbed
  <2>3. QED
    BY <2>1, <2>2
<1>2. ASSUME NEW c \in Callers, Lookup(c) \/ Probe(c) PROVE Undisturbed'
  <2>1. ~Idle(c) /\ alone' = alone
    BY <1>2 DEF Lookup, Probe, Idle
  <2>2. \E next \in {"probe", "read", "operate"} : pc' = [pc EXCEPT ![c] = next]
    BY <1>2 DEF Lookup, Probe, GoTo
  <2>3. pc'[c] \notin {"write", "record"} /\ \A d \in Callers : d # c => pc'[d] = pc[d]
    BY <1>a, <2>2
  <2>4. QED
    BY <2>1, <2>3, UndisturbedStep
<1>3. ASSUME NEW c \in Callers, Read(c) PROVE Undisturbed'
  <2>1. ~Idle(c) /\ alone' = alone /\ account' = account
    BY <1>3 DEF Read, Idle, panelvars
  <2>2. CASE Return(c)
    BY <2>1, <2>2, UndisturbedReturn
  <2>3. CASE ~Return(c)
    <3>1. /\ snap'[c] = account[name[c]] /\ name'[c] = name[c] /\ pc'[c] = "write"
          /\ \A d \in Callers : d # c => pc'[d] = pc[d]
      BY <1>3, <1>a, <2>3 DEF Read, GoTo
    <3>2. QED
      BY <2>1, <3>1, UndisturbedStep
  <2>4. QED
    BY <2>2, <2>3
<1>4. ASSUME NEW c \in Callers, Write(c) PROVE Undisturbed'
  <2>1. ~Idle(c) /\ alone' = alone /\ name[c] \in Names
    BY <1>4 DEF Write, Idle, AloneInv, TypeInv, Shape
  <2>2. \/ Return(c)
        \/ account' = [account EXCEPT ![name[c]] = Written(c)] /\ Keep(c, RowOf(name[c], Written(c)))
    BY <1>4 DEF Write, Reply
  <2>3. QED
    BY <2>1, <2>2, UndisturbedReturn, UndisturbedKeep
<1>5. ASSUME NEW c \in Callers, Operate(c) PROVE Undisturbed'
  <2> DEFINE a == account[name[c]]
             after == IF Present(a) THEN Operated(op[c], a) ELSE a
  <2>1. ~Idle(c) /\ alone' = alone /\ name[c] \in Names
    BY <1>5 DEF Operate, Idle, AloneInv, TypeInv, Shape
  <2>2. \/ Return(c)
        \/ account' = [account EXCEPT ![name[c]] = after] /\ Keep(c, RowOf(name[c], after))
    BY <1>5 DEF Operate
  <2> HIDE DEF after
  <2>3. QED
    BY <2>1, <2>2, UndisturbedReturn, UndisturbedKeep
<1>6. ASSUME NEW c \in Callers, Record(c) \/ Die(c) PROVE Undisturbed'
  BY <1>6, UndisturbedReturn DEF Record, Die, Idle
<1>7. CASE Tick \/ UNCHANGED vars
  BY <1>7 DEF Tick, vars, panelvars, callvars, cvars, AloneInv, Undisturbed, Idle
<1>8. QED
  BY <1>1, <1>2, <1>3, <1>4, <1>5, <1>6, <1>7 DEF Next

LEMMA AloneInvariant == Spec => []AloneInv
<1>1. Init => AloneInv
  <2>1. Init => Undisturbed
    BY DEF Init, Undisturbed
  <2>2. QED
    BY <2>1, TypeInvInit DEF AloneInv
<1>2. AloneInv /\ [Next]_vars => AloneInv'
  BY TypeInvNext, UndisturbedNext DEF AloneInv
<1>3. QED
  BY <1>1, <1>2, PTL DEF Spec

\* What is computed from the account as it is is no worse than the account.
LEMMA WrittenIsBetter ==
  ASSUME TypeOK, NEW c \in Callers, name[c] \in Names,
         snap[c] = account[name[c]], Present(account[name[c]])
  PROVE  AtLeast(Written(c), account[name[c]])
<1> DEFINE old == account[name[c]]  p == plan[c]  start == began[c]
<1>1. /\ old.expire \in Nat /\ old.limit \in Nat /\ old.devices \in Nat
      /\ p.days \in Nat /\ p.traffic \in Nat /\ p.devices \in Nat /\ start \in Nat
  BY PlansTyped, ConstantsAssumption DEF TypeOK, Account, Plan
<1>2. Written(c) = [expire  |-> RenewedExpire(old, p, start),
                    limit   |-> RenewedLimit(old, p),
                    devices |-> IF p.traffic_only THEN old.devices
                                ELSE Later(p.devices, old.devices),
                    status  |-> "active",
                    link    |-> old.link]
  BY DEF Written, Renewed
<1>3. RenewedExpire(old, p, start) >= old.expire
  BY <1>1 DEF RenewedExpire, Later
<1>4. \/ RenewedLimit(old, p) = 0
      \/ old.limit # 0 /\ RenewedLimit(old, p) >= old.limit
  BY <1>1 DEF RenewedLimit
<1>5. (IF p.traffic_only THEN old.devices ELSE Later(p.devices, old.devices)) >= old.devices
  BY <1>1 DEF Later
<1> HIDE DEF old, p, start
<1>6. AtLeast(Written(c), old)
  BY <1>2, <1>3, <1>4, <1>5 DEF AtLeast
<1>7. QED
  BY <1>6 DEF old

\* An operation leaves expiry, limit and devices alone, or removes the account.
LEMMA OperatedIsAtLeast ==
  ASSUME NEW a \in Account, NEW o \in Ops \ {"grant"}, Present(Operated(o, a))
  PROVE  AtLeast(Operated(o, a), a)
<1>1. a.expire \in Nat /\ a.limit \in Nat /\ a.devices \in Nat
  BY DEF Account
<1>2. CASE o = "disable"
  BY <1>1, <1>2 DEF Operated, Account, AtLeast
<1>3. CASE o = "enable"
  BY <1>1, <1>3 DEF Operated, Account, AtLeast
<1>4. CASE o = "revoke"
  BY <1>1, <1>4 DEF Operated, Account, AtLeast
<1>5. CASE o = "delete"
  BY <1>5 DEF Operated, Present, Absent
<1>6. QED
  BY <1>2, <1>3, <1>4, <1>5 DEF Ops

Better ==
    \A n \in Names :
        Present(account[n]) /\ Present(account'[n]) /\ (\E c \in alone : pc[c] # pc'[c])
            => AtLeast(account'[n], account[n])

\* An account that a step leaves alone is no worse, and only a write or an
\* operation touches one.
LEMMA BetterOrSame ==
  ASSUME TypeOK, NEW n \in Names, NEW after,
         account' \in {account, [account EXCEPT ![n] = after]},
         (\E c \in alone : pc[c] # pc'[c]) /\ Present(account[n]) /\ Present(after) =>
             AtLeast(after, account[n])
  PROVE  Better
<1>1. \A m \in Names : account[m].expire \in Nat /\ account[m].limit \in Nat
                       /\ account[m].devices \in Nat
  BY DEF TypeOK, Account
<1>2. \A m \in Names : AtLeast(account[m], account[m])
  BY <1>1 DEF AtLeast
<1>3. \A m \in Names : account'[m] = account[m] \/ (m = n /\ account'[m] = after)
  BY DEF TypeOK
<1>4. QED
  BY <1>2, <1>3 DEF Better

LEMMA BetterNext == AloneInv /\ [Next]_vars => [Better]_vars
<1> SUFFICES ASSUME AloneInv, [Next]_vars PROVE Better \/ UNCHANGED vars
  OBVIOUS
<1>a. TypeOK /\ \A c \in alone, d \in Callers : d = c \/ Idle(d)
  BY DEF AloneInv, TypeInv, Undisturbed
<1>b. alone \subseteq Callers /\ pc \in [Callers -> CallPC]
  BY DEF AloneInv, TypeInv, TypeOK
<1>1. ASSUME NEW c \in Callers, Write(c) PROVE Better
  <2>1. name[c] \in Names /\ pc[c] = "write" /\ ~Idle(c)
    BY <1>1 DEF Write, Idle, AloneInv, TypeInv, Shape
  <2>2. account' \in {account, [account EXCEPT ![name[c]] = Written(c)]}
    BY <1>1, WriteCases DEF panelvars
  <2>3. ASSUME NEW e \in alone, Present(account[name[c]])
        PROVE  AtLeast(Written(c), account[name[c]])
    <3>1. e = c
      BY <1>a, <2>1
    <3>2. snap[c] = account[name[c]]
      BY <2>1, <2>3, <3>1 DEF AloneInv, Undisturbed
    <3>3. QED
      BY <1>a, <2>1, <2>3, <3>2, WrittenIsBetter
  <2>4. QED
    BY <1>a, <2>1, <2>2, <2>3, BetterOrSame
<1>2. ASSUME NEW c \in Callers, Operate(c) PROVE Better
  <2> DEFINE a == account[name[c]]
             after == IF Present(a) THEN Operated(op[c], a) ELSE a
  <2>1. name[c] \in Names /\ op[c] \in Ops \ {"grant"} /\ a \in Account
    BY <1>2 DEF Operate, AloneInv, TypeInv, TypeOK, Shape
  <2>2. account' \in {account, [account EXCEPT ![name[c]] = after]}
    BY <1>2 DEF Operate
  <2>3. Present(a) /\ Present(after) => AtLeast(after, a)
    BY <2>1, OperatedIsAtLeast
  <2> HIDE DEF after
  <2>4. QED
    BY <1>a, <2>1, <2>2, <2>3, BetterOrSame
<1>3. ASSUME account' = account PROVE Better
  <2>1. \A n \in Names : account[n] \in Account
    BY <1>a DEF TypeOK
  <2>2. \A n \in Names : AtLeast(account[n], account[n])
    BY <2>1 DEF AtLeast, Account
  <2>3. QED
    BY <1>3, <2>2 DEF Better
<1>4. ASSUME NEW c \in Callers,
             \/ \E o, p : Begin(c, o, p)
             \/ Lookup(c) \/ Probe(c) \/ Read(c) \/ Record(c) \/ Die(c)
      PROVE  account' = account
  BY <1>4 DEF Begin, Lookup, Probe, Read, Record, Die, panelvars
<1>5. Tick => account' = account
  BY DEF Tick, panelvars
<1>6. QED
  BY <1>1, <1>2, <1>3, <1>4, <1>5 DEF Next

\* No call that runs alone shortens an account, lowers its traffic limit or
\* its number of devices, or takes unlimited traffic away, whatever earlier
\* calls that overlapped have made of the account.
THEOREM NothingWorsened == Spec => NeverWorse
<1>1. AloneInv /\ [Next]_vars => [Better]_vars
  BY BetterNext
<1>2. Spec => [][Better]_vars
  BY <1>1, AloneInvariant, PTL DEF Spec
<1>3. QED
  BY <1>2 DEF NeverWorse, Better

-----------------------------------------------------------------------------
(* While calls come one after the other and nothing fails, the row is true. *)
(* Between two calls it names the only account (Mapped); within a call, the *)
(* call knows that name and what the row is about to miss (Due).            *)

\* No account but that of name x.
Only(x) == \A n \in Names : Present(account[n]) => n = x

OneAccount == \A m, n \in Names : Present(account[m]) /\ Present(account[n]) => m = n

Mapped ==
    /\ sub.name = NoName => Only(Legacy)
    /\ sub.name # NoName => /\ Present(account[sub.name])
                            /\ sub = RowOf(sub.name, account[sub.name])

Due(c) ==
    /\ pc[c] = "probe" => sub.name = NoName
    /\ pc[c] \in {"read", "write", "operate"} =>
          /\ sub.name = NoName => Only(name[c])
          /\ sub.name # NoName => name[c] = sub.name
    /\ pc[c] = "record" /\ op[c] = "grant" =>
          Present(account[name[c]]) /\ reply[c] = RowOf(name[c], account[name[c]])
    /\ pc[c] = "record" /\ op[c] = "revoke" =>
          /\ sub.name = NoName => Only(Legacy)
          /\ sub.name # NoName =>
                /\ Present(account[sub.name])
                /\ [sub EXCEPT !.link = reply[c].link] = RowOf(sub.name, account[sub.name])
    /\ pc[c] = "record" /\ op[c] = "delete" => \A n \in Names : ~Present(account[n])

InTurn ==
    /\ \A c, d \in Callers : Idle(c) \/ Idle(d) \/ c = d
    /\ OneAccount
    /\ (\A c \in Callers : pc[c] # "record") => Mapped
    /\ \A c \in Callers : Due(c)

CalmInv == TypeInv /\ (calm => InTurn)

\* Nobody but c is at work, and what its next step needs to know follows.
LEMMA InTurnStep ==
  ASSUME TypeInv, InTurn, NEW c \in Callers, ~Idle(c),
         \A d \in Callers : d # c => pc'[d] = pc[d],
         OneAccount', pc'[c] # "record" => Mapped', Due(c)'
  PROVE  InTurn'
<1>1. \A d \in Callers : d # c => Idle(d) /\ pc'[d] = "idle"
  BY DEF InTurn, Idle
<1>2. \A d \in Callers : d # c => Due(d)'
  BY <1>1 DEF Due
<1>3. QED
  BY <1>1, <1>2 DEF InTurn, Idle

\* Nobody is at the row, so that it is true now.
LEMMA MappedNow ==
  ASSUME InTurn, NEW c \in Callers, ~Idle(c), pc[c] # "record"
  PROVE  Mapped
BY DEF InTurn, Idle

\* A call that has resolved its name has the only name there is.
LEMMA OnlyNamed ==
  ASSUME TypeInv, InTurn, NEW c \in Callers, pc[c] \in {"read", "write", "operate"}
  PROVE  Only(name[c]) /\ Mapped /\ name[c] \in Names /\ (sub.name # NoName => sub.name = name[c])
<1>1. Mapped /\ Due(c) /\ OneAccount /\ name[c] \in Names
  BY MappedNow DEF InTurn, Idle, TypeInv, Shape
<1>2. CASE sub.name = NoName
  BY <1>1, <1>2 DEF Due
<1>3. CASE sub.name # NoName
  BY <1>1, <1>3 DEF Due, Mapped, OneAccount, Only
<1>4. QED
  BY <1>1, <1>2, <1>3

LEMMA InTurnReturn ==
  ASSUME TypeInv, InTurn, NEW c \in Callers, ~Idle(c), Return(c), OneAccount', Mapped'
  PROVE  InTurn'
<1>1. pc'[c] = "idle" /\ \A d \in Callers : d # c => pc'[d] = pc[d]
  BY DEF Return, GoTo, TypeInv, TypeOK
<1>2. Due(c)'
  BY <1>1 DEF Due
<1>3. QED
  BY <1>1, <1>2, InTurnStep

LEMMA InTurnBegin ==
  ASSUME TypeInv, InTurn, NEW c \in Callers, NEW o, NEW p, Begin(c, o, p), calm'
  PROVE  InTurn'
<1>1. /\ \A d \in Callers : Idle(d)
      /\ pc' = [pc EXCEPT ![c] = "lookup"] /\ UNCHANGED <<account, sub>>
  BY DEF Begin, GoTo, panelvars
<1>2. Mapped /\ OneAccount
  BY <1>1 DEF InTurn, Idle
<1>3. pc'[c] = "lookup" /\ \A d \in Callers : d # c => pc'[d] = "idle"
  BY <1>1 DEF TypeInv, TypeOK, Idle
<1>4. \A d \in Callers : Due(d)'
  BY <1>3 DEF Due
<1>5. Mapped' /\ OneAccount'
  BY <1>1, <1>2 DEF Mapped, OneAccount, Only
<1>6. QED
  BY <1>3, <1>4, <1>5 DEF InTurn, Idle

LEMMA InTurnFind ==
  ASSUME TypeInv, InTurn, NEW c \in Callers, Lookup(c) \/ Probe(c) \/ Read(c), calm'
  PROVE  InTurn'
<1>a. pc \in [Callers -> CallPC] /\ name \in [Callers -> Names \cup {NoName}]
  BY DEF TypeInv, TypeOK
<1>b. /\ ~Idle(c) /\ pc[c] # "record" /\ UNCHANGED <<account, sub>>
  BY DEF Lookup, Probe, Read, Idle, panelvars
<1>c. Mapped /\ OneAccount /\ Mapped' /\ OneAccount'
  BY <1>b, MappedNow DEF InTurn, Mapped, OneAccount, Only
<1>1. CASE Lookup(c)
  <2>1. \/ sub.name = NoName /\ pc' = [pc EXCEPT ![c] = "probe"]
        \/ /\ name' = [name EXCEPT ![c] = IF sub.name = NoName THEN Legacy ELSE sub.name]
           /\ \E next \in {"read", "operate"} : pc' = [pc EXCEPT ![c] = next]
    BY <1>1 DEF Lookup, Fault, GoTo
  <2>2. \A d \in Callers : d # c => pc'[d] = pc[d]
    BY <1>a, <2>1
  <2>3. CASE sub.name = NoName /\ pc' = [pc EXCEPT ![c] = "probe"]
    <3>1. pc'[c] = "probe" /\ sub'.name = NoName
      BY <1>a, <1>b, <2>3
    <3>2. Due(c)'
      BY <3>1 DEF Due
    <3>3. QED
      BY <1>b, <1>c, <2>2, <3>2, InTurnStep
  <2>4. CASE ~(sub.name = NoName /\ pc' = [pc EXCEPT ![c] = "probe"])
    <3>1. /\ name'[c] = IF sub.name = NoName THEN Legacy ELSE sub.name
          /\ pc'[c] \in {"read", "operate"}
      BY <1>a, <2>1, <2>4
    <3>2. Due(c)'
      BY <1>b, <1>c, <3>1 DEF Due, Mapped, Only
    <3>3. QED
      BY <1>b, <1>c, <2>2, <3>2, InTurnStep
  <2>5. QED
    BY <2>3, <2>4
<1>2. CASE Probe(c)
  <2>1. sub.name = NoName /\ Only(Legacy)
    BY <1>2, <1>c DEF Probe, InTurn, Due, Mapped
  <2>2. /\ pc'[c] = "read" /\ \A d \in Callers : d # c => pc'[d] = pc[d]
        /\ name'[c] = Legacy \/ ~Present(account[Legacy])
    BY <1>2, <1>a DEF Probe, Fault, GoTo
  <2>3. Only(name'[c])
    BY <2>1, <2>2 DEF Only
  <2>4. Due(c)'
    BY <1>b, <2>1, <2>2, <2>3 DEF Due, Only
  <2>5. QED
    BY <1>b, <1>c, <2>2, <2>4, InTurnStep
<1>3. CASE Read(c)
  <2>1. CASE Return(c)
    BY <1>b, <1>c, <2>1, InTurnReturn
  <2>2. CASE ~Return(c)
    <3>1. /\ pc'[c] = "write" /\ name'[c] = name[c]
          /\ \A d \in Callers : d # c => pc'[d] = pc[d]
      BY <1>3, <1>a, <2>2 DEF Read, GoTo
    <3>2. pc[c] = "read" /\ Due(c)
      BY <1>3 DEF Read, InTurn
    <3>3. Due(c)'
      BY <1>b, <3>1, <3>2 DEF Due, Only
    <3>4. QED
      BY <1>b, <1>c, <3>1, <3>3, InTurnStep
  <2>3. QED
    BY <2>1, <2>2
<1>4. QED
  BY <1>1, <1>2, <1>3

LEMMA InTurnWrite ==
  ASSUME TypeInv, InTurn, NEW c \in Callers, Write(c), calm'
  PROVE  InTurn'
<1>1. /\ ~Idle(c) /\ pc[c] = "write" /\ op[c] = "grant" /\ name[c] \in Names /\ sub' = sub
      /\ Only(name[c]) /\ Mapped /\ OneAccount
  BY OnlyNamed DEF Write, Idle, TypeInv, Shape, InTurn
<1>2. CASE UNCHANGED account /\ Return(c)
  <2>1. Mapped' /\ OneAccount'
    BY <1>1, <1>2 DEF Mapped, OneAccount, Only
  <2>2. QED
    BY <1>1, <1>2, <2>1, InTurnReturn
<1>3. CASE ~(UNCHANGED account /\ Return(c))
  <2>1. /\ account' = [account EXCEPT ![name[c]] = Written(c)]
        /\ Keep(c, RowOf(name[c], Written(c)))
    BY <1>3 DEF Write, Fault, Reply, panelvars
  <2>2. /\ account'[name[c]] = Written(c)
        /\ \A n \in Names : n # name[c] => account'[n] = account[n]
    BY <1>1, <2>1 DEF TypeInv, TypeOK
  <2>3. Present(Written(c))
    BY DEF Written, Renewed, Created, Present
  <2>4. OneAccount'
    BY <1>1, <2>2 DEF OneAccount, Only
  <2>5. /\ pc'[c] = "record" /\ reply'[c] = RowOf(name[c], Written(c))
        /\ name' = name /\ op' = op /\ \A d \in Callers : d # c => pc'[d] = pc[d]
    BY <2>1 DEF Keep, GoTo, TypeInv, TypeOK
  <2>6. Due(c)'
    BY <1>1, <2>2, <2>3, <2>5 DEF Due
  <2>7. QED
    BY <1>1, <2>4, <2>5, <2>6, InTurnStep
<1>4. QED
  BY <1>2, <1>3

\* What an operation makes of an account that is there, and of its row.
LEMMA OperatedRow ==
  ASSUME NEW a \in Account, Present(a), NEW n
  PROVE  /\ \A o \in {"disable", "enable"} :
              Present(Operated(o, a)) /\ RowOf(n, Operated(o, a)) = RowOf(n, a)
         /\ Present(Operated("revoke", a))
         /\ [RowOf(n, a) EXCEPT !.link = RowOf(n, Operated("revoke", a)).link]
               = RowOf(n, Operated("revoke", a))
         /\ ~Present(Operated("delete", a))
<1>1. Operated("disable", a) = [a EXCEPT !.status = "disabled"]
  BY DEF Operated
<1>2. Operated("enable", a) = [a EXCEPT !.status = "active"]
  BY DEF Operated
<1>3. Operated("revoke", a) = [a EXCEPT !.link = a.link + 1]
  BY DEF Operated
<1>4. ~Present(Operated("delete", a))
  BY DEF Operated, Present, Absent
<1>5. \A o \in {"disable", "enable"} :
         Present(Operated(o, a)) /\ RowOf(n, Operated(o, a)) = RowOf(n, a)
  BY <1>1, <1>2 DEF RowOf, Present, Account
<1>6. /\ Present(Operated("revoke", a))
      /\ [RowOf(n, a) EXCEPT !.link = RowOf(n, Operated("revoke", a)).link]
            = RowOf(n, Operated("revoke", a))
  BY <1>3 DEF RowOf, Present, Account
<1>7. QED
  BY <1>4, <1>5, <1>6

LEMMA InTurnOperate ==
  ASSUME TypeInv, InTurn, NEW c \in Callers, Operate(c), calm'
  PROVE  InTurn'
<1> DEFINE a == account[name[c]]
           after == IF Present(a) THEN Operated(op[c], a) ELSE a
<1>1. /\ ~Idle(c) /\ pc[c] = "operate" /\ name[c] \in Names /\ sub' = sub
      /\ op[c] \in {"disable", "enable", "revoke", "delete"} /\ a \in Account
      /\ Only(name[c]) /\ Mapped /\ OneAccount /\ (sub.name # NoName => sub.name = name[c])
  BY OnlyNamed DEF Operate, Idle, TypeInv, TypeOK, Shape, InTurn, Ops
<1>2. CASE UNCHANGED account /\ Return(c)
  <2>1. Mapped' /\ OneAccount'
    BY <1>1, <1>2 DEF Mapped, OneAccount, Only
  <2>2. QED
    BY <1>1, <1>2, <2>1, InTurnReturn
<1>3. CASE ~(UNCHANGED account /\ Return(c))
  <2>1. /\ account' = [account EXCEPT ![name[c]] = after]
        /\ IF op[c] = "delete" \/ (op[c] = "revoke" /\ Present(a))
           THEN Keep(c, RowOf(name[c], after)) ELSE Return(c)
    BY <1>3 DEF Operate, Fault
  <2>2. /\ account'[name[c]] = after
        /\ \A n \in Names : n # name[c] => account'[n] = account[n]
    BY <1>1, <2>1 DEF TypeInv, TypeOK
  <2>3. Present(after) => Present(a)
    OBVIOUS
  <2>4. OneAccount' /\ (Only(Legacy) => Only(Legacy)')
    BY <1>1, <2>2, <2>3 DEF OneAccount, Only
  <2>5. sub.name # NoName => Present(a) /\ sub = RowOf(name[c], a)
    BY <1>1 DEF Mapped
  <2>6. CASE op[c] \in {"disable", "enable"} \/ (op[c] = "revoke" /\ ~Present(a))
    <3>1. Return(c)
      BY <2>1, <2>6
    <3>2. sub.name # NoName => Present(after) /\ RowOf(name[c], after) = RowOf(name[c], a)
      BY <1>1, <2>5, <2>6, OperatedRow
    <3> HIDE DEF after
    <3>3. Mapped'
      BY <1>1, <2>2, <2>4, <2>5, <3>2 DEF Mapped
    <3>4. QED
      BY <1>1, <2>4, <3>1, <3>3, InTurnReturn
  <2>7. CASE op[c] = "revoke" /\ Present(a)
    <3>1. Keep(c, RowOf(name[c], after))
      BY <2>1, <2>7
    <3>2. Present(after) /\ [RowOf(name[c], a) EXCEPT !.link = RowOf(name[c], after).link]
                               = RowOf(name[c], after)
      BY <1>1, <2>7, OperatedRow
    <3> HIDE DEF after, a
    <3>3. /\ pc'[c] = "record" /\ reply'[c] = RowOf(name[c], after)
          /\ name' = name /\ op'[c] = "revoke" /\ \A d \in Callers : d # c => pc'[d] = pc[d]
      BY <2>7, <3>1 DEF Keep, GoTo, TypeInv, TypeOK
    <3>4. Due(c)'
      BY <1>1, <2>2, <2>4, <2>5, <3>2, <3>3 DEF Due, Mapped
    <3>5. QED
      BY <1>1, <2>4, <3>3, <3>4, InTurnStep
  <2>8. CASE op[c] = "delete"
    <3>1. Keep(c, RowOf(name[c], after))
      BY <2>1, <2>8
    <3>2. ~Present(after)
      BY <1>1, <2>8, OperatedRow
    <3> HIDE DEF after, a
    <3>3. /\ pc'[c] = "record" /\ op'[c] = "delete"
          /\ \A d \in Callers : d # c => pc'[d] = pc[d]
      BY <2>8, <3>1 DEF Keep, GoTo, TypeInv, TypeOK
    <3>4. \A n \in Names : ~Present(account'[n])
      BY <1>1, <2>2, <3>2 DEF Only
    <3>5. Due(c)'
      BY <3>3, <3>4 DEF Due
    <3>6. QED
      BY <1>1, <2>4, <3>3, <3>5, InTurnStep
  <2>9. QED
    BY <1>1, <2>6, <2>7, <2>8
<1>4. QED
  BY <1>2, <1>3

LEMMA InTurnRecord ==
  ASSUME TypeInv, InTurn, NEW c \in Callers, Record(c)
  PROVE  InTurn'
<1>1. /\ ~Idle(c) /\ pc[c] = "record" /\ op[c] \in {"grant", "revoke", "delete"}
      /\ Return(c) /\ account' = account /\ sub' = Stored(op[c], sub, reply[c])
      /\ name[c] \in Names /\ name[c] # NoName /\ Due(c) /\ OneAccount /\ sub \in Row
  BY ConstantsAssumption DEF Record, Idle, panelvars, TypeInv, TypeOK, Shape, InTurn
<1>2. CASE op[c] = "grant"
  <2>1. sub' = RowOf(name[c], account[name[c]]) /\ Present(account[name[c]])
    BY <1>1, <1>2 DEF Stored, Due
  <2>2. sub'.name = name[c]
    BY <2>1 DEF RowOf
  <2>3. Mapped'
    BY <1>1, <2>1, <2>2 DEF Mapped
  <2>4. QED
    BY <1>1, <2>3, InTurnReturn DEF OneAccount
<1>3. CASE op[c] = "revoke"
  <2>1. sub' = IF sub.name = NoName THEN sub ELSE [sub EXCEPT !.link = reply[c].link]
    BY <1>1, <1>3 DEF Stored
  <2>2. sub'.name = sub.name
    BY <1>1, <2>1 DEF Row
  <2>3. Mapped'
    BY <1>1, <1>3, <2>1, <2>2 DEF Mapped, Due, Only
  <2>4. QED
    BY <1>1, <2>3, InTurnReturn DEF OneAccount
<1>4. CASE op[c] = "delete"
  <2>1. sub'.name = NoName /\ \A n \in Names : ~Present(account'[n])
    BY <1>1, <1>4 DEF Stored, Due, NoSub
  <2>2. Mapped'
    BY <2>1 DEF Mapped, Only
  <2>3. QED
    BY <1>1, <2>2, InTurnReturn DEF OneAccount
<1>5. QED
  BY <1>1, <1>2, <1>3, <1>4

LEMMA InTurnInit == Init => InTurn
<1> SUFFICES ASSUME Init PROVE InTurn
  OBVIOUS
<1>1. /\ \A c \in Callers : pc[c] = "idle"
      /\ \A n \in Names : Present(account[n]) => n = Legacy
      /\ sub = NoSub \/ (sub = RowOf(Legacy, LegacyAccount) /\ account[Legacy] = LegacyAccount)
  BY DEF Init, Present, Absent, Names
<1>2. Mapped
  <2>1. Legacy # NoName /\ Present(LegacyAccount)
    BY ConstantsAssumption DEF Names, Present, LegacyAccount
  <2>2. NoSub.name = NoName /\ RowOf(Legacy, LegacyAccount).name = Legacy
    BY DEF NoSub, RowOf
  <2>3. QED
    BY <1>1, <2>1, <2>2 DEF Mapped, Only
<1>3. QED
  BY <1>1, <1>2 DEF InTurn, OneAccount, Due, Idle

\* The calm does not come back.
LEMMA CalmBefore == calm \in BOOLEAN /\ [Next]_vars /\ calm' => calm
<1> SUFFICES ASSUME calm \in BOOLEAN, [Next]_vars, calm' PROVE calm
  OBVIOUS
<1>1. ASSUME NEW c \in Callers,
             \/ \E o, p : Begin(c, o, p)
             \/ Lookup(c) \/ Probe(c) \/ Read(c) \/ Write(c) \/ Operate(c) \/ Record(c) \/ Die(c)
      PROVE  calm
  BY <1>1 DEF Begin, Lookup, Probe, Read, Write, Operate, Record, Die, Fine, Fault, Refusal
<1>2. CASE Tick \/ UNCHANGED vars
  BY <1>2 DEF Tick, vars, cvars
<1>3. QED
  BY <1>1, <1>2 DEF Next

LEMMA CalmNext == CalmInv /\ [Next]_vars => CalmInv'
<1> SUFFICES ASSUME CalmInv, [Next]_vars, calm' PROVE InTurn'
  BY TypeInvNext DEF CalmInv
<1>1. TypeInv /\ calm \in BOOLEAN
  BY DEF CalmInv, TypeInv, TypeOK
<1>2. calm
  BY <1>1, CalmBefore
<1>3. InTurn
  BY <1>2 DEF CalmInv
<1>4. ASSUME NEW c \in Callers, NEW o, NEW p, Begin(c, o, p) PROVE InTurn'
  BY <1>1, <1>3, <1>4, InTurnBegin
<1>5. ASSUME NEW c \in Callers,
             \/ Lookup(c) \/ Probe(c) \/ Read(c) \/ Write(c) \/ Operate(c) \/ Record(c)
      PROVE  InTurn'
  BY <1>1, <1>3, <1>5, InTurnFind, InTurnWrite, InTurnOperate, InTurnRecord
<1>6. ASSUME NEW c \in Callers, Die(c) PROVE InTurn'
  BY <1>6 DEF Die, Fault
<1>7. CASE Tick \/ UNCHANGED vars
  BY <1>3, <1>7 DEF Tick, vars, panelvars, callvars, InTurn, Idle, OneAccount, Mapped, Only, Due
<1>8. QED
  BY <1>4, <1>5, <1>6, <1>7 DEF Next

LEMMA CalmInvariant == Spec => []CalmInv
<1>1. Init => CalmInv
  BY TypeInvInit, InTurnInit DEF CalmInv
<1>2. QED
  BY <1>1, CalmNext, PTL DEF Spec

\* While calls come one after the other and nothing fails, a user has one
\* account, and the row names it and knows its expiry, limit and link; and
\* whatever went wrong before, what a call that ran alone is about to store
\* is what the panel holds.
THEOREM RowsAreTrue == Spec => []RowIsTrue
<1>1. AloneInv /\ CalmInv => RowIsTrue
  <2> SUFFICES ASSUME AloneInv, CalmInv PROVE RowIsTrue
    OBVIOUS
  <2>1. ASSUME calm, \A c \in Callers : Idle(c)
        PROVE  /\ Cardinality({n \in Names : Present(account[n])}) <= 1
               /\ sub.name # NoName =>
                     Present(account[sub.name]) /\ sub = RowOf(sub.name, account[sub.name])
    <3> DEFINE S == {n \in Names : Present(account[n])}
    <3>1. InTurn /\ Mapped
      BY <2>1 DEF CalmInv, InTurn, Idle
    <3>2. \A m, n \in S : m = n
      BY <3>1 DEF InTurn, OneAccount
    <3> HIDE DEF S
    <3>3. Cardinality(S) <= 1
      <4>1. CASE S = {}
        BY <4>1, FS_EmptySet
      <4>2. ASSUME NEW n \in S PROVE Cardinality(S) <= 1
        <5>1. S = {n}
          BY <3>2, <4>2
        <5>2. QED
          BY <5>1, FS_Singleton
      <4>3. QED
        BY <4>1, <4>2
    <3>4. QED
      BY <3>1, <3>3 DEF S, Mapped
  <2>2. \A c \in alone :
           pc[c] = "record" /\ op[c] \in {"grant", "revoke"} =>
               reply[c] = RowOf(name[c], account[name[c]])
    BY DEF AloneInv, Undisturbed
  <2>3. QED
    BY <2>1, <2>2 DEF RowIsTrue
<1>2. QED
  BY <1>1, AloneInvariant, CalmInvariant, PTL

-----------------------------------------------------------------------------
(* The service of Subscription, as long as calls come one after the other.   *)
(* The call under way runs alone, so that the account it writes is the one   *)
(* it has read; a package has found one, and a row that has a link to revoke *)
(* stays until the call is over.                                             *)

InHandInv ==
    \A c \in Callers :
        /\ pc[c] = "write" /\ plan[c].traffic_only => Present(snap[c])
        /\ calm /\ ~Idle(c) => c \in alone
        /\ calm /\ ~Idle(c) /\ op[c] = "revoke" => sub.name # NoName

ServiceInv == AloneInv /\ CalmInv /\ InHandInv

LEMMA InHandNext == TypeInv /\ CalmInv /\ InHandInv /\ [Next]_vars => InHandInv'
<1> SUFFICES ASSUME TypeInv, CalmInv, InHandInv, [Next]_vars, NEW d \in Callers
             PROVE  /\ pc'[d] = "write" /\ plan'[d].traffic_only => Present(snap'[d])
                    /\ calm' /\ pc'[d] # "idle" => d \in alone'
                    /\ calm' /\ pc'[d] # "idle" /\ op'[d] = "revoke" => sub'.name # NoName
  BY DEF InHandInv, Idle
<1>a. /\ pc \in [Callers -> CallPC] /\ op \in [Callers -> Ops] /\ snap \in [Callers -> Account]
      /\ plan \in [Callers -> Plans \cup {NoPlan}] /\ calm \in BOOLEAN
  BY DEF TypeInv, TypeOK
<1>b. /\ pc[d] = "write" /\ plan[d].traffic_only => Present(snap[d])
      /\ calm /\ pc[d] # "idle" => d \in alone
      /\ calm /\ pc[d] # "idle" /\ op[d] = "revoke" => sub.name # NoName
      /\ calm => \A c \in Callers : Idle(c) \/ Idle(d) \/ c = d
  BY DEF InHandInv, Idle, CalmInv, InTurn
<1>1. ASSUME NEW c \in Callers, NEW o, NEW p, Begin(c, o, p)
      PROVE  /\ pc'[d] = "write" /\ plan'[d].traffic_only => Present(snap'[d])
             /\ calm' /\ pc'[d] # "idle" => d \in alone'
             /\ calm' /\ pc'[d] # "idle" /\ op'[d] = "revoke" => sub'.name # NoName
  BY <1>1, <1>a, <1>b DEF Begin, GoTo, Idle
<1>2. ASSUME NEW c \in Callers, Lookup(c) \/ Probe(c)
      PROVE  /\ pc'[d] = "write" /\ plan'[d].traffic_only => Present(snap'[d])
             /\ calm' /\ pc'[d] # "idle" => d \in alone'
             /\ calm' /\ pc'[d] # "idle" /\ op'[d] = "revoke" => sub'.name # NoName
  BY <1>2, <1>a, <1>b DEF Lookup, Probe, Fine, Fault, GoTo, Idle
<1>3. ASSUME NEW c \in Callers, Read(c)
      PROVE  /\ pc'[d] = "write" /\ plan'[d].traffic_only => Present(snap'[d])
             /\ calm' /\ pc'[d] # "idle" => d \in alone'
             /\ calm' /\ pc'[d] # "idle" /\ op'[d] = "revoke" => sub'.name # NoName
  BY <1>3, <1>a, <1>b DEF Read, Return, Refusal, Fine, GoTo, Served
<1>4. ASSUME NEW c \in Callers, Write(c) \/ Operate(c)
      PROVE  /\ pc'[d] = "write" /\ plan'[d].traffic_only => Present(snap'[d])
             /\ calm' /\ pc'[d] # "idle" => d \in alone'
             /\ calm' /\ pc'[d] # "idle" /\ op'[d] = "revoke" => sub'.name # NoName
  <2>1. Keep(c, reply'[c]) \/ Return(c)
    BY <1>4, <1>a DEF Write, Operate, Keep, TypeInv, TypeOK
  <2>2. UNCHANGED <<sub, alone>> /\ (calm' => calm)
    BY <1>4, <1>a DEF Write, Operate, Refusal, Fine, Fault
  <2>3. pc[c] # "idle"
    BY <1>4 DEF Write, Operate
  <2>4. CASE c = d
    BY <1>a, <1>b, <2>1, <2>2, <2>3, <2>4 DEF Keep, Return, GoTo
  <2>5. CASE c # d
    BY <1>a, <1>b, <2>1, <2>2, <2>5 DEF Keep, Return, GoTo
  <2>6. QED
    BY <2>4, <2>5
<1>5. ASSUME NEW c \in Callers, Record(c) \/ Die(c)
      PROVE  /\ pc'[d] = "write" /\ plan'[d].traffic_only => Present(snap'[d])
             /\ calm' /\ pc'[d] # "idle" => d \in alone'
             /\ calm' /\ pc'[d] # "idle" /\ op'[d] = "revoke" => sub'.name # NoName
  <2>1. CASE c = d
    BY <1>5, <2>1, <1>a DEF Record, Die, Return, GoTo
  <2>2. CASE c # d
    BY <1>5, <2>2, <1>a, <1>b DEF Record, Die, Return, GoTo, Fine, Fault, Idle
  <2>3. QED
    BY <2>1, <2>2
<1>6. CASE Tick \/ UNCHANGED vars
  BY <1>6, <1>b DEF Tick, vars, panelvars, callvars, cvars
<1>7. QED
  BY <1>1, <1>2, <1>3, <1>4, <1>5, <1>6 DEF Next

LEMMA ServiceInvariant == Spec => []ServiceInv
<1>1. Init => InHandInv
  BY DEF Init, InHandInv, Idle
<1>2. AloneInv => TypeInv
  BY DEF AloneInv
<1>3. QED
  BY <1>1, <1>2, InHandNext, AloneInvariant, CalmInvariant, PTL DEF Spec, ServiceInv

\* What the mapping shows of the accounts and of the call under way.
LEMMA HeldIs ==
  OneAccount => /\ \A n \in Names : Present(account[n]) => Held = account[n]
                /\ (\A n \in Names : ~Present(account[n])) => Held = Absent
BY DEF OneAccount, Held

LEMMA HeldIsAfter ==
  (OneAccount => /\ \A n \in Names : Present(account[n]) => Held = account[n]
                 /\ (\A n \in Names : ~Present(account[n])) => Held = Absent)'
BY HeldIs, PTL

CallOf(c) == [op |-> op[c], plan |-> plan[c], day |-> began[c]]

LEMMA InHandIs ==
  /\ (\A c \in Callers : Idle(c)) => InHand = Service!NoCall
  /\ (\A c, d \in Callers : Idle(c) \/ Idle(d) \/ c = d) =>
        \A c \in Callers : ~Idle(c) => InHand = CallOf(c)
BY DEF InHand, CallOf, Service!NoCall

LEMMA InHandIsAfter ==
  (/\ (\A c \in Callers : Idle(c)) => InHand = Service!NoCall
   /\ (\A c, d \in Callers : Idle(c) \/ Idle(d) \/ c = d) =>
         \A c \in Callers : ~Idle(c) => InHand = CallOf(c))'
BY InHandIs, PTL

HeldRow  == [expire |-> sub.expire, limit |-> sub.limit, link |-> sub.link]
Recorded == \E c \in Callers : pc[c] = "record"

\* A call at work is the one in hand, before and after its own step.
LEMMA InHandStep ==
  ASSUME TypeInv, InTurn, NEW c \in Callers, ~Idle(c),
         \A d \in Callers : d # c => pc'[d] = pc[d]
  PROVE  /\ InHand = CallOf(c) /\ (Recorded <=> pc[c] = "record")
         /\ pc'[c] = "idle" => InHand' = Service!NoCall /\ ~Recorded'
         /\ pc'[c] # "idle" => InHand' = CallOf(c)' /\ (Recorded' <=> pc'[c] = "record")
<1>1. \A d \in Callers : d # c => Idle(d) /\ Idle(d)'
  BY DEF InTurn, Idle
<1>2. \A d \in Callers : Idle(d) => pc[d] # "record"
  BY DEF Idle
<1>3. \A d \in Callers : Idle(d)' => pc'[d] # "record"
  BY DEF Idle
<1>4. InHand = CallOf(c) /\ (Recorded <=> pc[c] = "record")
  BY <1>1, <1>2, InHandIs DEF Recorded
<1>5. ASSUME pc'[c] = "idle" PROVE InHand' = Service!NoCall /\ ~Recorded'
  <2>1. \A d \in Callers : Idle(d)'
    BY <1>1, <1>5 DEF Idle
  <2>2. InHand' = Service!NoCall
    BY <2>1, InHandIsAfter DEF Service!NoCall
  <2>3. QED
    BY <1>3, <2>1, <2>2 DEF Recorded
<1>6. ASSUME pc'[c] # "idle"
      PROVE  InHand' = CallOf(c)' /\ (Recorded' <=> pc'[c] = "record")
  <2>1. ~Idle(c)' /\ \A d, e \in Callers : Idle(d)' \/ Idle(e)' \/ d = e
    BY <1>1, <1>6 DEF Idle
  <2>2. InHand' = CallOf(c)'
    BY <2>1, InHandIsAfter
  <2>3. QED
    BY <1>1, <1>3, <2>2 DEF Recorded
<1>7. QED
  BY <1>4, <1>5, <1>6

\* A call that ends without having done anything was refused.
LEMMA ReturnRefuses ==
  ASSUME TypeInv, InTurn, NEW c \in Callers, ~Idle(c), pc[c] # "record", Return(c),
         Held' = Held, sub' = sub, now' = now
  PROVE  Service!Refuse
<1>1. pc'[c] = "idle" /\ \A d \in Callers : d # c => pc'[d] = pc[d]
  BY DEF Return, GoTo, TypeInv, TypeOK
<1>2. InHand = CallOf(c) /\ ~Recorded /\ InHand' = Service!NoCall /\ ~Recorded'
  BY <1>1, InHandStep
<1>3. CallOf(c).op \in Ops
  BY DEF CallOf, TypeInv, TypeOK
<1>4. InHand # Service!NoCall
  BY <1>2, <1>3 DEF Service!NoCall, Ops
<1>5. QED
  BY <1>2, <1>4 DEF Service!Refuse, Recorded

\* The only account is the one held.
LEMMA HeldOnly ==
  ASSUME OneAccount, NEW n \in Names, Only(n)
  PROVE  /\ Present(account[n]) => Held = account[n]
         /\ ~Present(account[n]) => Held = Absent
         /\ Service!There <=> Present(account[n])
<1>1. /\ Present(account[n]) => Held = account[n]
      /\ ~Present(account[n]) => Held = Absent
  BY HeldIs DEF Only
<1>2. QED
  BY <1>1 DEF Service!There, Present, Absent

\* What becomes of the only account becomes of the one held.
LEMMA HeldWritten ==
  ASSUME TypeOK, NEW n \in Names, Only(n), NEW after, OneAccount',
         account' = [account EXCEPT ![n] = after], Present(after) \/ after = Absent
  PROVE  Held' = after
<1>1. account'[n] = after /\ \A m \in Names : m # n => account'[m] = account[m]
  BY DEF TypeOK
<1>2. CASE Present(after)
  BY <1>1, <1>2, HeldIsAfter
<1>3. CASE ~Present(after)
  BY <1>1, <1>3, HeldIsAfter DEF Only
<1>4. QED
  BY <1>2, <1>3

LEMMA HeldSame == account' = account => Held' = Held
BY DEF Held

\* The PUT and the POST: a plan is granted, or refused.
LEMMA WriteServes ==
  ASSUME ServiceInv, InTurn, InTurn', calm', NEW c \in Callers, Write(c)
  PROVE  Service!Grant \/ Service!Refuse
<1>1. /\ TypeInv /\ TypeOK /\ ~Idle(c) /\ pc[c] = "write" /\ op[c] = "grant"
      /\ UNCHANGED <<sub, now>> /\ calm
  BY DEF ServiceInv, AloneInv, TypeInv, TypeOK, Shape, Write, Idle, Fine, Fault, Refusal
<1>2. name[c] \in Names /\ Only(name[c]) /\ OneAccount /\ OneAccount'
  BY <1>1, OnlyNamed DEF InTurn
<1>3. CASE UNCHANGED account /\ Return(c)
  BY <1>1, <1>3, HeldSame, ReturnRefuses
<1>4. CASE ~(UNCHANGED account /\ Return(c))
  <2> DEFINE a == account[name[c]]
  <2>1. /\ account' = [account EXCEPT ![name[c]] = Written(c)] /\ Accepted(c)
        /\ Keep(c, RowOf(name[c], Written(c)))
    BY <1>4 DEF Write, Fault, Reply, panelvars
  <2>2. Present(Written(c))
    BY DEF Written, Renewed, Created, Present
  <2>3. Held' = Written(c)
    BY <1>1, <1>2, <2>1, <2>2, HeldWritten
  <2>4. /\ pc'[c] = "record" /\ \A d \in Callers : d # c => pc'[d] = pc[d]
        /\ CallOf(c)' = CallOf(c)
    BY <1>1, <2>1 DEF Keep, GoTo, CallOf, TypeInv, TypeOK
  <2>5. InHand = CallOf(c) /\ ~Recorded /\ InHand' = InHand /\ Recorded'
    BY <1>1, <2>4, InHandStep
  <2>6. InHand.op = "grant" /\ InHand.plan = plan[c] /\ InHand.day = began[c]
    BY <1>1, <2>5 DEF CallOf
  <2>7. snap[c] = a /\ (plan[c].traffic_only => Present(snap[c]))
    BY <1>1 DEF ServiceInv, AloneInv, InHandInv, Undisturbed
  <2>8. CASE Present(a)
    <3>1. Held = a /\ Service!There
      BY <1>2, <2>8, HeldOnly
    <3>2. Written(c) = [expire  |-> RenewedExpire(a, plan[c], began[c]),
                        limit   |-> RenewedLimit(a, plan[c]),
                        devices |-> IF plan[c].traffic_only THEN a.devices
                                    ELSE Later(plan[c].devices, a.devices),
                        status  |-> "active",
                        link    |-> a.link]
      BY <2>7, <2>8 DEF Written, Renewed
    <3> HIDE DEF a
    <3>3. Written(c) = Service!Extended(plan[c], began[c])
      BY <3>1, <3>2
         DEF Service!Extended, Service!Greater, RenewedExpire, RenewedLimit, Later
    <3>4. QED
      BY <1>1, <2>3, <2>5, <2>6, <3>1, <3>3
         DEF Service!Grant, Service!Becomes, Recorded
  <2>9. CASE ~Present(a)
    <3>1. ~Service!There /\ ~plan[c].traffic_only
      BY <1>2, <2>7, <2>9, HeldOnly
    <3>2. Written(c) = Service!First(plan[c], began[c])
      BY <2>7, <2>9 DEF Written, Created, Service!First
    <3>3. QED
      BY <1>1, <2>3, <2>5, <2>6, <3>1, <3>2
         DEF Service!Grant, Service!Becomes, Recorded
  <2>10. QED
    BY <2>8, <2>9
<1>5. QED
  BY <1>3, <1>4

\* set_status, revoke_sub and delete_user.
LEMMA OperateServes ==
  ASSUME ServiceInv, InTurn, InTurn', calm', NEW c \in Callers, Operate(c)
  PROVE  Service!Revoke \/ Service!Delete \/ Service!Switch \/ Service!Refuse
<1> DEFINE a == account[name[c]]
           after == IF Present(a) THEN Operated(op[c], a) ELSE a
<1>1. /\ TypeInv /\ TypeOK /\ ~Idle(c) /\ pc[c] = "operate"
      /\ op[c] \in {"disable", "enable", "revoke", "delete"}
      /\ UNCHANGED <<sub, now>>
  BY DEF ServiceInv, AloneInv, TypeInv, TypeOK, Shape, Operate, Idle, Ops
<1>2. name[c] \in Names /\ Only(name[c]) /\ OneAccount /\ OneAccount' /\ a \in Account
  BY <1>1, OnlyNamed DEF InTurn, TypeOK
<1>3. /\ Present(a) => Held = a
      /\ ~Present(a) => Held = Absent
      /\ Service!There <=> Present(a)
  BY <1>2, HeldOnly
<1>4. CASE UNCHANGED account /\ Return(c)
  BY <1>1, <1>4, HeldSame, ReturnRefuses
<1>5. CASE ~(UNCHANGED account /\ Return(c))
  <2>1. /\ account' = [account EXCEPT ![name[c]] = after]
        /\ IF op[c] = "delete" \/ (op[c] = "revoke" /\ Present(a))
           THEN Keep(c, RowOf(name[c], after)) ELSE Return(c)
    BY <1>5 DEF Operate, Fault
  <2>2. ~Present(a) => account' = account
    BY <1>1, <1>2, <2>1 DEF TypeOK
  <2>3. CASE op[c] \in {"disable", "enable"} /\ Present(a)
    <3>1. Return(c) /\ pc'[c] = "idle" /\ \A d \in Callers : d # c => pc'[d] = pc[d]
      BY <1>1, <2>1, <2>3 DEF Return, GoTo, TypeInv, TypeOK
    <3>2. InHand = CallOf(c) /\ ~Recorded /\ InHand' = Service!NoCall /\ ~Recorded'
      BY <1>1, <3>1, InHandStep
    <3>3. after = [a EXCEPT !.status = IF op[c] = "enable" THEN "active" ELSE "disabled"]
      BY <2>3 DEF Operated
    <3>4. Present(after)
      BY <1>2, <2>3, OperatedRow
    <3> HIDE DEF after
    <3>5. Held' = after
      BY <1>1, <1>2, <2>1, <3>4, HeldWritten
    <3>6. InHand.op = op[c]
      BY <3>2 DEF CallOf
    <3>7. QED
      BY <1>1, <1>3, <2>3, <3>2, <3>3, <3>5, <3>6 DEF Service!Switch, Recorded, Service!NoCall
  <2>4. CASE op[c] \in {"disable", "enable", "revoke"} /\ ~Present(a)
    BY <1>5, <2>1, <2>2, <2>4
  <2>5. CASE op[c] = "delete" \/ (op[c] = "revoke" /\ Present(a))
    <3>1. /\ pc'[c] = "record" /\ \A d \in Callers : d # c => pc'[d] = pc[d]
          /\ CallOf(c)' = CallOf(c)
      BY <2>1, <2>5, <1>1 DEF Keep, GoTo, CallOf, TypeInv, TypeOK
    <3>2. InHand = CallOf(c) /\ ~Recorded /\ InHand' = InHand /\ Recorded'
      BY <1>1, <3>1, InHandStep
    <3>3. InHand.op = op[c]
      BY <3>2 DEF CallOf
    <3>4. CASE op[c] = "revoke" /\ Present(a)
      <4>1. after = [a EXCEPT !.link = @ + 1]
        BY <3>4 DEF Operated
      <4>2. Present(after)
        BY <1>2, <3>4, OperatedRow
      <4> HIDE DEF after
      <4>3. Held' = after
        BY <1>1, <1>2, <2>1, <4>2, HeldWritten
      <4>4. QED
        BY <1>1, <1>3, <3>2, <3>3, <3>4, <4>1, <4>3
           DEF Service!Revoke, Service!Becomes, Recorded
    <3>5. CASE op[c] = "delete"
      <4>1. Held' = Absent
        <5>1. CASE Present(a)
          <6>1. after = Absent
            BY <3>5, <5>1 DEF Operated
          <6> HIDE DEF after
          <6>2. QED
            BY <1>1, <1>2, <2>1, <6>1, HeldWritten
        <5>2. CASE ~Present(a)
          BY <1>3, <2>2, <5>2, HeldSame
        <5>3. QED
          BY <5>1, <5>2
      <4>2. QED
        BY <1>1, <3>2, <3>3, <3>5, <4>1
           DEF Service!Delete, Service!Becomes, Service!Nothing, Absent, Recorded
    <3>6. QED
      BY <2>5, <3>4, <3>5
  <2>6. QED
    BY <1>1, <2>3, <2>4, <2>5
<1>6. QED
  BY <1>4, <1>5

\* The row follows.
LEMMA RecordServes ==
  ASSUME ServiceInv, InTurn, calm, NEW c \in Callers, Record(c)
  PROVE  Service!Record
<1>1. /\ TypeInv /\ ~Idle(c) /\ pc[c] = "record" /\ op[c] \in {"grant", "revoke", "delete"}
      /\ Return(c) /\ UNCHANGED <<account, now>> /\ sub' = Stored(op[c], sub, reply[c])
      /\ name[c] \in Names /\ Due(c) /\ OneAccount /\ sub \in Row
      /\ op[c] = "revoke" => sub.name # NoName
  BY DEF ServiceInv, AloneInv, InHandInv, Record, Idle, panelvars, TypeInv, TypeOK, Shape, InTurn
<1>2. pc'[c] = "idle" /\ \A d \in Callers : d # c => pc'[d] = pc[d]
  BY <1>1 DEF Return, GoTo, TypeInv, TypeOK
<1>3. Recorded /\ ~Recorded' /\ InHand' = Service!NoCall
  BY <1>1, <1>2, InHandStep
<1>4. Held' = Held
  BY <1>1, HeldSame
<1>5. HeldRow' = [expire |-> Held.expire, limit |-> Held.limit, link |-> Held.link]
  <2>1. CASE op[c] = "grant"
    <3>1. sub' = RowOf(name[c], account[name[c]]) /\ Held = account[name[c]]
      BY <1>1, <2>1, HeldIs DEF Stored, Due
    <3>2. QED
      BY <3>1 DEF HeldRow, RowOf
  <2>2. CASE op[c] = "revoke"
    <3>1. /\ Present(account[sub.name]) /\ sub.name \in Names
          /\ [sub EXCEPT !.link = reply[c].link] = RowOf(sub.name, account[sub.name])
      BY <1>1, <2>2 DEF Due, Row
    <3>2. sub' = RowOf(sub.name, account[sub.name]) /\ Held = account[sub.name]
      BY <1>1, <2>2, <3>1, HeldIs DEF Stored
    <3>3. QED
      BY <3>2 DEF HeldRow, RowOf
  <2>3. CASE op[c] = "delete"
    <3>1. sub' = NoSub /\ Held = Absent
      BY <1>1, <2>3, HeldIs DEF Stored, Due
    <3>2. QED
      BY <3>1 DEF HeldRow, NoSub, Absent
  <2>4. QED
    BY <1>1, <2>1, <2>2, <2>3
<1>6. QED
  BY <1>1, <1>3, <1>4, <1>5 DEF Service!Record, Service!Known, Recorded, HeldRow

\* A call begins when no other is under way, or the calm is over.
LEMMA BeginServes ==
  ASSUME ServiceInv, InTurn, NEW c \in Callers, NEW o, NEW p, Begin(c, o, p), calm',
         \/ o = "grant" /\ p \in Plans
         \/ o \in Ops \ {"grant"} /\ p = NoPlan
  PROVE  Service!Ask
<1>1. /\ TypeInv /\ \A d \in Callers : Idle(d)
      /\ pc' = [pc EXCEPT ![c] = "lookup"] /\ op' = [op EXCEPT ![c] = o]
      /\ plan' = [plan EXCEPT ![c] = p] /\ began' = [began EXCEPT ![c] = now]
      /\ UNCHANGED <<account, sub, now>>
  BY DEF ServiceInv, AloneInv, Begin, GoTo, panelvars, Start
<1>2. pc'[c] = "lookup" /\ op'[c] = o /\ plan'[c] = p /\ began'[c] = now
  BY <1>1 DEF TypeInv, TypeOK
<1>3. \A d \in Callers : d # c => pc'[d] = "idle"
  BY <1>1 DEF TypeInv, TypeOK, Idle
<1>4. InHand = Service!NoCall /\ ~Recorded
  BY <1>1, InHandIs DEF Recorded, Idle
<1>5. InHand' = CallOf(c)' /\ ~Recorded'
  <2>1. ~Idle(c)' /\ \A d, e \in Callers : Idle(d)' \/ Idle(e)' \/ d = e
    BY <1>2, <1>3 DEF Idle
  <2>2. QED
    BY <1>2, <1>3, <2>1, InHandIsAfter DEF Recorded
<1>6. InHand' = [op |-> o, plan |-> p, day |-> now]
  BY <1>2, <1>5 DEF CallOf
<1>7. Held' = Held
  BY <1>1, HeldSame
<1>8. QED
  BY <1>1, <1>4, <1>5, <1>6, <1>7 DEF Service!Ask, Recorded, Ops

\* Finding the name and reading the account are nobody's business.
LEMMA FindServes ==
  ASSUME ServiceInv, InTurn, NEW c \in Callers, Lookup(c) \/ Probe(c) \/ Read(c)
  PROVE  Service!Refuse \/ (UNCHANGED <<Held, HeldRow, InHand, Recorded, now>>)
<1>1. /\ TypeInv /\ ~Idle(c) /\ pc[c] # "record" /\ UNCHANGED <<account, sub, now>>
  BY DEF ServiceInv, AloneInv, Lookup, Probe, Read, Idle, panelvars
<1>2. CASE Return(c)
  BY <1>1, <1>2, HeldSame, ReturnRefuses
<1>3. CASE ~Return(c)
  <2>1. /\ pc'[c] \in {"probe", "read", "operate", "write"}
        /\ \A d \in Callers : d # c => pc'[d] = pc[d]
        /\ UNCHANGED <<op, plan, began>>
    BY <1>1, <1>3 DEF Lookup, Probe, Read, GoTo, TypeInv, TypeOK
  <2>2. CallOf(c)' = CallOf(c)
    BY <2>1 DEF CallOf
  <2>3. InHand' = InHand /\ ~Recorded /\ ~Recorded'
    BY <1>1, <2>1, <2>2, InHandStep
  <2>4. QED
    BY <1>1, <2>3, HeldSame DEF HeldRow, Recorded
<1>4. QED
  BY <1>2, <1>3

Mapping == <<Held, HeldRow, InHand, Recorded, now, calm>>

LEMMA ServiceNext == ServiceInv /\ ServiceInv' /\ [Next]_vars => [Service!Next]_Mapping
<1> SUFFICES ASSUME ServiceInv, ServiceInv', [Next]_vars
             PROVE  Service!Next \/ UNCHANGED Mapping
  OBVIOUS
<1>1. calm \in BOOLEAN /\ calm' \in BOOLEAN
  BY DEF ServiceInv, AloneInv, TypeInv, TypeOK
<1>2. CASE ~calm'
  BY <1>1, <1>2 DEF Service!Next, Service!Trouble
<1>3. CASE calm'
  <2>1. calm
    BY <1>1, <1>3, CalmBefore
  <2>2. InTurn /\ InTurn'
    BY <1>3, <2>1 DEF ServiceInv, CalmInv
  <2>3. ASSUME Service!Operation PROVE Service!Next
    BY <1>1, <1>3, <2>1, <2>3 DEF Service!Next
  <2>4. ASSUME NEW c \in Callers, NEW o, NEW p, Begin(c, o, p),
               \/ o = "grant" /\ p \in Plans
               \/ o \in Ops \ {"grant"} /\ p = NoPlan
        PROVE  Service!Operation
    BY <1>3, <2>2, <2>4, BeginServes DEF Service!Operation
  <2>5. ASSUME NEW c \in Callers, Lookup(c) \/ Probe(c) \/ Read(c)
        PROVE  Service!Operation \/ UNCHANGED Mapping
    BY <1>1, <1>3, <2>1, <2>2, <2>5, FindServes DEF Service!Operation, Mapping
  <2>6. ASSUME NEW c \in Callers, Write(c) \/ Operate(c) \/ Record(c)
        PROVE  Service!Operation
    BY <1>3, <2>1, <2>2, <2>6, WriteServes, OperateServes, RecordServes
       DEF Service!Operation
  <2>7. ASSUME NEW c \in Callers, Die(c) PROVE FALSE
    BY <1>3, <2>7 DEF Die, Fault
  <2>8. CASE Tick
    <3>1. /\ now' = now + 1 /\ UNCHANGED <<account, sub, pc, op, plan, began>>
      BY <2>8 DEF Tick, panelvars, callvars
    <3>2. UNCHANGED <<Held, InHand>>
      BY <3>1 DEF Held, InHand, Idle
    <3>3. Service!Tick
      BY <3>1, <3>2 DEF Service!Tick
    <3>4. QED
      BY <2>3, <3>3 DEF Service!Operation
  <2>9. CASE UNCHANGED vars
    BY <2>9 DEF vars, panelvars, callvars, cvars, Mapping, Held, HeldRow, InHand, Recorded, Idle
  <2>10. QED
    BY <2>3, <2>4, <2>5, <2>6, <2>7, <2>8, <2>9 DEF Next
<1>4. QED
  BY <1>2, <1>3

LEMMA ServiceInit == Init => Service!Init
<1> SUFFICES ASSUME Init PROVE Service!Init
  OBVIOUS
<1>1. /\ \A c \in Callers : pc[c] = "idle"
      /\ \A n \in Names : Present(account[n]) => n = Legacy
      /\ \/ sub = NoSub
         \/ sub = RowOf(Legacy, LegacyAccount) /\ account[Legacy] = LegacyAccount
      /\ now = 0 /\ calm = TRUE
  BY DEF Init, Present, Absent, Names
<1>2. InHand = Service!NoCall /\ ~Recorded
  BY <1>1, InHandIs DEF Recorded, Idle
<1>3. HeldRow \in {Service!Known(Service!Nothing), Service!Known(Held)}
  <2>1. CASE sub = NoSub
    BY <2>1 DEF HeldRow, NoSub, Service!Known, Service!Nothing
  <2>2. CASE sub = RowOf(Legacy, LegacyAccount) /\ account[Legacy] = LegacyAccount
    <3>1. Legacy \in Names /\ Present(account[Legacy]) /\ OneAccount
      BY <1>1, <2>2 DEF Names, Present, LegacyAccount, OneAccount
    <3>2. Held = LegacyAccount
      BY <2>2, <3>1, HeldIs
    <3>3. QED
      BY <2>2, <3>2 DEF HeldRow, RowOf, Service!Known
  <2>3. QED
    BY <1>1, <2>1, <2>2
<1>4. QED
  BY <1>1, <1>2, <1>3 DEF Service!Init, HeldRow, Recorded

\* The client implements the service: whatever its names, snapshots and
\* requests, as long as calls come one after the other and nothing hides what
\* it has done, each operation takes effect at once and as a whole, on the
\* one account there is, and the row follows before the next is asked for.
THEOREM ServiceKept == Spec => ServedInTurn
<1>1. [Service!Next]_Mapping =>
         [Service!Next]_<<Held, [expire |-> sub.expire, limit |-> sub.limit, link |-> sub.link],
                          InHand, \E c \in Callers : pc[c] = "record", now, calm>>
  BY DEF Mapping, HeldRow, Recorded
<1>2. QED
  BY <1>1, ServiceInit, ServiceNext, ServiceInvariant, PTL DEF Spec, ServedInTurn, Service!Spec
=============================================================================
