---------------------------- MODULE StudentProofs -----------------------------
(***************************************************************************)
(* What TLAPS proves of what customers redeem, for any number of customers, *)
(* vouchers, codes, keys and handlers, and of the days, works and views of  *)
(* the students of a course (a part of Learning), for any courses, people and*)
(* requests.  They share no state.                                          *)
(***************************************************************************)
EXTENDS CreditRedemption, Learning, Sums, FiniteSetTheorems, TLAPS

-----------------------------------------------------------------------------
(* The redemptions.                                                         *)

Holding == {"taken", "paid"}
Redeeming == {"checked", "counted"} \cup Holding
OnVoucher == {"updating", "deleting"} \cup Redeeming
OnCode == {"asking", "granting"}
Limited == {v \in Shared : UsagePerUser[v] > 0}

\* What a handler works on; the use it has taken is still there.
JobInv ==
    \A h \in Handlers :
        /\ pc[h] \in OnVoucher => call[h].on \in Vouchers
        /\ pc[h] \in OnCode => call[h].on \in Codes
        /\ pc[h] \in Redeeming \cup OnCode => call[h].cust \in Customers
        /\ pc[h] = "updating" => call[h].status \in AdminStatuses
        /\ pc[h] \in Holding => UseAvailable(call[h].on)

\* A voucher is written by one open transaction.
OneHolder ==
    \A h, g \in Handlers :
        pc[h] \in Holding /\ pc[g] \in Holding /\ call[h].on = call[g].on => h = g

\* A SINGLE voucher was redeemed as often as it was taken back, and once more when
\* it is used.
SingleInv ==
    \A v \in Vouchers \ Shared :
        uses[v] <= reopened[v] + (IF voucher[v] = "used" THEN 1 ELSE 0)

\* The count of a transaction that may still commit is below the limit.
CountInv ==
    \A h \in Handlers :
        /\ call[h].on \in Limited
        /\ pc[h] \in Holding \/ (pc[h] = "counted" /\ "voucher" \notin stale[h])
        => Cardinality(UsesBy(call[h].cust, call[h].on)) < UsagePerUser[call[h].on]

\* What a transaction has inserted carries no key of anybody else.
InsertInv ==
    \A h \in Handlers : pc[h] = "paid" => ~KeyTaken(call[h].key, call[h].on, h)

CodeInv ==
    \A x \in Codes : smax[x].status = "pending" =>
        x \in orphaned \/ \E h \in Handlers : pc[h] \in OnCode /\ call[h].on = x

VoucherInv == TypeOK /\ JobInv /\ OneHolder
IInv ==
    /\ VoucherInv /\ SingleInv /\ CountInv /\ InsertInv /\ CodeInv
    /\ UsesAreBounded /\ PerUserLimit /\ KeyCreditsOnce

LEMMA NextIndex == \A n \in Nat : 1 .. (n + 1) = (1 .. n) \cup {n + 1} /\ n + 1 \notin 1 .. n
OBVIOUS

USE RedemptionAssumption DEF CreditTypes, VoucherStatuses, Finished, Call, NoCall, NoTx,
    Holding, Redeeming, OnVoucher, OnCode, Limited, Exists, VoucherHeld, InTransaction, Overlap

LEMMA InitIInv == Init => IInv
<1> SUFFICES ASSUME Init PROVE IInv
  OBVIOUS
<1> USE DEF Init
<1>1. TypeOK
  BY DEF TypeOK, Calls
<1>2. JobInv /\ OneHolder /\ SingleInv /\ CountInv /\ InsertInv /\ CodeInv
  BY DEF JobInv, OneHolder, SingleInv, CountInv, InsertInv, CodeInv
<1>3. UsesAreBounded /\ KeyCreditsOnce
  BY DEF UsesAreBounded, KeyCreditsOnce
<1>4. PerUserLimit
  <2>1. \A v \in Vouchers, c \in Customers : UsesBy(c, v) = {}
    BY DEF UsesBy
  <2>2. SUFFICES ASSUME NEW v \in Shared, NEW c \in Customers PROVE Cardinality(UsesBy(c, v)) <= UsagePerUser[v]
    BY DEF PerUserLimit
  <2>3. UsesBy(c, v) = {} /\ UsagePerUser[v] \in Nat
    BY <2>1
  <2>4. Cardinality(UsesBy(c, v)) = 0
    BY <2>3, FS_EmptySet
  <2> QED BY <2>3, <2>4
<1> QED BY <1>1, <1>2, <1>3, <1>4 DEF IInv, VoucherInv

-----------------------------------------------------------------------------
(* Types.                                                                  *)

LEMMA TouchedType ==
  ASSUME TypeOK, NEW vs, NEW cs PROVE Touched(vs, cs) \in [Handlers -> SUBSET {"voucher", "customer"}]
BY DEF TypeOK, Touched

PCs == {"idle", "updating", "deleting", "checked", "counted", "taken", "paid", "asking", "granting"}
HandlersOK == pc' \in [Handlers -> PCs] /\ call' \in [Handlers -> Calls]

LEMMA HandlerType ==
  ASSUME TypeOK, NEW h \in Handlers, NEW p \in PCs
  PROVE  /\ Goto(h, p) => HandlersOK
         /\ Return(h) => HandlersOK
         /\ \A a \in Calls : Begin(h, p, a) => HandlersOK
<1>1. NoCall \in Calls
  BY DEF Calls
<1>2. pc \in [Handlers -> PCs] /\ call \in [Handlers -> Calls] /\ "idle" \in PCs
  BY DEF TypeOK, PCs
<1> HIDE DEF NoCall, Call
<1>3. Goto(h, p) => HandlersOK
  BY <1>2 DEF Goto, HandlersOK
<1>4. Return(h) => HandlersOK
  BY <1>1, <1>2 DEF Return, HandlersOK
<1>5. ASSUME NEW a \in Calls, Begin(h, p, a) PROVE HandlersOK
  BY <1>2, <1>5 DEF Begin, HandlersOK
<1> QED BY <1>3, <1>4, <1>5

LEMMA AdminType ==
  ASSUME VoucherInv, AdminStep PROVE TypeOK'
<1> USE DEF VoucherInv, voucherVars, smaxVars, handlerVars
<1>1. ASSUME NEW v \in Vouchers, NEW status \in AdminStatuses, NEW expires \in BOOLEAN,
             CreateVoucher(v, status, expires) PROVE TypeOK'
  BY <1>1 DEF CreateVoucher, TypeOK
<1>2. ASSUME NEW h \in Handlers, NEW v \in Vouchers, NEW status \in AdminStatuses,
             ReadVoucherStatus(h, v, status) PROVE TypeOK'
  <2>1. Call(None, v, None, status) \in Calls
    BY DEF Calls
  <2> HIDE DEF Call
  <2> QED BY <1>2, <2>1, HandlerType DEF ReadVoucherStatus, TypeOK, HandlersOK, PCs
<1>3. ASSUME NEW v \in Vouchers, NEW status \in AdminStatuses, UpdateBatchStatus(v, status)
      PROVE  TypeOK'
  BY <1>3, TouchedType DEF UpdateBatchStatus, TypeOK
<1>4. ASSUME NEW h \in Handlers, NEW v \in Vouchers, ReadDelete(h, v) PROVE TypeOK'
  <2>1. Call(None, v, None, None) \in Calls
    BY DEF Calls
  <2> HIDE DEF Call
  <2>2. Begin(h, "deleting", Call(None, v, None, None))
    BY <1>4 DEF ReadDelete
  <2>3. TypeOK /\ "deleting" \in PCs
    BY DEF PCs
  <2>4. HandlersOK
    BY <2>1, <2>2, <2>3, HandlerType
  <2> HIDE DEF VoucherInv
  <2>5. UNCHANGED <<voucherVars, smaxVars, balance, stale>>
    BY <1>4 DEF ReadDelete
  <2> QED BY <2>3, <2>4, <2>5 DEF TypeOK, HandlersOK, PCs
<1> HIDE DEF VoucherInv, voucherVars, smaxVars, handlerVars
<1>5. CASE \E h \in Handlers : \/ \E v \in Vouchers, status \in AdminStatuses : ReadVoucherStatus(h, v, status)
                              \/ \E v \in Vouchers : ReadDelete(h, v)
  BY <1>2, <1>4, <1>5
<1>6. CASE \/ \E v \in Vouchers, status \in AdminStatuses, expires \in BOOLEAN : CreateVoucher(v, status, expires)
          \/ \E v \in Vouchers, status \in AdminStatuses : UpdateBatchStatus(v, status)
  BY <1>1, <1>3, <1>6
<1> QED BY <1>5, <1>6 DEF AdminStep

LEMMA ClockType ==
  ASSUME VoucherInv, ClockStep PROVE TypeOK'
<1> USE DEF VoucherInv, voucherVars, smaxVars, handlerVars
<1>1. ASSUME NEW v \in Vouchers, Expire(v) PROVE TypeOK'
  BY <1>1 DEF Expire, TypeOK
<1>2. ASSUME NEW v \in Vouchers, AutoUpdateExpired(v) PROVE TypeOK'
  BY <1>2, TouchedType DEF AutoUpdateExpired, TypeOK
<1>3. ASSUME NEW v \in Vouchers, RemoveByTtl(v) PROVE TypeOK'
  BY <1>3, TouchedType DEF RemoveByTtl, TypeOK
<1>4. ASSUME NEW x \in Codes, ForgetCode(x) PROVE TypeOK'
  BY <1>4 DEF ForgetCode, TypeOK
<1> QED BY <1>1, <1>2, <1>3, <1>4 DEF ClockStep

LEMMA CustomerType ==
  ASSUME VoucherInv, CustomerStep PROVE TypeOK'
<1> USE DEF VoucherInv, voucherVars, smaxVars, handlerVars
<1>1. ASSUME NEW h \in Handlers, NEW c \in Customers, NEW key \in Keys \cup {None}, NEW v \in Vouchers,
             ReadVoucher(h, c, v, key) PROVE TypeOK'
  <2>1. Call(c, v, key, None) \in Calls
    BY DEF Calls
  <2> HIDE DEF Call
  <2> QED BY <1>1, <2>1, HandlerType DEF ReadVoucher, TypeOK, HandlersOK, PCs
<1>2. ASSUME NEW h \in Handlers, NEW c \in Customers, NEW key \in Keys \cup {None}, NEW x \in Codes,
             ReserveCode(h, c, x, key) PROVE TypeOK'
  <2>1. Call(c, x, key, None) \in Calls
    BY DEF Calls
  <2>2. smax' \in [Codes -> [status : {"none", "pending", "failed", "success"},
                             cust : Customers \cup {None}, key : Keys \cup {None}]]
    BY <1>2 DEF ReserveCode, TypeOK
  <2> HIDE DEF Call
  <2> QED BY <1>2, <2>1, <2>2, HandlerType DEF ReserveCode, TypeOK, HandlersOK, PCs
<1> QED BY <1>1, <1>2 DEF CustomerStep

LEMMA AddType ==
  ASSUME TypeOK, NEW c \in Customers, NEW credit \in [CreditTypes -> Nat]
  PROVE  Add(credit, c) \in [Customers -> [CreditTypes -> Nat]]
<1>1. [ty \in CreditTypes |-> balance[c][ty] + credit[ty]] \in [CreditTypes -> Nat]
  BY DEF TypeOK
<1> QED BY <1>1 DEF Add, TypeOK

LEMMA SmaxType ==
  ASSUME TypeOK, NEW x \in Codes, NEW s \in {"failed", "success"}
  PROVE  [smax EXCEPT ![x].status = s] \in
           [Codes -> [status : {"none", "pending", "failed", "success"},
                      cust : Customers \cup {None}, key : Keys \cup {None}]]
<1> DEFINE Txs == [status : {"none", "pending", "failed", "success"},
                   cust : Customers \cup {None}, key : Keys \cup {None}]
<1>1. smax \in [Codes -> Txs]
  BY DEF TypeOK
<1>2. \A t \in Txs : [t EXCEPT !.status = s] \in Txs
  OBVIOUS
<1> HIDE DEF Txs
<1>3. [smax EXCEPT ![x].status = s] \in [Codes -> Txs]
  BY <1>1, <1>2
<1> QED BY <1>3 DEF Txs

LEMMA AdvanceType ==
  ASSUME VoucherInv, NEW h \in Handlers, Advance(h) PROVE TypeOK'
<1> USE DEF VoucherInv, JobInv, voucherVars, smaxVars, handlerVars
<1>0. /\ Goto(h, "counted") \/ Goto(h, "taken") \/ Goto(h, "paid") \/ Goto(h, "granting") \/ Return(h)
         => HandlersOK
      /\ [stale EXCEPT ![h] = {}] \in [Handlers -> SUBSET {"voucher", "customer"}]
  <2>1. [stale EXCEPT ![h] = {}] \in [Handlers -> SUBSET {"voucher", "customer"}]
    BY DEF TypeOK
  <2> QED BY <2>1, HandlerType DEF PCs
<1> USE DEF HandlersOK, PCs
<1>1. CASE WriteVoucherStatus(h)
  <2>1. call[h].on \in Vouchers /\ call[h].status \in VoucherStatuses
    BY <1>1 DEF WriteVoucherStatus
  <2>2. /\ voucher' \in [Vouchers -> VoucherStatuses \cup {"none", "removed"}]
        /\ reopened' \in [Vouchers -> Nat]
        /\ stale' \in [Handlers -> SUBSET {"voucher", "customer"}]
    <3>1. CASE Exists(call[h].on)
      <4>1. reopened' = reopened \/ reopened' = [reopened EXCEPT ![call[h].on] = @ + 1]
        BY <1>1, <3>1 DEF WriteVoucherStatus
      <4>2. voucher' = [voucher EXCEPT ![call[h].on] = call[h].status]
        BY <1>1, <3>1 DEF WriteVoucherStatus
      <4>3. stale' = Touched({call[h].on}, {})
        BY <1>1, <3>1 DEF WriteVoucherStatus
      <4>4. reopened' \in [Vouchers -> Nat]
        <5>1. reopened \in [Vouchers -> Nat] /\ reopened[call[h].on] + 1 \in Nat
          BY <2>1 DEF TypeOK
        <5> QED BY <2>1, <4>1, <5>1
      <4> QED BY <2>1, <4>2, <4>3, <4>4, TouchedType DEF TypeOK
    <3>2. CASE ~Exists(call[h].on)
      <4>1. UNCHANGED <<voucher, reopened, stale>>
        BY <1>1, <3>2 DEF WriteVoucherStatus
      <4> QED BY <4>1 DEF TypeOK
    <3> QED BY <3>1, <3>2
  <2> QED BY <1>0, <1>1, <2>2 DEF WriteVoucherStatus, TypeOK
<1>2. CASE SaveDelete(h)
  <2>1. deleted' \subseteq Vouchers /\ stale' \in [Handlers -> SUBSET {"voucher", "customer"}]
    BY <1>2, TouchedType DEF SaveDelete, TypeOK
  <2> QED BY <1>0, <1>2, <2>1 DEF SaveDelete, TypeOK
<1>3. CASE CountUses(h) \/ TakeUse(h) \/ PayVoucher(h)
  <2>1. CASE CountUses(h)
    BY <1>0, <2>1 DEF CountUses, TypeOK
  <2>2. CASE TakeUse(h)
    BY <1>0, <2>2 DEF TakeUse, TypeOK
  <2>3. CASE PayVoucher(h)
    BY <1>0, <2>3 DEF PayVoucher, TypeOK
  <2> QED BY <1>3, <2>1, <2>2, <2>3
<1>4. CASE CommitVoucher(h)
  <2> DEFINE v == call[h].on
             c == call[h].cust
  <2>1. v \in Vouchers /\ c \in Customers /\ call[h].key \in Keys \cup {None}
    BY <1>4 DEF CommitVoucher, TypeOK, Calls
  <2>2. [Touched({v}, {c}) EXCEPT ![h] = {}] \in [Handlers -> SUBSET {"voucher", "customer"}]
    BY TouchedType
  <2>3. redeemed' \in [Vouchers -> Seq([cust : Customers, key : Keys \cup {None}])]
    <3> DEFINE entry == [cust |-> c, key |-> call[h].key]
               Entries == [cust : Customers, key : Keys \cup {None}]
    <3>1. entry \in Entries
      BY <2>1
    <3>2. redeemed \in [Vouchers -> Seq(Entries)] /\ redeemed' = [redeemed EXCEPT ![v] = Append(@, entry)]
      BY <1>4 DEF CommitVoucher, TypeOK
    <3> HIDE DEF entry, Entries
    <3>3. redeemed' \in [Vouchers -> Seq(Entries)]
      BY <2>1, <3>1, <3>2
    <3> QED BY <3>3 DEF Entries
  <2>4. balance' \in [Customers -> [CreditTypes -> Nat]]
    BY <1>4, <2>1, AddType DEF CommitVoucher
  <2>5. uses' \in [Vouchers -> Nat]
    <3>1. uses' = [uses EXCEPT ![v] = @ + 1] /\ uses \in [Vouchers -> Nat]
      BY <1>4 DEF CommitVoucher, TypeOK
    <3> QED BY <2>1, <3>1
  <2>6. voucher' \in [Vouchers -> VoucherStatuses \cup {"none", "removed"}]
    <3>1. voucher' = voucher \/ voucher' = [voucher EXCEPT ![v] = "used"]
      BY <1>4 DEF CommitVoucher
    <3> QED BY <2>1, <3>1 DEF TypeOK
  <2> QED BY <1>0, <1>4, <2>2, <2>3, <2>4, <2>5, <2>6 DEF CommitVoucher, TypeOK
<1>5. CASE AbortVoucher(h)
  BY <1>0, <1>5 DEF AbortVoucher, TypeOK
<1>6. CASE RefuseCode(h)
  <2>1. smax' \in [Codes -> [status : {"none", "pending", "failed", "success"},
                             cust : Customers \cup {None}, key : Keys \cup {None}]]
    <3>1. call[h].on \in Codes /\ smax' = [smax EXCEPT ![call[h].on].status = "failed"]
      BY <1>6 DEF RefuseCode
    <3> QED BY <3>1, SmaxType
  <2> QED BY <1>0, <1>6, <2>1 DEF RefuseCode, TypeOK
<1>7. CASE GrantCode(h)
  BY <1>0, <1>7 DEF GrantCode, TypeOK
<1>8. CASE CommitCode(h)
  <2> DEFINE c == call[h].cust
             credit == [ty \in CreditTypes |-> IF ty = "REWARD" THEN CodeAmount[call[h].on] ELSE 0]
  <2>1. call[h].on \in Codes /\ c \in Customers
    BY <1>8 DEF CommitCode
  <2>2. credit \in [CreditTypes -> Nat]
    BY <2>1
  <2>3. balance' \in [Customers -> [CreditTypes -> Nat]]
    <3> HIDE DEF credit
    <3>1. balance' = Add(credit, c)
      BY <1>8 DEF CommitCode, credit
    <3> QED BY <2>1, <2>2, <3>1, AddType
  <2>4. [Touched({}, {c}) EXCEPT ![h] = {}] \in [Handlers -> SUBSET {"voucher", "customer"}]
    BY TouchedType
  <2>5. smax' \in [Codes -> [status : {"none", "pending", "failed", "success"},
                             cust : Customers \cup {None}, key : Keys \cup {None}]]
    <3>1. smax' = [smax EXCEPT ![call[h].on].status = "success"]
      BY <1>8 DEF CommitCode
    <3> QED BY <2>1, <3>1, SmaxType
  <2> QED BY <1>0, <1>8, <2>3, <2>4, <2>5 DEF CommitCode, TypeOK
<1>9. CASE AbortCode(h)
  BY <1>0, <1>9 DEF AbortCode, TypeOK
<1> QED BY <1>1, <1>2, <1>3, <1>4, <1>5, <1>6, <1>7, <1>8, <1>9 DEF Advance

LEMMA TypeStep ==
  ASSUME VoucherInv, [Next]_vars PROVE TypeOK'
<1>1. CASE Crash
  BY <1>1 DEF Crash, VoucherInv, TypeOK, Calls, voucherVars
<1>2. CASE UNCHANGED vars
  BY <1>2 DEF vars, VoucherInv, TypeOK, voucherVars, smaxVars, handlerVars
<1> QED BY <1>1, <1>2, AdminType, ClockType, CustomerType, AdvanceType DEF Next

-----------------------------------------------------------------------------
(* A use that was taken stays there until its transaction ends.            *)

Holders == JobInv /\ OneHolder

\* What no step but a commit does: change a voucher that is held.
HeldStays ==
    \A v \in Vouchers : VoucherHeld(v) => voucher'[v] = voucher[v] /\ uses'[v] = uses[v]

LEMMA StayHolders ==
  ASSUME VoucherInv, HeldStays, UNCHANGED <<pc, call>>
  PROVE  Holders'
BY DEF VoucherInv, Holders, HeldStays, JobInv, OneHolder, UseAvailable

\* Handler h ends, or goes where it holds nothing.
LEMMA MoveHolders ==
  ASSUME VoucherInv, HeldStays, NEW h \in Handlers,
         \A g \in Handlers \ {h} : pc'[g] = pc[g] /\ call'[g] = call[g],
         pc'[h] \notin Holding,
         pc'[h] \in OnVoucher => call'[h].on \in Vouchers,
         pc'[h] \in OnCode => call'[h].on \in Codes,
         pc'[h] \in Redeeming \cup OnCode => call'[h].cust \in Customers,
         pc'[h] = "updating" => call'[h].status \in AdminStatuses
  PROVE  Holders'
BY SMTT(20) DEF VoucherInv, Holders, HeldStays, JobInv, OneHolder, UseAvailable

LEMMA AdvanceHolders ==
  ASSUME VoucherInv, NEW h \in Handlers, Advance(h) PROVE Holders'
<1>0. pc \in [Handlers -> PCs] /\ call \in [Handlers -> Calls]
  BY DEF VoucherInv, TypeOK, PCs
<1>1. CASE HeldStays /\ Return(h)
  <2>1. pc'[h] = "idle" /\ \A g \in Handlers \ {h} : pc'[g] = pc[g] /\ call'[g] = call[g]
    BY <1>0, <1>1 DEF Return
  <2> QED BY <1>1, <2>1, MoveHolders
<1>2. CASE WriteVoucherStatus(h)
  <2>1. HeldStays
    BY <1>2 DEF WriteVoucherStatus, HeldStays, VoucherInv, TypeOK
  <2> QED BY <1>1, <1>2, <2>1 DEF WriteVoucherStatus
<1>3. CASE UNCHANGED <<voucher, uses>> /\ Return(h)
  BY <1>1, <1>3 DEF HeldStays
<1>4. CASE UNCHANGED <<voucher, uses>> /\ \E p \in {"counted", "granting"} : Goto(h, p) /\ pc[h] \in {"checked", "asking"}
           /\ (p = "granting" <=> pc[h] = "asking")
  <2>1. HeldStays
    BY <1>4 DEF HeldStays
  <2>2. pc'[h] \in {"counted", "granting"} /\ \A g \in Handlers \ {h} : pc'[g] = pc[g] /\ call'[g] = call[g]
    BY <1>0, <1>4 DEF Goto
  <2>3. call'[h] = call[h]
    BY <1>4 DEF Goto
  <2>4. pc[h] \in {"checked", "asking"} /\ (pc'[h] = "granting" <=> pc[h] = "asking")
    BY <1>0, <1>4 DEF Goto
  <2> QED BY <2>1, <2>2, <2>3, <2>4, MoveHolders DEF VoucherInv, JobInv
<1>5. CASE TakeUse(h)
  <2>1. /\ pc' = [pc EXCEPT ![h] = "taken"] /\ call' = call /\ voucher' = voucher /\ uses' = uses
        /\ pc[h] \in {"checked", "counted"}
        /\ ~VoucherHeld(call[h].on) /\ UseAvailable(call[h].on)
    BY <1>5 DEF TakeUse, Goto, voucherVars
  <2>2. JobInv'
    BY <1>0, <2>1 DEF VoucherInv, JobInv, UseAvailable
  <2>3. OneHolder'
    BY <1>0, <2>1 DEF VoucherInv, OneHolder
  <2> QED BY <2>2, <2>3 DEF Holders
<1>6. CASE PayVoucher(h)
  <2>1. /\ pc' = [pc EXCEPT ![h] = "paid"] /\ call' = call /\ voucher' = voucher /\ uses' = uses
        /\ pc[h] = "taken"
    BY <1>6 DEF PayVoucher, Goto, voucherVars
  <2>2. JobInv'
    BY <1>0, <2>1 DEF VoucherInv, JobInv, UseAvailable
  <2>3. OneHolder'
    BY <1>0, <2>1 DEF VoucherInv, OneHolder
  <2> QED BY <2>2, <2>3 DEF Holders
<1>7. CASE CommitVoucher(h)
  <2>1. pc' = [pc EXCEPT ![h] = "idle"] /\ call' = [call EXCEPT ![h] = NoCall] /\ pc[h] = "paid"
    BY <1>7 DEF CommitVoucher, Return
  <2>2. \A v \in Vouchers \ {call[h].on} : voucher'[v] = voucher[v] /\ uses'[v] = uses[v]
    BY <1>7 DEF CommitVoucher, VoucherInv, TypeOK
  <2>3. \A g \in Handlers \ {h} : pc[g] \in Holding => call[g].on # call[h].on
    BY <2>1 DEF VoucherInv, OneHolder
  <2>4. JobInv'
    BY <1>0, <2>1, <2>2, <2>3 DEF VoucherInv, JobInv, UseAvailable
  <2>5. OneHolder'
    BY <1>0, <2>1 DEF VoucherInv, OneHolder
  <2> QED BY <2>4, <2>5 DEF Holders
<1> QED
  BY <1>2, <1>3, <1>4, <1>5, <1>6, <1>7
  DEF Advance, SaveDelete, CountUses, AbortVoucher, RefuseCode, GrantCode, CommitCode, AbortCode, voucherVars

LEMMA HolderStep ==
  ASSUME VoucherInv, [Next]_vars PROVE Holders'
<1>0. pc \in [Handlers -> PCs] /\ call \in [Handlers -> Calls]
  BY DEF VoucherInv, TypeOK, PCs
<1>1. CASE HeldStays /\ UNCHANGED <<pc, call>>
  BY <1>1, StayHolders
<1>2. CASE UNCHANGED <<voucher, uses, pc, call>>
  BY <1>1, <1>2 DEF HeldStays
<1>3. ASSUME NEW v \in Vouchers, NEW status \in AdminStatuses, NEW expires \in BOOLEAN,
             CreateVoucher(v, status, expires) PROVE Holders'
  <2>1. ~VoucherHeld(v)
    BY <1>3 DEF CreateVoucher, VoucherInv, JobInv, UseAvailable
  <2> QED BY <1>1, <1>3, <2>1 DEF CreateVoucher, HeldStays, handlerVars, VoucherInv, TypeOK
<1>4. ASSUME NEW v \in Vouchers, NEW status \in AdminStatuses, UpdateBatchStatus(v, status) PROVE Holders'
  BY <1>1, <1>4 DEF UpdateBatchStatus, HeldStays, VoucherInv, TypeOK
<1>5. ASSUME NEW v \in Vouchers, AutoUpdateExpired(v) \/ RemoveByTtl(v) PROVE Holders'
  BY <1>1, <1>5 DEF AutoUpdateExpired, RemoveByTtl, HeldStays, VoucherInv, TypeOK
<1>6. ASSUME NEW h \in Handlers, NEW v \in Vouchers, NEW status \in AdminStatuses,
             ReadVoucherStatus(h, v, status) PROVE Holders'
  <2>1. HeldStays
    BY <1>6 DEF ReadVoucherStatus, HeldStays, voucherVars
  <2>2. /\ pc'[h] = "updating" /\ call'[h] = Call(None, v, None, status)
        /\ \A g \in Handlers \ {h} : pc'[g] = pc[g] /\ call'[g] = call[g]
    BY <1>0, <1>6 DEF ReadVoucherStatus, Begin
  <2> QED BY <2>1, <2>2, MoveHolders
<1>7. ASSUME NEW h \in Handlers, NEW v \in Vouchers, ReadDelete(h, v) PROVE Holders'
  <2>1. HeldStays
    BY <1>7 DEF ReadDelete, HeldStays, voucherVars
  <2>2. /\ pc'[h] = "deleting" /\ call'[h] = Call(None, v, None, None)
        /\ \A g \in Handlers \ {h} : pc'[g] = pc[g] /\ call'[g] = call[g]
    BY <1>0, <1>7 DEF ReadDelete, Begin
  <2> QED BY <2>1, <2>2, MoveHolders
<1>8. ASSUME NEW h \in Handlers, NEW c \in Customers, NEW key \in Keys \cup {None}, NEW v \in Vouchers,
             ReadVoucher(h, c, v, key) PROVE Holders'
  <2>1. HeldStays
    BY <1>8 DEF ReadVoucher, HeldStays, voucherVars
  <2>2. /\ pc'[h] = "checked" /\ call'[h] = Call(c, v, key, None)
        /\ \A g \in Handlers \ {h} : pc'[g] = pc[g] /\ call'[g] = call[g]
    BY <1>0, <1>8 DEF ReadVoucher, Begin
  <2> QED BY <2>1, <2>2, MoveHolders
<1>9. ASSUME NEW h \in Handlers, NEW c \in Customers, NEW key \in Keys \cup {None}, NEW x \in Codes,
             ReserveCode(h, c, x, key) PROVE Holders'
  <2>1. HeldStays
    BY <1>9 DEF ReserveCode, HeldStays, voucherVars
  <2>2. /\ pc'[h] = "asking" /\ call'[h] = Call(c, x, key, None)
        /\ \A g \in Handlers \ {h} : pc'[g] = pc[g] /\ call'[g] = call[g]
    BY <1>0, <1>9 DEF ReserveCode, Begin
  <2> QED BY <2>1, <2>2, MoveHolders
<1>10. CASE Crash
  BY <1>10 DEF Crash, Holders, JobInv, OneHolder
<1>11. CASE UNCHANGED vars
  BY <1>2, <1>11 DEF vars, voucherVars, handlerVars
<1> QED
  <2>1. CASE AdminStep
    <3>1. CASE \E h \in Handlers : \/ \E v \in Vouchers, status \in AdminStatuses : ReadVoucherStatus(h, v, status)
                                  \/ \E v \in Vouchers : ReadDelete(h, v)
      BY <1>6, <1>7, <3>1
    <3>2. CASE \/ \E v \in Vouchers, status \in AdminStatuses, expires \in BOOLEAN : CreateVoucher(v, status, expires)
              \/ \E v \in Vouchers, status \in AdminStatuses : UpdateBatchStatus(v, status)
      BY <1>3, <1>4, <3>2
    <3> QED BY <2>1, <3>1, <3>2 DEF AdminStep
  <2>2. CASE ClockStep
    BY <1>2, <1>5, <2>2 DEF ClockStep, Expire, ForgetCode, voucherVars, handlerVars
  <2>3. CASE CustomerStep
    BY <1>8, <1>9, <2>3 DEF CustomerStep
  <2> QED BY <1>10, <1>11, <2>1, <2>2, <2>3, AdvanceHolders DEF Next

-----------------------------------------------------------------------------
(* Uses stay within maxUses.                                               *)

\* Redemptions are only recorded by a commit, and the history only grows.
RecordsStay == UNCHANGED <<uses, redeemed>> /\ \A v \in Vouchers : reopened'[v] \in Nat /\ reopened'[v] >= reopened[v]

LEMMA CommitUses ==
  ASSUME VoucherInv, SingleInv, UsesAreBounded, NEW h \in Handlers, CommitVoucher(h)
  PROVE  SingleInv' /\ UsesAreBounded'
<1> DEFINE v == call[h].on
<1>1. v \in Vouchers /\ UseAvailable(v)
  BY DEF CommitVoucher, VoucherInv, JobInv
<1>2. /\ uses' = [uses EXCEPT ![v] = @ + 1] /\ uses \in [Vouchers -> Nat]
      /\ reopened' = reopened
      /\ voucher' = IF v \notin Shared \/ uses[v] + 1 >= MaxUses[v]
                      THEN [voucher EXCEPT ![v] = "used"] ELSE voucher
      /\ voucher \in [Vouchers -> VoucherStatuses \cup {"none", "removed"}]
  BY DEF CommitVoucher, VoucherInv, TypeOK
<1>3. SingleInv'
  <2>1. \A w \in Vouchers \ Shared : w = v => voucher[w] # "used" /\ voucher'[w] = "used"
    BY <1>1, <1>2 DEF UseAvailable
  <2>2. \A w \in Vouchers : uses[w] \in Nat /\ reopened[w] \in Nat
    BY DEF VoucherInv, TypeOK
  <2>3. \A w \in Vouchers \ {v} : voucher'[w] = voucher[w] /\ uses'[w] = uses[w]
    BY <1>1, <1>2
  <2>4. uses'[v] = uses[v] + 1
    BY <1>1, <1>2
  <2> QED BY <1>2, <2>1, <2>2, <2>3, <2>4 DEF SingleInv
<1>4. uses'[v] = Len(redeemed'[v]) /\ \A w \in Vouchers \ {v} : redeemed'[w] = redeemed[w]
  <2> DEFINE entry == [cust |-> call[h].cust, key |-> call[h].key]
             Entries == [cust : Customers, key : Keys \cup {None}]
  <2>1. redeemed \in [Vouchers -> Seq(Entries)] /\ redeemed' = [redeemed EXCEPT ![v] = Append(@, entry)]
    BY DEF CommitVoucher, VoucherInv, TypeOK
  <2>2. entry \in Entries
    BY DEF CommitVoucher, VoucherInv, TypeOK, JobInv, Calls
  <2> HIDE DEF entry, Entries
  <2>3. redeemed'[v] = Append(redeemed[v], entry) /\ \A w \in Vouchers \ {v} : redeemed'[w] = redeemed[w]
    BY <1>1, <2>1
  <2>4. Len(redeemed'[v]) = Len(redeemed[v]) + 1
    BY <1>1, <2>1, <2>2, <2>3
  <2> QED BY <1>1, <1>2, <2>3, <2>4 DEF UsesAreBounded
<1>5. uses[v] + 1 <= MaxUses[v] + (IF v \in Shared THEN 0 ELSE reopened[v])
  <2>1. v \in Shared => uses[v] < MaxUses[v]
    BY <1>1 DEF UseAvailable
  <2>2. uses[v] \in Nat /\ MaxUses[v] \in Nat \ {0} /\ reopened[v] \in Nat
    BY <1>1 DEF VoucherInv, TypeOK
  <2>3. CASE v \in Shared
    BY <2>1, <2>2, <2>3
  <2>4. CASE v \notin Shared
    <3>1. voucher[v] # "used"
      BY <1>1 DEF UseAvailable
    <3>2. uses[v] <= reopened[v] + 0
      BY <1>1, <2>4, <3>1 DEF SingleInv
    <3> QED BY <2>2, <2>4, <3>2
  <2> QED BY <2>3, <2>4
<1>6. UsesAreBounded'
  BY <1>1, <1>2, <1>4, <1>5 DEF UsesAreBounded
<1> QED BY <1>3, <1>6

LEMMA UsesStep ==
  ASSUME VoucherInv, SingleInv, UsesAreBounded, [Next]_vars
  PROVE  SingleInv' /\ UsesAreBounded'
<1>1. CASE /\ RecordsStay
           /\ \A v \in Vouchers \ Shared :
                 voucher[v] = "used" =>
                    voucher'[v] = "used" \/ reopened'[v] >= reopened[v] + 1 \/ uses[v] = 0
  <2>1. \A v \in Vouchers : uses[v] \in Nat /\ reopened[v] \in Nat /\ MaxUses[v] \in Nat \ {0}
    BY DEF VoucherInv, TypeOK
  <2>2. UsesAreBounded'
    <3>1. ASSUME NEW v \in Vouchers
          PROVE  /\ uses'[v] = Len(redeemed'[v])
                 /\ uses'[v] <= MaxUses[v] + (IF v \in Shared THEN 0 ELSE reopened'[v])
      <4>1. /\ uses' = uses /\ redeemed' = redeemed
            /\ reopened'[v] \in Nat /\ reopened'[v] >= reopened[v]
        BY <1>1 DEF RecordsStay
      <4>2. /\ uses[v] = Len(redeemed[v])
            /\ uses[v] <= MaxUses[v] + (IF v \in Shared THEN 0 ELSE reopened[v])
        BY DEF UsesAreBounded
      <4>3. CASE v \in Shared
        BY <4>1, <4>2, <4>3
      <4>4. CASE v \notin Shared
        BY <2>1, <4>1, <4>2, <4>4
      <4> QED BY <4>3, <4>4
    <3> QED BY <3>1 DEF UsesAreBounded
  <2>3. ASSUME NEW v \in Vouchers \ Shared
        PROVE  uses'[v] <= reopened'[v] + (IF voucher'[v] = "used" THEN 1 ELSE 0)
    <3>1. /\ uses'[v] = uses[v] /\ reopened'[v] \in Nat /\ reopened'[v] >= reopened[v]
          /\ uses[v] <= reopened[v] + (IF voucher[v] = "used" THEN 1 ELSE 0)
      BY <1>1 DEF RecordsStay, SingleInv
    <3>2. CASE voucher[v] # "used" \/ voucher'[v] = "used"
      BY <2>1, <3>1, <3>2
    <3>3. CASE voucher[v] = "used" /\ voucher'[v] # "used"
      <4>1. reopened'[v] >= reopened[v] + 1 \/ uses[v] = 0
        BY <1>1, <3>3
      <4> QED BY <2>1, <3>1, <3>3, <4>1
    <3> QED BY <3>2, <3>3
  <2> QED BY <2>2, <2>3 DEF SingleInv
<1>0. UNCHANGED <<uses, redeemed, reopened>> => RecordsStay
  BY DEF RecordsStay, VoucherInv, TypeOK
<1>2. CASE UNCHANGED <<uses, redeemed, reopened, voucher>>
  BY <1>0, <1>1, <1>2
<1> USE <1>0 DEF VoucherInv, TypeOK, voucherVars, handlerVars
<1>3. ASSUME NEW v \in Vouchers, NEW status \in AdminStatuses, NEW expires \in BOOLEAN,
             CreateVoucher(v, status, expires) PROVE SingleInv' /\ UsesAreBounded'
  BY <1>1, <1>3 DEF CreateVoucher
<1>4. ASSUME NEW v \in Vouchers, NEW status \in AdminStatuses, UpdateBatchStatus(v, status)
      PROVE  SingleInv' /\ UsesAreBounded'
  BY <1>1, <1>4 DEF UpdateBatchStatus
<1>5. ASSUME NEW v \in Vouchers, AutoUpdateExpired(v) PROVE SingleInv' /\ UsesAreBounded'
  BY <1>1, <1>5 DEF AutoUpdateExpired
<1>6. ASSUME NEW v \in Vouchers, RemoveByTtl(v) PROVE SingleInv' /\ UsesAreBounded'
  <2>1. uses[v] = 0
    BY <1>6 DEF RemoveByTtl, TtlDue, UsesAreBounded
  <2> QED BY <1>1, <1>6, <2>1 DEF RemoveByTtl
<1>7. ASSUME NEW h \in Handlers, WriteVoucherStatus(h) PROVE SingleInv' /\ UsesAreBounded'
  <2>1. CASE Exists(call[h].on)
    <3>1. /\ voucher' = [voucher EXCEPT ![call[h].on] = call[h].status]
          /\ reopened' = IF voucher[call[h].on] = "used" /\ call[h].status # "used"
                         THEN [reopened EXCEPT ![call[h].on] = @ + 1] ELSE reopened
          /\ UNCHANGED <<uses, redeemed>>
      BY <1>7, <2>1 DEF WriteVoucherStatus
    <3>2. call[h].on \in Vouchers /\ reopened \in [Vouchers -> Nat]
      BY <1>7 DEF WriteVoucherStatus, JobInv
    <3>3. \A v \in Vouchers : reopened[v] \in Nat
      BY <3>2
    <3>4. CASE voucher[call[h].on] = "used" /\ call[h].status # "used"
      <4>1. \A v \in Vouchers :
               reopened'[v] = IF v = call[h].on THEN reopened[v] + 1 ELSE reopened[v]
        BY <3>1, <3>2, <3>4
      <4>2. RecordsStay
        BY <3>1, <3>3, <4>1 DEF RecordsStay
      <4>3. \A v \in Vouchers : v # call[h].on => voucher'[v] = voucher[v]
        BY <3>1, <3>2
      <4>4. reopened'[call[h].on] >= reopened[call[h].on] + 1
        BY <3>2, <3>3, <4>1
      <4>5. \A v \in Vouchers \ Shared :
               voucher[v] = "used" =>
                  voucher'[v] = "used" \/ reopened'[v] >= reopened[v] + 1 \/ uses[v] = 0
        BY <4>3, <4>4
      <4> QED BY <1>1, <4>2, <4>5
    <3>5. CASE ~(voucher[call[h].on] = "used" /\ call[h].status # "used")
      <4>1. RecordsStay
        BY <3>1, <3>5
      <4>2. \A v \in Vouchers : voucher[v] = "used" => voucher'[v] = "used"
        BY <3>1, <3>2, <3>5
      <4> QED BY <1>1, <4>1, <4>2
    <3> QED BY <3>4, <3>5
  <2>2. CASE ~Exists(call[h].on)
    BY <1>2, <1>7, <2>2 DEF WriteVoucherStatus
  <2> QED BY <2>1, <2>2
<1>8. CASE AdminStep
  <2>1. ASSUME NEW h \in Handlers, NEW v \in Vouchers, NEW status \in AdminStatuses,
               ReadVoucherStatus(h, v, status) PROVE SingleInv' /\ UsesAreBounded'
    BY <1>2, <2>1 DEF ReadVoucherStatus
  <2>2. ASSUME NEW h \in Handlers, NEW v \in Vouchers, ReadDelete(h, v)
        PROVE  SingleInv' /\ UsesAreBounded'
    BY <1>2, <2>2 DEF ReadDelete
  <2> QED BY <1>3, <1>4, <1>8, <2>1, <2>2 DEF AdminStep
<1>9. CASE ClockStep
  BY <1>2, <1>5, <1>6, <1>9 DEF ClockStep, Expire, ForgetCode
<1>10. CASE CustomerStep \/ Crash \/ UNCHANGED vars
  <2>1. CASE CustomerStep
    BY <1>2, <2>1 DEF CustomerStep, ReadVoucher, ReserveCode
  <2>2. CASE Crash
    BY <1>2, <2>2 DEF Crash
  <2>3. CASE UNCHANGED vars
    BY <1>2, <2>3 DEF vars
  <2> QED BY <1>10, <2>1, <2>2, <2>3
<1>11. ASSUME NEW h \in Handlers, Advance(h) PROVE SingleInv' /\ UsesAreBounded'
  BY <1>2, <1>7, <1>11, CommitUses DEF Advance, SaveDelete, CountUses, TakeUse, PayVoucher, AbortVoucher,
     RefuseCode, GrantCode, CommitCode, AbortCode
<1> QED BY <1>8, <1>9, <1>10, <1>11 DEF Next

-----------------------------------------------------------------------------
(* A commit appends one redemption to its voucher.                         *)

Entries == [cust : Customers, key : Keys \cup {None}]

LEMMA CommitAppends ==
  ASSUME VoucherInv, NEW h \in Handlers, CommitVoucher(h), NEW v, v = call[h].on
  PROVE  /\ v \in Vouchers /\ Len(redeemed[v]) \in Nat
         /\ \A w \in Vouchers \ {v} : redeemed'[w] = redeemed[w]
         /\ Len(redeemed'[v]) = Len(redeemed[v]) + 1
         /\ \A i \in 1 .. Len(redeemed[v]) : redeemed'[v][i] = redeemed[v][i]
         /\ redeemed'[v][Len(redeemed[v]) + 1].cust = call[h].cust
         /\ redeemed'[v][Len(redeemed[v]) + 1].key = call[h].key
<1> DEFINE entry == [cust |-> call[h].cust, key |-> call[h].key]
<1>1. redeemed \in [Vouchers -> Seq(Entries)] /\ redeemed' = [redeemed EXCEPT ![v] = Append(@, entry)]
  BY DEF CommitVoucher, VoucherInv, TypeOK, Entries
<1>2. entry \in Entries /\ v \in Vouchers
  BY DEF CommitVoucher, VoucherInv, TypeOK, JobInv, Calls, Entries
<1>3. entry.cust = call[h].cust /\ entry.key = call[h].key
  OBVIOUS
<1> HIDE DEF entry, Entries
<1>4. redeemed'[v] = Append(redeemed[v], entry) /\ redeemed[v] \in Seq(Entries)
      /\ \A w \in Vouchers \ {v} : redeemed'[w] = redeemed[w]
  BY <1>1, <1>2
<1>5. /\ Len(redeemed[v]) \in Nat /\ Len(redeemed'[v]) = Len(redeemed[v]) + 1
      /\ \A i \in 1 .. Len(redeemed[v]) : redeemed'[v][i] = redeemed[v][i]
      /\ redeemed'[v][Len(redeemed[v]) + 1] = entry
  BY <1>2, <1>4
<1> QED BY <1>2, <1>3, <1>4, <1>5

LEMMA UsesByIsFinite ==
  ASSUME TypeOK, NEW v \in Vouchers, NEW c
  PROVE  IsFiniteSet(UsesBy(c, v)) /\ Cardinality(UsesBy(c, v)) \in Nat
<1>1. Len(redeemed[v]) \in Nat
  BY DEF TypeOK
<1> DEFINE n == Len(redeemed[v])
<1>2. UsesBy(c, v) \in SUBSET (1 .. n)
  BY DEF UsesBy
<1> HIDE DEF n
<1>4. IsFiniteSet(1 .. n)
  <2>1. n \in Int /\ 1 \in Int
    BY <1>1 DEF n
  <2> QED BY <2>1, FS_Interval
<1>3. IsFiniteSet(UsesBy(c, v))
  BY <1>2, <1>4, FS_Subset
<1> QED BY <1>3, FS_CardinalityType

LEMMA CommitCounts ==
  ASSUME VoucherInv, NEW h \in Handlers, CommitVoucher(h), NEW v \in Vouchers, NEW c
  PROVE  IF v = call[h].on /\ c = call[h].cust
         THEN Cardinality(UsesBy(c, v)') = Cardinality(UsesBy(c, v)) + 1
         ELSE UsesBy(c, v)' = UsesBy(c, v)
<1>1. CASE v # call[h].on
  <2>1. PICK u : u = call[h].on
    OBVIOUS
  <2>3. \A w \in Vouchers \ {u} : redeemed'[w] = redeemed[w]
    BY <2>1, CommitAppends
  <2>2. redeemed'[v] = redeemed[v]
    BY <1>1, <2>1, <2>3
  <2> QED BY <1>1, <2>2 DEF UsesBy
<1>2. CASE v = call[h].on
  <2> DEFINE n == Len(redeemed[v])
  <2>1. /\ n \in Nat /\ Len(redeemed'[v]) = n + 1
        /\ \A i \in 1 .. n : redeemed'[v][i] = redeemed[v][i]
        /\ redeemed'[v][n + 1].cust = call[h].cust
    BY <1>2, CommitAppends
  <2>2. 1 .. (n + 1) = (1 .. n) \cup {n + 1} /\ n + 1 \notin 1 .. n
    BY <2>1, NextIndex
  <2>3. UsesBy(c, v)' = IF c = call[h].cust THEN UsesBy(c, v) \cup {n + 1} ELSE UsesBy(c, v)
    BY <2>1, <2>2 DEF UsesBy
  <2>4. IsFiniteSet(UsesBy(c, v)) /\ Cardinality(UsesBy(c, v)) \in Nat
    BY UsesByIsFinite DEF VoucherInv
  <2>6. n + 1 \notin UsesBy(c, v)
    BY <2>2 DEF UsesBy
  <2>5. Cardinality(UsesBy(c, v) \cup {n + 1}) = Cardinality(UsesBy(c, v)) + 1
    <3> DEFINE S == UsesBy(c, v)
    <3> HIDE DEF S, n
    <3>1. IsFiniteSet(S) /\ n + 1 \notin S
      BY <2>4, <2>6 DEF S
    <3>2. Cardinality(S \cup {n + 1}) = Cardinality(S) + 1
      BY <3>1, FS_AddElement
    <3> QED BY <3>2 DEF S
  <2> QED BY <1>2, <2>3, <2>5
<1> QED BY <1>1, <1>2

-----------------------------------------------------------------------------
(* The limit of one customer.                                              *)

MayCommit(h) ==
    /\ call[h].on \in Limited
    /\ pc[h] \in Holding \/ (pc[h] = "counted" /\ "voucher" \notin stale[h])

\* Whoever may commit could before, and nobody has.
CountsStay ==
    /\ redeemed' = redeemed
    /\ \A h \in Handlers : MayCommit(h)' => MayCommit(h) /\ call'[h] = call[h]

LEMMA CountsStayStep ==
  ASSUME CountInv, PerUserLimit, CountsStay
  PROVE  CountInv' /\ PerUserLimit'
<1>1. \A v, c : UsesBy(c, v)' = UsesBy(c, v)
  BY DEF CountsStay, UsesBy
<1>2. PerUserLimit'
  BY <1>1 DEF PerUserLimit
<1>3. ASSUME NEW h \in Handlers, MayCommit(h)'
      PROVE  (Cardinality(UsesBy(call[h].cust, call[h].on)) < UsagePerUser[call[h].on])'
  <2>1. MayCommit(h) /\ call'[h] = call[h]
    BY <1>3 DEF CountsStay
  <2>2. PICK c, v : c = call[h].cust /\ v = call[h].on
    OBVIOUS
  <2>3. Cardinality(UsesBy(c, v)) < UsagePerUser[v]
    BY <2>1, <2>2 DEF CountInv, MayCommit
  <2>4. UsesBy(call[h].cust, call[h].on)' = UsesBy(c, v)'
    BY <2>1, <2>2 DEF UsesBy
  <2> QED BY <1>1, <2>1, <2>2, <2>3, <2>4
<1> QED BY <1>2, <1>3 DEF CountInv, MayCommit

LEMMA CommitLimit ==
  ASSUME VoucherInv, CountInv, PerUserLimit, NEW h \in Handlers, CommitVoucher(h)
  PROVE  CountInv' /\ PerUserLimit'
<1>0. /\ pc \in [Handlers -> PCs] /\ call \in [Handlers -> Calls]
      /\ pc' = [pc EXCEPT ![h] = "idle"] /\ call' = [call EXCEPT ![h] = NoCall] /\ pc[h] = "paid"
      /\ call[h].on \in Vouchers
  BY DEF VoucherInv, TypeOK, PCs, CommitVoucher, Return, JobInv
<1>1. ASSUME NEW g \in Handlers, MayCommit(g)'
      PROVE  (Cardinality(UsesBy(call[g].cust, call[g].on)) < UsagePerUser[call[g].on])'
  <2>1. g # h /\ pc'[g] = pc[g] /\ call'[g] = call[g] /\ pc[g] \in Holding \cup {"counted"}
    BY <1>0, <1>1 DEF MayCommit
  <2>2. stale'[g] = stale[g] \cup (IF call[g].on = call[h].on THEN {"voucher"} ELSE {})
                      \cup (IF call[g].cust = call[h].cust THEN {"customer"} ELSE {})
    BY <2>1 DEF CommitVoucher, Touched, VoucherInv, TypeOK
  <2>3. call[g].on # call[h].on
    BY <1>0, <1>1, <2>1, <2>2 DEF MayCommit, VoucherInv, OneHolder
  <2>4. MayCommit(g)
    BY <1>1, <2>1, <2>2 DEF MayCommit
  <2>5. PICK c, v : c = call[g].cust /\ v = call[g].on
    OBVIOUS
  <2>6. Cardinality(UsesBy(c, v)) < UsagePerUser[v] /\ v \in Vouchers
    BY <2>4, <2>5 DEF CountInv, MayCommit
  <2>7. UsesBy(c, v)' = UsesBy(c, v)
    BY <2>3, <2>5, <2>6, CommitCounts
  <2>8. UsesBy(call[g].cust, call[g].on)' = UsesBy(c, v)'
    BY <2>1, <2>5 DEF UsesBy
  <2> QED BY <2>1, <2>5, <2>6, <2>7, <2>8
<1>2. ASSUME NEW v \in Shared, NEW c \in Customers, UsagePerUser[v] > 0
      PROVE  Cardinality(UsesBy(c, v)') <= UsagePerUser[v]
  <2>1. v \in Vouchers /\ UsagePerUser[v] \in Nat /\ Cardinality(UsesBy(c, v)) \in Nat
    BY UsesByIsFinite DEF VoucherInv
  <2>2. CASE v = call[h].on /\ c = call[h].cust
    <3>1. Cardinality(UsesBy(c, v)) < UsagePerUser[v]
      BY <1>0, <1>2, <2>2 DEF CountInv
    <3>2. /\ Cardinality(UsesBy(c, v)') \in Nat
          /\ Cardinality(UsesBy(c, v)') <= Cardinality(UsesBy(c, v)) + 1
      BY <2>1, <2>2, CommitCounts
    <3> QED BY <2>1, <3>1, <3>2
  <2>3. CASE ~(v = call[h].on /\ c = call[h].cust)
    BY <1>2, <2>1, <2>3, CommitCounts DEF PerUserLimit
  <2> QED BY <2>2, <2>3
<1>3. PerUserLimit'
  BY <1>2 DEF PerUserLimit
<1> QED BY <1>1, <1>3 DEF CountInv, MayCommit

\* A step after which nobody may commit who did not before.
LEMMA NoNewCounts ==
  ASSUME CountInv, PerUserLimit, redeemed' = redeemed,
         \A g \in Handlers : MayCommit(g)' =>
            pc'[g] = pc[g] /\ call'[g] = call[g] /\ stale[g] \subseteq stale'[g]
  PROVE  CountInv' /\ PerUserLimit'
<1>1. CountsStay
  BY DEF CountsStay, MayCommit
<1> QED BY <1>1, CountsStayStep

LEMMA TouchedGrows ==
  ASSUME TypeOK, NEW vs, NEW cs, NEW g \in Handlers, InTransaction(g)
  PROVE  stale[g] \subseteq Touched(vs, cs)[g]
BY DEF TypeOK, Touched

LEMMA AdvanceLimit ==
  ASSUME VoucherInv, CountInv, PerUserLimit, NEW h \in Handlers, Advance(h)
  PROVE  CountInv' /\ PerUserLimit'
<1>0. /\ pc \in [Handlers -> PCs] /\ call \in [Handlers -> Calls]
      /\ stale \in [Handlers -> SUBSET {"voucher", "customer"}]
  BY DEF VoucherInv, TypeOK, PCs
<1>1. CASE /\ redeemed' = redeemed /\ Return(h)
           /\ \E vs, cs : stale' \in {stale, Touched(vs, cs), [stale EXCEPT ![h] = {}], [Touched(vs, cs) EXCEPT ![h] = {}]}
  <2>1. /\ pc'[h] = "idle" /\ \A g \in Handlers \ {h} : pc'[g] = pc[g] /\ call'[g] = call[g]
    BY <1>0, <1>1 DEF Return
  <2>2. \A g \in Handlers \ {h} : InTransaction(g) => stale[g] \subseteq stale'[g]
    <3>1. PICK vs, cs : stale' \in {stale, Touched(vs, cs), [stale EXCEPT ![h] = {}], [Touched(vs, cs) EXCEPT ![h] = {}]}
      BY <1>1
    <3>2. Touched(vs, cs) \in [Handlers -> SUBSET {"voucher", "customer"}]
      BY TouchedType DEF VoucherInv
    <3>3. \A g \in Handlers : InTransaction(g) => stale[g] \subseteq Touched(vs, cs)[g]
      BY TouchedGrows DEF VoucherInv
    <3> QED BY <1>0, <3>1, <3>2, <3>3
  <2> QED BY <1>1, <2>1, <2>2, NoNewCounts DEF MayCommit
<1>2. CASE WriteVoucherStatus(h)
  <2>1. stale' = stale \/ stale' = Touched({call[h].on}, {})
    BY <1>2 DEF WriteVoucherStatus
  <2> QED BY <1>1, <1>2, <2>1 DEF WriteVoucherStatus
<1>3. CASE SaveDelete(h)
  BY <1>1, <1>3 DEF SaveDelete
<1>4. CASE AbortVoucher(h) \/ RefuseCode(h) \/ AbortCode(h)
  BY <1>1, <1>4 DEF AbortVoucher, RefuseCode, AbortCode, voucherVars
<1>5. CASE CommitCode(h)
  BY <1>1, <1>5 DEF CommitCode, voucherVars
<1>6. CASE GrantCode(h)
  <2>1. /\ pc'[h] = "granting" /\ \A g \in Handlers \ {h} : pc'[g] = pc[g] /\ stale'[g] = stale[g]
        /\ call' = call /\ redeemed' = redeemed
    BY <1>0, <1>6 DEF GrantCode, Goto, voucherVars
  <2> QED BY <2>1, NoNewCounts DEF MayCommit
<1>7. CASE CountUses(h)
  <2> DEFINE v == call[h].on
             c == call[h].cust
  <2>1. /\ pc'[h] = "counted" /\ \A g \in Handlers \ {h} : pc'[g] = pc[g] /\ stale'[g] = stale[g]
        /\ call' = call /\ redeemed' = redeemed
        /\ Cardinality(UsesBy(c, v)) < UsagePerUser[v]
    BY <1>0, <1>7 DEF CountUses, Goto, voucherVars
  <2>2. PerUserLimit'
    BY <2>1 DEF PerUserLimit, UsesBy
  <2>3. \A g \in Handlers : UsesBy(call[g].cust, call[g].on)' = UsesBy(call[g].cust, call[g].on)
    BY <2>1 DEF UsesBy
  <2>4. \A g \in Handlers \ {h} : MayCommit(g)' => MayCommit(g)
    BY <2>1 DEF MayCommit
  <2>5. ASSUME NEW g \in Handlers, MayCommit(g)'
        PROVE  Cardinality(UsesBy(call[g].cust, call[g].on)) < UsagePerUser[call[g].on]
    BY <2>1, <2>4, <2>5 DEF MayCommit, CountInv
  <2>6. \A g \in Handlers : MayCommit(g)' => (Cardinality(UsesBy(call[g].cust, call[g].on)) < UsagePerUser[call[g].on])'
    BY <2>1, <2>3, <2>5
  <2>7. CountInv'
    BY <2>6 DEF CountInv, MayCommit
  <2> QED BY <2>2, <2>7
<1>8. CASE TakeUse(h)
  <2>1. /\ pc'[h] = "taken" /\ \A g \in Handlers \ {h} : pc'[g] = pc[g]
        /\ call' = call /\ redeemed' = redeemed /\ stale' = stale
        /\ call[h].on \in Limited => pc[h] = "counted" /\ "voucher" \notin stale[h]
    BY <1>0, <1>8 DEF TakeUse, Goto, voucherVars
  <2>2. CountsStay
    BY <2>1 DEF CountsStay, MayCommit
  <2> QED BY <2>2, CountsStayStep
<1>9. CASE PayVoucher(h)
  <2>1. /\ pc[h] = "taken" /\ \A g \in Handlers \ {h} : pc'[g] = pc[g]
        /\ call' = call /\ redeemed' = redeemed /\ stale' = stale
    BY <1>0, <1>9 DEF PayVoucher, Goto, voucherVars
  <2>2. CountsStay
    BY <2>1 DEF CountsStay, MayCommit
  <2> QED BY <2>2, CountsStayStep
<1> QED BY <1>2, <1>3, <1>4, <1>5, <1>6, <1>7, <1>8, <1>9, CommitLimit DEF Advance

LEMMA LimitStep ==
  ASSUME VoucherInv, CountInv, PerUserLimit, [Next]_vars
  PROVE  CountInv' /\ PerUserLimit'
<1>0. /\ pc \in [Handlers -> PCs] /\ call \in [Handlers -> Calls]
      /\ stale \in [Handlers -> SUBSET {"voucher", "customer"}]
  BY DEF VoucherInv, TypeOK, PCs
<1>1. CASE UNCHANGED <<redeemed, pc, call>> /\ (stale' = stale \/ \E vs, cs : stale' = Touched(vs, cs))
  <2>1. \A g \in Handlers : InTransaction(g) => stale[g] \subseteq stale'[g]
    BY <1>1, TouchedGrows DEF VoucherInv
  <2> QED BY <1>1, <2>1, NoNewCounts DEF MayCommit
<1>2. CASE UNCHANGED <<redeemed, stale>> /\ \E h \in Handlers, p \in {"updating", "deleting", "checked", "asking"}, a \in Calls : Begin(h, p, a)
  <2>1. PICK h \in Handlers, p \in {"updating", "deleting", "checked", "asking"}, a \in Calls : Begin(h, p, a)
    BY <1>2
  <2>2. pc'[h] = p /\ \A g \in Handlers \ {h} : pc'[g] = pc[g] /\ call'[g] = call[g]
    BY <1>0, <2>1 DEF Begin
  <2> QED BY <1>2, <2>2, NoNewCounts DEF MayCommit
<1>3. ASSUME AdminStep PROVE CountInv' /\ PerUserLimit'
  <2>1. ASSUME NEW v \in Vouchers, NEW status \in AdminStatuses, NEW expires \in BOOLEAN,
               CreateVoucher(v, status, expires) PROVE CountInv' /\ PerUserLimit'
    BY <1>1, <2>1 DEF CreateVoucher, handlerVars
  <2>2. ASSUME NEW h \in Handlers, NEW v \in Vouchers, NEW status \in AdminStatuses,
               ReadVoucherStatus(h, v, status) PROVE CountInv' /\ PerUserLimit'
    <3>1. Call(None, v, None, status) \in Calls
      BY DEF Calls
    <3> HIDE DEF Call
    <3> QED BY <1>2, <2>2, <3>1 DEF ReadVoucherStatus, voucherVars
  <2>3. ASSUME NEW v \in Vouchers, NEW status \in AdminStatuses, UpdateBatchStatus(v, status)
        PROVE  CountInv' /\ PerUserLimit'
    BY <1>1, <2>3 DEF UpdateBatchStatus
  <2>4. ASSUME NEW h \in Handlers, NEW v \in Vouchers, ReadDelete(h, v) PROVE CountInv' /\ PerUserLimit'
    <3>1. Call(None, v, None, None) \in Calls
      BY DEF Calls
    <3> HIDE DEF Call
    <3> QED BY <1>2, <2>4, <3>1 DEF ReadDelete, voucherVars
  <2> QED BY <1>3, <2>1, <2>2, <2>3, <2>4 DEF AdminStep
<1>4. CASE ClockStep
  BY <1>1, <1>4 DEF ClockStep, Expire, AutoUpdateExpired, RemoveByTtl, ForgetCode, voucherVars, handlerVars
<1>5. ASSUME CustomerStep PROVE CountInv' /\ PerUserLimit'
  <2>1. ASSUME NEW h \in Handlers, NEW c \in Customers, NEW key \in Keys \cup {None}, NEW v \in Vouchers,
               ReadVoucher(h, c, v, key) PROVE CountInv' /\ PerUserLimit'
    <3>1. Call(c, v, key, None) \in Calls
      BY DEF Calls
    <3> HIDE DEF Call
    <3> QED BY <1>2, <2>1, <3>1 DEF ReadVoucher, voucherVars
  <2>2. ASSUME NEW h \in Handlers, NEW c \in Customers, NEW key \in Keys \cup {None}, NEW x \in Codes,
               ReserveCode(h, c, x, key) PROVE CountInv' /\ PerUserLimit'
    <3>1. Call(c, x, key, None) \in Calls
      BY DEF Calls
    <3> HIDE DEF Call
    <3> QED BY <1>2, <2>2, <3>1 DEF ReserveCode, voucherVars
  <2> QED BY <1>5, <2>1, <2>2 DEF CustomerStep
<1>6. CASE Crash
  BY <1>6, NoNewCounts DEF Crash, MayCommit, voucherVars
<1>7. CASE UNCHANGED vars
  BY <1>1, <1>7 DEF vars, voucherVars, handlerVars
<1> QED BY <1>3, <1>4, <1>5, <1>6, <1>7, AdvanceLimit DEF Next

-----------------------------------------------------------------------------
(* One credit for each key.                                                *)

\* A step that inserts nothing: who has paid had paid, and nobody commits.
LEMMA NothingInserted ==
  ASSUME InsertInv, KeyCreditsOnce, redeemed' = redeemed,
         \A g \in Handlers : pc'[g] = "paid" => pc[g] = "paid" /\ call'[g] = call[g]
  PROVE  InsertInv' /\ KeyCreditsOnce'
<1>1. KeyCreditsOnce'
  <2> DEFINE Once(r) ==
               \A v, w \in Vouchers :
                  \A i \in 1 .. Len(r[v]), j \in 1 .. Len(r[w]) :
                     r[v][i].key = r[w][j].key /\ r[v][i].key # None /\ Overlap(v, w)
                     => v = w /\ i = j
  <2>1. KeyCreditsOnce <=> Once(redeemed)
    BY DEF KeyCreditsOnce
  <2>2. KeyCreditsOnce' <=> Once(redeemed')
    BY DEF KeyCreditsOnce
  <2> HIDE DEF Once
  <2> QED BY <2>1, <2>2
<1> HIDE DEF Overlap
<1>2. ASSUME NEW g \in Handlers, pc'[g] = "paid" PROVE (~KeyTaken(call[g].key, call[g].on, g))'
  <2>1. PICK u, k : u = call[g].on /\ k = call[g].key
    OBVIOUS
  <2>2. pc[g] = "paid" /\ call'[g] = call[g] /\ ~KeyTaken(k, u, g)
    BY <1>2, <2>1 DEF InsertInv
  <2>3. ASSUME NEW w \in Vouchers, k # None, Overlap(u, w)
        PROVE  /\ \A i \in 1 .. Len(redeemed'[w]) : redeemed'[w][i].key # k
               /\ ~\E f \in Handlers \ {g} : pc'[f] = "paid" /\ call'[f].on = w /\ call'[f].key = k
    <3>1. /\ \A i \in 1 .. Len(redeemed[w]) : redeemed[w][i].key # k
          /\ ~\E f \in Handlers \ {g} : pc[f] = "paid" /\ call[f].on = w /\ call[f].key = k
      BY <2>2, <2>3 DEF KeyTaken
    <3> QED BY <3>1
  <2> QED BY <2>1, <2>2, <2>3 DEF KeyTaken
<1> QED BY <1>1, <1>2 DEF InsertInv

LEMMA CommitKeys ==
  ASSUME VoucherInv, InsertInv, KeyCreditsOnce, NEW h \in Handlers, CommitVoucher(h)
  PROVE  InsertInv' /\ KeyCreditsOnce'
<1>0. /\ pc \in [Handlers -> PCs] /\ call \in [Handlers -> Calls]
      /\ pc' = [pc EXCEPT ![h] = "idle"] /\ call' = [call EXCEPT ![h] = NoCall] /\ pc[h] = "paid"
      /\ \A g \in Handlers : pc[g] = "paid" => call[g].on \in Vouchers
  BY DEF VoucherInv, TypeOK, PCs, CommitVoucher, Return, JobInv
<1>1. PICK v, n, k : v = call[h].on /\ n = Len(redeemed[v]) /\ k = call[h].key
  OBVIOUS
<1>2. /\ v \in Vouchers /\ n \in Nat
      /\ \A w \in Vouchers \ {v} : redeemed'[w] = redeemed[w]
      /\ Len(redeemed'[v]) = n + 1
      /\ \A i \in 1 .. n : redeemed'[v][i] = redeemed[v][i]
      /\ redeemed'[v][n + 1].key = k
  BY ZenonT(60), <1>1, CommitAppends
<1>3. \A w \in Vouchers : \A i \in 1 .. Len(redeemed'[w]) :
         (w = v /\ i = n + 1) \/ (i \in 1 .. Len(redeemed[w]) /\ redeemed'[w][i] = redeemed[w][i])
  <2>1. ASSUME NEW i \in 1 .. Len(redeemed'[v])
        PROVE  i = n + 1 \/ (i \in 1 .. Len(redeemed[v]) /\ redeemed'[v][i] = redeemed[v][i])
    <3>1. i \in 1 .. (n + 1) /\ n = Len(redeemed[v])
      BY <1>1, <1>2
    <3>2. i = n + 1 \/ i \in 1 .. n
      BY <1>2, <3>1
    <3> QED BY <1>2, <3>1, <3>2
  <2> QED BY <1>2, <2>1
<1>4. ~KeyTaken(k, v, h)
  BY <1>0, <1>1 DEF InsertInv
<1>5. ASSUME NEW g \in Handlers, pc'[g] = "paid" PROVE (~KeyTaken(call[g].key, call[g].on, g))'
  <2>1. g # h /\ pc[g] = "paid" /\ call'[g] = call[g] /\ call[g].on \in Vouchers
    BY <1>0, <1>5
  <2>2. PICK j, u : j = call[g].key /\ u = call[g].on
    OBVIOUS
  <2>3. ~KeyTaken(j, u, g)
    BY <2>1, <2>2 DEF InsertInv
  <2> HIDE DEF Overlap
  <2>4. k = j /\ k # None => ~Overlap(u, v)
    <3>1. pc[h] = "paid" /\ h \in Handlers \ {g} /\ call[h].on = v /\ call[h].key = k /\ v \in Vouchers
      BY <1>0, <1>1, <1>2, <2>1
    <3> QED BY <2>3, <3>1 DEF KeyTaken
  <2>5. ASSUME NEW w \in Vouchers, j # None, Overlap(u, w)
        PROVE  /\ \A i \in 1 .. Len(redeemed'[w]) : redeemed'[w][i].key # j
               /\ ~\E f \in Handlers \ {g} : pc'[f] = "paid" /\ call'[f].on = w /\ call'[f].key = j
    <3>1. /\ \A i \in 1 .. Len(redeemed[w]) : redeemed[w][i].key # j
          /\ ~\E f \in Handlers \ {g} : pc[f] = "paid" /\ call[f].on = w /\ call[f].key = j
      BY <2>3, <2>5 DEF KeyTaken
    <3> QED BY ZenonT(60), <1>0, <1>2, <1>3, <2>4, <2>5, <3>1
  <2> QED BY <1>5, <2>1, <2>2, <2>5 DEF KeyTaken
<1>6. KeyCreditsOnce'
  <2>1. \A u, w \in Vouchers : Overlap(u, w) => Overlap(w, u)
    OBVIOUS
  <2>2. k # None => \A w \in Vouchers : Overlap(v, w) =>
           \A i \in 1 .. Len(redeemed[w]) : redeemed[w][i].key # k
    BY <1>4 DEF KeyTaken
  <2> HIDE DEF Overlap
  <2> SUFFICES ASSUME NEW u \in Vouchers, NEW w \in Vouchers,
                      NEW i \in 1 .. Len(redeemed'[u]), NEW j \in 1 .. Len(redeemed'[w]),
                      redeemed'[u][i].key = redeemed'[w][j].key, redeemed'[u][i].key # None,
                      Overlap(u, w)
               PROVE  u = w /\ i = j
    BY DEF KeyCreditsOnce
  <2>3. CASE u = v /\ i = n + 1
    <3>1. CASE w = v /\ j = n + 1
      BY <2>3, <3>1
    <3>2. CASE ~(w = v /\ j = n + 1)
      <4>1. j \in 1 .. Len(redeemed[w]) /\ redeemed'[w][j] = redeemed[w][j]
        BY <1>3, <3>2
      <4>2. redeemed[w][j].key = k /\ k # None /\ Overlap(v, w)
        BY <1>2, <2>3, <4>1
      <4> QED BY <2>2, <4>1, <4>2
    <3> QED BY <3>1, <3>2
  <2>4. CASE w = v /\ j = n + 1
    <3>1. CASE u = v /\ i = n + 1
      BY <2>4, <3>1
    <3>2. CASE ~(u = v /\ i = n + 1)
      <4>1. i \in 1 .. Len(redeemed[u]) /\ redeemed'[u][i] = redeemed[u][i]
        BY <1>3, <3>2
      <4>2. redeemed[u][i].key = k /\ k # None /\ Overlap(v, u)
        BY <1>2, <2>1, <2>4, <4>1
      <4> QED BY <2>2, <4>1, <4>2
    <3> QED BY <3>1, <3>2
  <2>5. CASE ~(u = v /\ i = n + 1) /\ ~(w = v /\ j = n + 1)
    <3>1. /\ i \in 1 .. Len(redeemed[u]) /\ redeemed'[u][i] = redeemed[u][i]
          /\ j \in 1 .. Len(redeemed[w]) /\ redeemed'[w][j] = redeemed[w][j]
      BY <1>3, <2>5
    <3> QED BY <3>1 DEF KeyCreditsOnce
  <2> QED BY <2>3, <2>4, <2>5
<1> QED BY <1>5, <1>6 DEF InsertInv

LEMMA PayKeys ==
  ASSUME VoucherInv, InsertInv, KeyCreditsOnce, NEW h \in Handlers, PayVoucher(h)
  PROVE  InsertInv' /\ KeyCreditsOnce'
<1>1. /\ pc \in [Handlers -> PCs] /\ pc' = [pc EXCEPT ![h] = "paid"] /\ call' = call /\ redeemed' = redeemed
      /\ pc[h] = "taken" /\ ~KeyTaken(call[h].key, call[h].on, h)
      /\ \A g \in Handlers : pc'[g] = "paid" => call[g].on \in Vouchers
  BY DEF VoucherInv, TypeOK, PCs, PayVoucher, Goto, voucherVars, JobInv
<1>2. \A u, w \in Vouchers : Overlap(u, w) => Overlap(w, u)
  OBVIOUS
<1> HIDE DEF Overlap
<1>3. KeyCreditsOnce'
  BY ZenonT(60), <1>1 DEF KeyCreditsOnce
<1>4. ASSUME NEW g \in Handlers, pc'[g] = "paid" PROVE (~KeyTaken(call[g].key, call[g].on, g))'
  <2>1. CASE g = h
    BY <1>1, <2>1 DEF KeyTaken
  <2>2. CASE g # h
    <3>1. PICK u, k : u = call[g].on /\ k = call[g].key
      OBVIOUS
    <3>2. pc[g] = "paid" /\ u \in Vouchers /\ ~KeyTaken(k, u, g)
      BY <1>1, <1>4, <2>2, <3>1 DEF InsertInv
    <3>3. ASSUME NEW w \in Vouchers, k # None, Overlap(u, w)
          PROVE  /\ \A i \in 1 .. Len(redeemed'[w]) : redeemed'[w][i].key # k
                 /\ ~\E f \in Handlers \ {g} : pc'[f] = "paid" /\ call'[f].on = w /\ call'[f].key = k
      <4>1. /\ \A i \in 1 .. Len(redeemed[w]) : redeemed[w][i].key # k
            /\ ~\E f \in Handlers \ {g} : pc[f] = "paid" /\ call[f].on = w /\ call[f].key = k
        BY <3>2, <3>3 DEF KeyTaken
      <4>2. ~(call[h].on = w /\ call[h].key = k)
        BY ZenonT(60), <1>1, <1>2, <2>2, <3>1, <3>2, <3>3 DEF KeyTaken
      <4> QED BY <1>1, <4>1, <4>2
    <3> QED BY <1>1, <3>1, <3>3 DEF KeyTaken
  <2> QED BY <2>1, <2>2
<1> QED BY <1>3, <1>4 DEF InsertInv

LEMMA KeyStep ==
  ASSUME VoucherInv, InsertInv, KeyCreditsOnce, [Next]_vars
  PROVE  InsertInv' /\ KeyCreditsOnce'
<1>0. pc \in [Handlers -> PCs] /\ call \in [Handlers -> Calls]
  BY DEF VoucherInv, TypeOK, PCs
<1>1. CASE redeemed' = redeemed /\ UNCHANGED <<pc, call>>
  BY <1>1, NothingInserted
<1>2. CASE /\ redeemed' = redeemed
           /\ \E h \in Handlers : \/ \E p \in {"counted", "taken", "granting"} : Goto(h, p)
                                  \/ Return(h)
                                  \/ \E a : \E p \in {"updating", "deleting", "checked", "asking"} : Begin(h, p, a)
  <2>1. PICK h \in Handlers, p \in PCs \ {"paid"} : pc' = [pc EXCEPT ![h] = p] /\ \A g \in Handlers \ {h} : call'[g] = call[g]
    BY <1>0, <1>2 DEF Goto, Return, Begin, PCs
  <2> QED BY <1>0, <1>2, <2>1, NothingInserted
<1>3. CASE AdminStep
  BY <1>1, <1>2, <1>3 DEF AdminStep, CreateVoucher, ReadVoucherStatus, UpdateBatchStatus, ReadDelete,
     voucherVars, handlerVars
<1>4. CASE ClockStep
  BY <1>1, <1>4 DEF ClockStep, Expire, AutoUpdateExpired, RemoveByTtl, ForgetCode, voucherVars, handlerVars
<1>5. CASE CustomerStep
  BY ZenonT(60), <1>2, <1>5 DEF CustomerStep, ReadVoucher, ReserveCode, voucherVars
<1>6. CASE Crash
  BY <1>6, NothingInserted DEF Crash, voucherVars
<1>7. CASE UNCHANGED vars
  BY <1>1, <1>7 DEF vars, voucherVars, handlerVars
<1>8. ASSUME NEW h \in Handlers, Advance(h) PROVE InsertInv' /\ KeyCreditsOnce'
  BY <1>2, <1>8, CommitKeys, PayKeys
  DEF Advance, WriteVoucherStatus, SaveDelete, CountUses, TakeUse, AbortVoucher, RefuseCode, GrantCode,
      CommitCode, AbortCode, voucherVars
<1> QED BY <1>3, <1>4, <1>5, <1>6, <1>7, <1>8 DEF Next

-----------------------------------------------------------------------------
(* Codes being checked.                                                    *)

LEMMA CodesStay ==
  ASSUME CodeInv, orphaned \subseteq orphaned',
         \A x \in Codes : smax'[x].status = "pending" =>
            \/ x \in orphaned'
            \/ smax[x].status = "pending"
               /\ \A g \in Handlers : pc[g] \in OnCode /\ call[g].on = x => pc'[g] \in OnCode /\ call'[g] = call[g]
  PROVE  CodeInv'
BY DEF CodeInv

LEMMA AdvanceCodes ==
  ASSUME VoucherInv, CodeInv, NEW h \in Handlers, Advance(h) PROVE CodeInv'
<1>0. /\ pc \in [Handlers -> PCs] /\ call \in [Handlers -> Calls]
      /\ \A x \in Codes : smax[x] = [smax[x] EXCEPT !.status = smax[x].status]
  BY DEF VoucherInv, TypeOK, PCs
<1>1. CASE /\ pc[h] \notin OnCode /\ UNCHANGED smaxVars
           /\ \A g \in Handlers \ {h} : pc'[g] = pc[g] /\ call'[g] = call[g]
  BY <1>1, CodesStay DEF smaxVars
<1>2. CASE pc[h] \in Redeeming \cup {"updating", "deleting"} /\ UNCHANGED smaxVars /\ Return(h)
  BY <1>0, <1>1, <1>2 DEF Return
<1>3. CASE pc[h] \in Redeeming /\ UNCHANGED smaxVars /\ \E p \in {"counted", "taken", "paid"} : Goto(h, p)
  BY <1>0, <1>1, <1>3 DEF Goto
<1>4. CASE RefuseCode(h) \/ CommitCode(h)
  <2>1. PICK x \in Codes, s \in {"failed", "success"} : call[h].on = x /\ smax' = [smax EXCEPT ![x].status = s]
    BY <1>4 DEF RefuseCode, CommitCode, VoucherInv, JobInv
  <2>2. orphaned' = orphaned /\ \A g \in Handlers \ {h} : pc'[g] = pc[g] /\ call'[g] = call[g]
    BY <1>0, <1>4 DEF RefuseCode, CommitCode, Return
  <2>3. smax'[x].status # "pending" /\ \A y \in Codes \ {x} : smax'[y] = smax[y]
    BY <2>1 DEF VoucherInv, TypeOK
  <2> QED BY <2>1, <2>2, <2>3, CodesStay
<1>5. CASE GrantCode(h)
  <2>1. /\ pc'[h] = "granting" /\ call' = call /\ UNCHANGED smaxVars
        /\ \A g \in Handlers \ {h} : pc'[g] = pc[g]
    BY <1>0, <1>5 DEF GrantCode, Goto
  <2> QED BY <2>1, CodesStay DEF smaxVars
<1>6. CASE AbortCode(h)
  <2>1. /\ orphaned' = orphaned \cup {call[h].on} /\ smax' = smax
        /\ \A g \in Handlers \ {h} : pc'[g] = pc[g] /\ call'[g] = call[g]
    BY <1>0, <1>6 DEF AbortCode, Return
  <2> QED BY <2>1, CodesStay
<1> QED
  BY <1>2, <1>3, <1>4, <1>5, <1>6
  DEF Advance, WriteVoucherStatus, SaveDelete, CountUses, TakeUse, PayVoucher, CommitVoucher, AbortVoucher

LEMMA CodeStep ==
  ASSUME VoucherInv, CodeInv, [Next]_vars PROVE CodeInv'
<1>0. pc \in [Handlers -> PCs] /\ call \in [Handlers -> Calls]
  BY DEF VoucherInv, TypeOK, PCs
<1>1. CASE UNCHANGED <<smaxVars, pc, call>>
  BY <1>1, CodesStay DEF smaxVars
<1>2. CASE UNCHANGED smaxVars /\ \E h \in Handlers : \E p, a : Begin(h, p, a)
  <2>1. PICK h \in Handlers : pc[h] = "idle" /\ \A g \in Handlers \ {h} : pc'[g] = pc[g] /\ call'[g] = call[g]
    BY <1>0, <1>2 DEF Begin
  <2> QED BY <1>2, <2>1, CodesStay DEF smaxVars
<1>3. CASE AdminStep
  BY <1>1, <1>2, <1>3 DEF AdminStep, CreateVoucher, ReadVoucherStatus, UpdateBatchStatus, ReadDelete, handlerVars
<1>4. ASSUME NEW x \in Codes, ForgetCode(x) PROVE CodeInv'
  <2>1. /\ smax'[x].status # "pending" /\ \A y \in Codes \ {x} : smax'[y] = smax[y]
        /\ UNCHANGED <<orphaned, pc, call>>
    BY <1>4 DEF ForgetCode, VoucherInv, TypeOK, handlerVars
  <2> QED BY <2>1, CodesStay
<1>5. CASE ClockStep
  BY <1>1, <1>4, <1>5 DEF ClockStep, Expire, AutoUpdateExpired, RemoveByTtl, handlerVars
<1>6. ASSUME NEW h \in Handlers, NEW c \in Customers, NEW key \in Keys \cup {None}, NEW x \in Codes,
             ReserveCode(h, c, x, key) PROVE CodeInv'
  <2>1. /\ pc'[h] = "asking" /\ call'[h].on = x
        /\ pc[h] = "idle" /\ \A g \in Handlers \ {h} : pc'[g] = pc[g] /\ call'[g] = call[g]
        /\ \A y \in Codes \ {x} : smax'[y] = smax[y]
        /\ orphaned' = orphaned
    BY <1>0, <1>6 DEF ReserveCode, Begin, VoucherInv, TypeOK
  <2> QED BY <2>1 DEF CodeInv
<1>7. CASE CustomerStep
  BY <1>2, <1>6, <1>7 DEF CustomerStep, ReadVoucher
<1>8. CASE Crash
  BY <1>8, CodesStay DEF Crash
<1>9. CASE UNCHANGED vars
  BY <1>1, <1>9 DEF vars, handlerVars
<1> QED BY <1>3, <1>5, <1>7, <1>8, <1>9, AdvanceCodes DEF Next

-----------------------------------------------------------------------------
(* The balances.                                                           *)

\* A code being checked is pending for the customer who asked, and one handler
\* checks it.
AskInv ==
    \A h \in Handlers : pc[h] \in OnCode =>
        /\ smax[call[h].on].status = "pending" /\ smax[call[h].on].cust = call[h].cust
        /\ \A g \in Handlers : pc[g] \in OnCode /\ call[g].on = call[h].on => g = h

Succeeded == {x \in Codes : smax[x].status = "success"}

\* The sums are over finite sets.
BalanceInv == IsFiniteSet(Redeemed) /\ IsFiniteSet(Succeeded) /\ BalanceIsExplained

LEMMA AskStays ==
  ASSUME AskInv,
         \A g \in Handlers : pc'[g] \in OnCode =>
            /\ pc[g] \in OnCode /\ call'[g] = call[g]
            /\ smax'[call[g].on] = smax[call[g].on]
  PROVE  AskInv'
BY DEF AskInv

\* A step that neither redeems nor grants leaves every balance explained.
LEMMA BalanceStays ==
  ASSUME BalanceInv, UNCHANGED <<redeemed, balance>>,
         \A x \in Codes :
            /\ (smax'[x].status = "success") = (smax[x].status = "success")
            /\ smax[x].status = "success" => smax'[x] = smax[x]
  PROVE  BalanceInv'
<1>1. Succeeded' = Succeeded /\ \A c : GrantedCodes(c)' = GrantedCodes(c)
  BY DEF Succeeded, GrantedCodes
<1>2. Redeemed' = Redeemed
  BY DEF Redeemed
<1>3. \A c, ty : VoucherCredit(c, ty)' = VoucherCredit(c, ty)
  BY <1>2 DEF VoucherCredit, UsesBy
<1>4. \A c : CodeCredit(c)' = CodeCredit(c)
  BY <1>1 DEF CodeCredit
<1> QED BY <1>1, <1>2, <1>3, <1>4 DEF BalanceInv, BalanceIsExplained

\* What each voucher has credited to c, and that its sums are numbers.
CreditOf(c, ty) == [v \in Vouchers |-> Cardinality(UsesBy(c, v)) * Credits[v][ty]]

LEMMA CreditOfIsNat ==
  ASSUME TypeOK, NEW c, NEW ty \in CreditTypes, NEW v \in Vouchers
  PROVE  /\ CreditOf(c, ty)[v] \in Nat
         /\ redeemed[v] = <<>> => CreditOf(c, ty)[v] = 0
<1>1. \A m, n \in Nat : m * n \in Nat /\ 0 * n = 0
  OBVIOUS
<1>2. Cardinality(UsesBy(c, v)) \in Nat /\ Credits[v][ty] \in Nat
  BY UsesByIsFinite
<1>3. redeemed[v] = <<>> => Cardinality(UsesBy(c, v)) = 0
  <2>1. redeemed[v] = <<>> => UsesBy(c, v) = {}
    BY DEF UsesBy
  <2> QED BY <2>1, FS_EmptySet
<1> HIDE DEF CreditTypes
<1>4. CreditOf(c, ty)[v] = Cardinality(UsesBy(c, v)) * Credits[v][ty]
  BY DEF CreditOf
<1> QED BY <1>1, <1>2, <1>3, <1>4

LEMMA CreditSums ==
  ASSUME TypeOK, BalanceInv, NEW c \in Customers, NEW ty \in CreditTypes
  PROVE  /\ VoucherCredit(c, ty) = SumFunctionOnSet(CreditOf(c, ty), Redeemed)
         /\ VoucherCredit(c, ty) \in Nat /\ CodeCredit(c) \in Nat
<1>1. VoucherCredit(c, ty) = SumFunctionOnSet(CreditOf(c, ty), Redeemed)
  BY DEF VoucherCredit, CreditOf
<1>2. \A v \in Redeemed : CreditOf(c, ty)[v] \in Nat
  BY CreditOfIsNat DEF Redeemed
<1>3. IsFiniteSet(Redeemed) /\ IsFiniteSet(Succeeded)
  BY DEF BalanceInv
<1>4. IsFiniteSet(GrantedCodes(c)) /\ \A x \in GrantedCodes(c) : CodeAmount[x] \in Nat
  BY <1>3, FS_Subset DEF GrantedCodes, Succeeded
<1> HIDE DEF CreditTypes
<1>5. VoucherCredit(c, ty) \in Nat
  BY <1>1, <1>2, <1>3, SumIsNat
<1>6. CodeCredit(c) \in Nat
  BY <1>4, SumIsNat DEF CodeCredit
<1> QED BY <1>1, <1>5, <1>6

LEMMA CommitVoucherBalance ==
  ASSUME VoucherInv, TypeOK', BalanceInv, NEW h \in Handlers, CommitVoucher(h)
  PROVE  BalanceInv'
<1>0. PICK v, b : v = call[h].on /\ b = call[h].cust
  OBVIOUS
<1>1. /\ v \in Vouchers /\ b \in Customers /\ smax' = smax
      /\ balance' = Add(Credits[v], b)
  BY <1>0 DEF CommitVoucher, VoucherInv, TypeOK, JobInv, Calls, smaxVars
<1>2. Redeemed' = Redeemed \cup {v}
  <2>3. /\ Len(redeemed[v]) \in Nat /\ Len(redeemed'[v]) = Len(redeemed[v]) + 1
        /\ \A w \in Vouchers \ {v} : redeemed'[w] = redeemed[w]
    BY <1>0, CommitAppends
  <2>1. Len(redeemed'[v]) > 0
    BY <2>3
  <2>2. redeemed'[v] # <<>>
    BY <2>1
  <2> QED BY <1>1, <2>2, <2>3 DEF Redeemed
<1>3. IsFiniteSet(Redeemed)' /\ IsFiniteSet(Succeeded)'
  BY <1>1, <1>2, FS_AddElement DEF BalanceInv, Succeeded
<1> HIDE DEF CreditTypes
<1>4. ASSUME NEW c \in Customers, NEW ty \in CreditTypes
      PROVE  balance'[c][ty]
               = VoucherCredit(c, ty)' + IF ty = "REWARD" THEN CodeCredit(c)' ELSE 0
  <2> DEFINE f == CreditOf(c, ty)
             g == CreditOf(c, ty)'
             gain == IF c = b THEN Credits[v][ty] ELSE 0
  <2>1. \A w \in Vouchers : f[w] \in Nat /\ g[w] \in Nat
    <3>1. \A w \in Vouchers : f[w] \in Nat
      BY CreditOfIsNat DEF VoucherInv
    <3>2. \A w \in Vouchers : g[w] \in Nat
      <4> SUFFICES ASSUME NEW w \in Vouchers PROVE g[w] \in Nat
        OBVIOUS
      <4>1. g[w] = Cardinality(UsesBy(c, w)') * Credits[w][ty]
        BY DEF CreditOf
      <4>2. Cardinality(UsesBy(c, w)) \in Nat
        BY UsesByIsFinite DEF VoucherInv
      <4>3. Cardinality(UsesBy(c, w)') \in Nat
        BY <1>0, <4>2, CommitCounts
      <4>4. \A m, n \in Nat : m * n \in Nat
        OBVIOUS
      <4> QED BY <4>1, <4>3, <4>4
    <3> QED BY <3>1, <3>2
  <2>2. \A w \in Vouchers \ {v} : g[w] = f[w]
    BY <1>0, CommitCounts DEF CreditOf
  <2>3. g[v] = f[v] + gain
    <3>1. Cardinality(UsesBy(c, v)) \in Nat /\ Credits[v][ty] \in Nat
      BY <1>1, UsesByIsFinite DEF VoucherInv
    <3>2. Cardinality(UsesBy(c, v)')
            = IF c = b THEN Cardinality(UsesBy(c, v)) + 1 ELSE Cardinality(UsesBy(c, v))
      BY <1>0, <1>1, CommitCounts
    <3>3. /\ f[v] = Cardinality(UsesBy(c, v)) * Credits[v][ty]
          /\ g[v] = Cardinality(UsesBy(c, v)') * Credits[v][ty]
      BY <1>1 DEF CreditOf
    <3>4. \A m, n \in Nat : (m + 1) * n = m * n + n /\ m * n \in Nat
      OBVIOUS
    <3>5. CASE c = b
      <4>1. PICK m \in Nat, n \in Nat : m = Cardinality(UsesBy(c, v)) /\ n = Credits[v][ty]
        BY <3>1
      <4>2. f[v] = m * n /\ g[v] = (m + 1) * n
        BY <3>2, <3>3, <3>5, <4>1
      <4>3. g[v] = f[v] + n
        BY <3>4, <4>2
      <4> QED BY <3>5, <4>1, <4>3
    <3>6. CASE c # b
      <4>1. f[v] = g[v] /\ f[v] \in Nat
        BY <3>1, <3>2, <3>3, <3>4, <3>6
      <4> QED BY <4>1, <3>6
    <3> QED BY <3>5, <3>6
  <2>4. v \notin Redeemed => f[v] = 0
    BY <1>1, CreditOfIsNat DEF Redeemed, VoucherInv
  <2>5. IsFiniteSet(Redeemed) /\ Redeemed \subseteq Vouchers
    BY DEF BalanceInv, Redeemed
  <2> HIDE DEF f, g, gain
  <2>6. SumFunctionOnSet(g, Redeemed \cup {v}) = SumFunctionOnSet(f, Redeemed) + g[v] - f[v]
    <3>1. \A w \in Redeemed \cup {v} :
             f[w] \in Int /\ g[w] \in Int /\ (w # v => f[w] = g[w])
      BY <1>1, <2>1, <2>2, <2>5
    <3> HIDE RedemptionAssumption
    <3> QED BY <2>4, <2>5, <3>1, SumGrows
  <2>7. VoucherCredit(c, ty)' = SumFunctionOnSet(g, Redeemed \cup {v})
    BY <1>2 DEF VoucherCredit, CreditOf, g
  <2>8. VoucherCredit(c, ty) = SumFunctionOnSet(f, Redeemed)
        /\ VoucherCredit(c, ty) \in Nat /\ CodeCredit(c) \in Nat
    BY CreditSums DEF VoucherInv, f
  <2>9. CodeCredit(c)' = CodeCredit(c)
    BY <1>1 DEF CodeCredit, GrantedCodes
  <2>10. balance'[c][ty] = balance[c][ty] + gain /\ gain \in Nat
    BY <1>1 DEF Add, VoucherInv, TypeOK, gain
  <2>11. balance[c][ty] = VoucherCredit(c, ty) + IF ty = "REWARD" THEN CodeCredit(c) ELSE 0
    BY DEF BalanceInv, BalanceIsExplained
  <2>12. VoucherCredit(c, ty)' = VoucherCredit(c, ty) + gain
    BY <1>1, <2>1, <2>3, <2>6, <2>7, <2>8, <2>10
  <2> QED BY <2>8, <2>9, <2>10, <2>11, <2>12
<1> QED BY <1>3, <1>4 DEF BalanceInv, BalanceIsExplained

LEMMA CommitCodeBalance ==
  ASSUME VoucherInv, TypeOK', AskInv, BalanceInv, NEW h \in Handlers, CommitCode(h)
  PROVE  BalanceInv'
<1>0. PICK x, b : x = call[h].on /\ b = call[h].cust
  OBVIOUS
<1>1. /\ x \in Codes /\ b \in Customers /\ redeemed' = redeemed
      /\ smax[x].status = "pending" /\ smax[x].cust = b
      /\ smax' = [smax EXCEPT ![x].status = "success"]
      /\ balance' = Add([ty \in CreditTypes |->
                           IF ty = "REWARD" THEN CodeAmount[x] ELSE 0], b)
  BY <1>0 DEF CommitCode, VoucherInv, JobInv, AskInv, voucherVars
<1>2. /\ smax'[x].status = "success" /\ smax'[x].cust = b
      /\ \A y \in Codes \ {x} : smax'[y] = smax[y]
  BY <1>1 DEF VoucherInv, TypeOK
<1>3. Succeeded' = Succeeded \cup {x} /\ Redeemed' = Redeemed
  BY <1>1, <1>2 DEF Succeeded, Redeemed
<1>4. IsFiniteSet(Redeemed)' /\ IsFiniteSet(Succeeded)'
  BY <1>3, FS_AddElement DEF BalanceInv
<1> HIDE DEF CreditTypes
<1>5. ASSUME NEW c \in Customers, NEW ty \in CreditTypes
      PROVE  balance'[c][ty]
               = VoucherCredit(c, ty)' + IF ty = "REWARD" THEN CodeCredit(c)' ELSE 0
  <2> DEFINE gain == IF c = b THEN CodeAmount[x] ELSE 0
  <2>1. VoucherCredit(c, ty)' = VoucherCredit(c, ty)
    BY <1>1, <1>3 DEF VoucherCredit, UsesBy
  <2>2. VoucherCredit(c, ty) \in Nat /\ CodeCredit(c) \in Nat
    BY CreditSums DEF VoucherInv
  <2>3. CodeAmount[x] \in Nat /\ gain \in Nat
    BY <1>1
  <2>4. CodeCredit(c)' = CodeCredit(c) + gain
    <3>1. GrantedCodes(c)' = IF c = b THEN GrantedCodes(c) \cup {x} ELSE GrantedCodes(c)
      BY <1>1, <1>2 DEF GrantedCodes
    <3>2. x \notin GrantedCodes(c)
      BY <1>1 DEF GrantedCodes
    <3>3. IsFiniteSet(GrantedCodes(c)) /\ GrantedCodes(c) \subseteq Codes
      BY FS_Subset DEF BalanceInv, GrantedCodes, Succeeded
    <3>4. SumFunctionOnSet(CodeAmount, GrantedCodes(c) \cup {x})
            = CodeAmount[x] + SumFunctionOnSet(CodeAmount, GrantedCodes(c))
      <4>1. \A y \in GrantedCodes(c) \cup {x} : CodeAmount[y] \in Int
        BY <1>1, <3>3
      <4> QED BY <3>2, <3>3, <4>1, SumAdds
    <3>5. CodeCredit(c)' = SumFunctionOnSet(CodeAmount, GrantedCodes(c)')
      BY DEF CodeCredit
    <3> QED BY <2>2, <2>3, <3>1, <3>4, <3>5 DEF CodeCredit
  <2>5. balance'[c][ty] = balance[c][ty] + IF ty = "REWARD" THEN gain ELSE 0
    <3>1. /\ c # b => balance'[c] = balance[c]
          /\ c = b => balance'[c][ty]
                        = balance[c][ty] + IF ty = "REWARD" THEN CodeAmount[x] ELSE 0
      BY <1>1 DEF Add, VoucherInv, TypeOK
    <3>2. balance[c][ty] \in Nat
      BY DEF VoucherInv, TypeOK
    <3> QED BY <3>1, <3>2
  <2>6. balance[c][ty] = VoucherCredit(c, ty) + IF ty = "REWARD" THEN CodeCredit(c) ELSE 0
    BY DEF BalanceInv, BalanceIsExplained
  <2> HIDE DEF gain
  <2> QED BY <2>1, <2>2, <2>3, <2>4, <2>5, <2>6
<1> QED BY <1>4, <1>5 DEF BalanceInv, BalanceIsExplained

LEMMA AdvanceBalance ==
  ASSUME VoucherInv, TypeOK', AskInv, BalanceInv, NEW h \in Handlers, Advance(h)
  PROVE  AskInv' /\ BalanceInv'
<1>0. pc \in [Handlers -> PCs] /\ call \in [Handlers -> Calls]
  BY DEF VoucherInv, TypeOK, PCs
<1> DEFINE Ends == /\ \A g \in Handlers \ {h} : pc'[g] = pc[g] /\ call'[g] = call[g]
                   /\ pc'[h] \notin OnCode
<1>1. CASE /\ Ends /\ UNCHANGED <<smax, redeemed, balance>>
  BY <1>1, AskStays, BalanceStays
<1>2. CASE Return(h) /\ UNCHANGED <<smax, redeemed, balance>>
  BY <1>0, <1>1, <1>2 DEF Return
<1>3. CASE /\ \E p \in {"counted", "taken", "paid"} : Goto(h, p)
           /\ UNCHANGED <<smax, redeemed, balance>>
  BY <1>0, <1>1, <1>3 DEF Goto
<1>4. CASE GrantCode(h)
  <2>1. /\ pc[h] \in OnCode /\ UNCHANGED <<smax, redeemed, balance, call>>
        /\ \A g \in Handlers \ {h} : pc'[g] = pc[g]
    BY <1>0, <1>4 DEF GrantCode, Goto, voucherVars, smaxVars
  <2>2. AskInv'
    BY <2>1, AskStays
  <2> QED BY <2>1, <2>2, BalanceStays
<1>5. CASE RefuseCode(h) \/ CommitCode(h)
  <2>1. PICK x \in Codes, s \in {"failed", "success"} :
            /\ call[h].on = x /\ smax' = [smax EXCEPT ![x].status = s]
            /\ RefuseCode(h) => s = "failed"
    BY <1>5 DEF RefuseCode, CommitCode, VoucherInv, JobInv
  <2>2. Ends /\ pc[h] \in OnCode
    BY <1>0, <1>5 DEF RefuseCode, CommitCode, Return
  <2>3. smax'[x].status = s /\ \A y \in Codes \ {x} : smax'[y] = smax[y]
    BY <2>1 DEF VoucherInv, TypeOK
  <2>4. ASSUME NEW g \in Handlers, pc'[g] \in OnCode
        PROVE  /\ pc[g] \in OnCode /\ call'[g] = call[g]
               /\ smax'[call[g].on] = smax[call[g].on]
    <3>1. g # h /\ pc[g] \in OnCode /\ call'[g] = call[g]
      BY <2>2, <2>4
    <3>2. call[g].on # x /\ call[g].on \in Codes
      BY <2>1, <2>2, <3>1 DEF AskInv, VoucherInv, JobInv
    <3> QED BY <2>3, <3>1, <3>2
  <2>5. AskInv'
    BY <2>4, AskStays
  <2>6. CASE CommitCode(h)
    BY <2>5, <2>6, CommitCodeBalance
  <2>7. CASE RefuseCode(h)
    <3>1. UNCHANGED <<redeemed, balance>> /\ s = "failed" /\ smax[x].status = "pending"
      BY <2>1, <2>2, <2>7 DEF RefuseCode, voucherVars, AskInv
    <3>2. \A y \in Codes :
            /\ (smax'[y].status = "success") = (smax[y].status = "success")
            /\ smax[y].status = "success" => smax'[y] = smax[y]
      BY <2>3, <3>1
    <3> QED BY <2>5, <3>1, <3>2, BalanceStays
  <2> QED BY <1>5, <2>6, <2>7
<1>6. CASE CommitVoucher(h)
  <2>1. Ends /\ smax' = smax
    BY <1>0, <1>6 DEF CommitVoucher, Return, smaxVars
  <2>2. AskInv'
    BY <2>1, AskStays
  <2> QED BY <1>6, <2>2, CommitVoucherBalance
<1>7. CASE \/ WriteVoucherStatus(h) \/ SaveDelete(h) \/ AbortVoucher(h) \/ AbortCode(h)
  BY <1>2, <1>7 DEF WriteVoucherStatus, SaveDelete, AbortVoucher, AbortCode, voucherVars, smaxVars
<1>8. CASE CountUses(h) \/ TakeUse(h) \/ PayVoucher(h)
  BY <1>3, <1>8 DEF CountUses, TakeUse, PayVoucher, voucherVars, smaxVars
<1> QED BY <1>4, <1>5, <1>6, <1>7, <1>8 DEF Advance

LEMMA BalanceStep ==
  ASSUME VoucherInv, TypeOK', AskInv, BalanceInv, [Next]_vars
  PROVE  AskInv' /\ BalanceInv'
<1>0. pc \in [Handlers -> PCs] /\ call \in [Handlers -> Calls]
  BY DEF VoucherInv, TypeOK, PCs
<1>1. CASE UNCHANGED <<smax, redeemed, balance>> /\
           \A g \in Handlers : pc'[g] \in OnCode => pc[g] \in OnCode /\ call'[g] = call[g]
  BY <1>1, AskStays, BalanceStays
<1>2. ASSUME NEW h \in Handlers, NEW p \in PCs \ OnCode, NEW args, Begin(h, p, args),
             UNCHANGED <<smax, redeemed, balance>>
      PROVE  AskInv' /\ BalanceInv'
  BY <1>0, <1>1, <1>2 DEF Begin
<1>3. CASE AdminStep
  <2>1. CASE \/ \E v \in Vouchers, status \in AdminStatuses, expires \in BOOLEAN :
                  CreateVoucher(v, status, expires)
             \/ \E v \in Vouchers, status \in AdminStatuses : UpdateBatchStatus(v, status)
    BY <1>1, <2>1 DEF CreateVoucher, UpdateBatchStatus, smaxVars, handlerVars
  <2>2. ASSUME NEW h \in Handlers, NEW v \in Vouchers, NEW status \in AdminStatuses,
               ReadVoucherStatus(h, v, status) \/ ReadDelete(h, v)
        PROVE  AskInv' /\ BalanceInv'
    BY <1>2, <2>2 DEF ReadVoucherStatus, ReadDelete, voucherVars, smaxVars, PCs
  <2>3. ASSUME NEW h \in Handlers, NEW v \in Vouchers, ReadDelete(h, v)
        PROVE  AskInv' /\ BalanceInv'
    BY <1>2, <2>3 DEF ReadDelete, voucherVars, smaxVars, PCs
  <2> QED BY <1>3, <2>1, <2>2, <2>3 DEF AdminStep
<1>4. ASSUME NEW x \in Codes, ForgetCode(x) PROVE AskInv' /\ BalanceInv'
  <2>1. /\ smax[x].status = "failed" /\ smax'[x].status = "none"
        /\ \A y \in Codes \ {x} : smax'[y] = smax[y]
        /\ UNCHANGED <<redeemed, balance, pc, call>>
    BY <1>4 DEF ForgetCode, voucherVars, handlerVars, VoucherInv, TypeOK
  <2>2. \A g \in Handlers : pc[g] \in OnCode => call[g].on \in Codes \ {x}
    BY <2>1 DEF AskInv, VoucherInv, JobInv
  <2>3. AskInv'
    BY <2>1, <2>2, AskStays
  <2>4. \A y \in Codes :
          /\ (smax'[y].status = "success") = (smax[y].status = "success")
          /\ smax[y].status = "success" => smax'[y] = smax[y]
    BY <2>1
  <2> QED BY <2>1, <2>3, <2>4, BalanceStays
<1>5. CASE ClockStep
  <2>1. CASE \E v \in Vouchers : Expire(v) \/ AutoUpdateExpired(v) \/ RemoveByTtl(v)
    BY <1>1, <2>1 DEF Expire, AutoUpdateExpired, RemoveByTtl, smaxVars, handlerVars
  <2> QED BY <1>4, <1>5, <2>1 DEF ClockStep
<1>6. ASSUME NEW h \in Handlers, NEW c \in Customers, NEW x \in Codes, NEW key \in Keys \cup {None},
             ReserveCode(h, c, x, key)
      PROVE  AskInv' /\ BalanceInv'
  <2>1. /\ pc' = [pc EXCEPT ![h] = "asking"] /\ call' = [call EXCEPT ![h] = Call(c, x, key, None)]
        /\ smax[x].status = "none" /\ smax'[x].status = "pending" /\ smax'[x].cust = c
        /\ \A y \in Codes \ {x} : smax'[y] = smax[y]
        /\ UNCHANGED <<redeemed, balance>>
    BY <1>6 DEF ReserveCode, Begin, voucherVars, VoucherInv, TypeOK
  <2>2. /\ pc'[h] = "asking" /\ call'[h].on = x /\ call'[h].cust = c
        /\ \A g \in Handlers \ {h} : pc'[g] = pc[g] /\ call'[g] = call[g]
    BY <1>0, <2>1
  <2>3. \A g \in Handlers : pc[g] \in OnCode => call[g].on \in Codes \ {x}
    BY <2>1 DEF AskInv, VoucherInv, JobInv
  <2>4. AskInv'
    <3> SUFFICES ASSUME NEW g \in Handlers, pc'[g] \in OnCode
                 PROVE  /\ smax'[call'[g].on].status = "pending"
                        /\ smax'[call'[g].on].cust = call'[g].cust
                        /\ \A k \in Handlers : pc'[k] \in OnCode /\ call'[k].on = call'[g].on => k = g
      BY DEF AskInv
    <3>1. CASE g = h
      BY <2>1, <2>2, <2>3, <3>1
    <3>2. CASE g # h
      <4>1. pc[g] \in OnCode /\ call'[g] = call[g] /\ call[g].on \in Codes \ {x}
        BY <2>2, <2>3, <3>2
      <4>2. smax'[call[g].on] = smax[call[g].on]
        BY <2>1, <4>1
      <4> QED BY <2>2, <4>1, <4>2 DEF AskInv
    <3> QED BY <3>1, <3>2
  <2>5. \A y \in Codes :
          /\ (smax'[y].status = "success") = (smax[y].status = "success")
          /\ smax[y].status = "success" => smax'[y] = smax[y]
    BY <2>1
  <2> QED BY <2>1, <2>4, <2>5, BalanceStays
<1>7. CASE CustomerStep
  <2>1. ASSUME NEW h \in Handlers, NEW c \in Customers, NEW v \in Vouchers, NEW key \in Keys \cup {None},
               ReadVoucher(h, c, v, key)
        PROVE  AskInv' /\ BalanceInv'
    BY <1>2, <2>1 DEF ReadVoucher, voucherVars, smaxVars, PCs
  <2> QED BY <1>6, <1>7, <2>1 DEF CustomerStep
<1>8. CASE Crash
  BY <1>1, <1>8 DEF Crash, voucherVars
<1>9. CASE UNCHANGED vars
  BY <1>1, <1>9 DEF vars, voucherVars, smaxVars, handlerVars
<1> QED BY <1>3, <1>5, <1>7, <1>8, <1>9, AdvanceBalance DEF Next

LEMMA InitBalance == Init => AskInv /\ BalanceInv
<1> SUFFICES ASSUME Init PROVE AskInv /\ BalanceInv
  OBVIOUS
<1>1. AskInv
  BY DEF Init, AskInv
<1>2. Redeemed = {} /\ Succeeded = {} /\ \A c : GrantedCodes(c) = {}
  BY DEF Init, Redeemed, Succeeded, GrantedCodes
<1>3. /\ IsFiniteSet(Redeemed) /\ IsFiniteSet(Succeeded)
      /\ \A c, ty : VoucherCredit(c, ty) = 0 /\ CodeCredit(c) = 0
  BY <1>2, FS_EmptySet, SumEmpty DEF VoucherCredit, CodeCredit
<1>4. \A c \in Customers, ty \in CreditTypes : balance[c][ty] = 0
  BY DEF Init
<1> QED BY <1>1, <1>3, <1>4 DEF BalanceInv, BalanceIsExplained

-----------------------------------------------------------------------------
(* The theorems.                                                           *)

LEMMA NextIInv == IInv /\ [Next]_vars => IInv'
BY TypeStep, HolderStep, UsesStep, LimitStep, KeyStep, CodeStep DEF IInv, VoucherInv, Holders

LEMMA Invariance == Spec => []IInv
BY InitIInv, NextIInv, PTL DEF Spec

\* However redemptions, retries with the same key, administrators, expiry and
\* crashes interleave: every credit comes from a recorded redemption or a
\* granted code, uses stay within maxUses and within the limit of each
\* customer, a key credits once, and a code being checked has a handler.
THEOREM RedemptionsStayExplained == Spec => []RedemptionsAreExplained
<1>1. Init => IInv /\ AskInv /\ BalanceInv
  BY InitIInv, InitBalance
<1>2. IInv /\ AskInv /\ BalanceInv /\ [Next]_vars => (IInv /\ AskInv /\ BalanceInv)'
  BY NextIInv, BalanceStep DEF IInv, VoucherInv
<1>3. IInv /\ AskInv /\ BalanceInv => RedemptionsAreExplained
  BY DEF IInv, VoucherInv, CodeInv, CodesAreHandled, BalanceInv, RedemptionsAreExplained
<1> QED BY <1>1, <1>2, <1>3, PTL DEF Spec

\* Who redeems a voucher, or is about to write its status, did not see it finished.
OpenSeen == \A h \in Handlers : pc[h] \in Redeeming \cup {"updating"} => ~call[h].over

LEMMA OpenSeenStep ==
  ASSUME VoucherInv, OpenSeen, [Next]_vars
  PROVE  OpenSeen'
<1>0. pc \in [Handlers -> PCs] /\ call \in [Handlers -> Calls]
  BY DEF VoucherInv, TypeOK, PCs
<1>1. ASSUME NEW h \in Handlers, NEW p, NEW a, Begin(h, p, a),
             p \in Redeeming \cup {"updating"} => ~a.over
      PROVE  OpenSeen'
  BY <1>0, <1>1 DEF Begin, OpenSeen
<1>2. ASSUME NEW h \in Handlers, NEW p, Goto(h, p), pc[h] \in Redeeming \/ p \notin Redeeming \cup {"updating"}
      PROVE  OpenSeen'
  BY <1>0, <1>2 DEF Goto, OpenSeen
<1>3. ASSUME NEW h \in Handlers, Return(h) PROVE OpenSeen'
  BY <1>0, <1>3 DEF Return, OpenSeen
<1>4. CASE UNCHANGED <<pc, call>>
  BY <1>4 DEF OpenSeen
<1>5. CASE AdminStep
  <2>1. ASSUME NEW h \in Handlers, NEW v \in Vouchers, NEW status \in AdminStatuses,
               ReadVoucherStatus(h, v, status) PROVE OpenSeen'
    BY <1>1, <2>1 DEF ReadVoucherStatus
  <2>2. ASSUME NEW h \in Handlers, NEW v \in Vouchers, ReadDelete(h, v) PROVE OpenSeen'
    BY <1>1, <2>2 DEF ReadDelete
  <2> QED BY <1>4, <1>5, <2>1, <2>2 DEF AdminStep, CreateVoucher, UpdateBatchStatus, handlerVars
<1>6. CASE CustomerStep
  <2>1. ASSUME NEW h \in Handlers, NEW c, NEW key, NEW v \in Vouchers, ReadVoucher(h, c, v, key)
        PROVE  OpenSeen'
    BY <1>1, <2>1 DEF ReadVoucher
  <2>2. ASSUME NEW h \in Handlers, NEW c, NEW key, NEW x, ReserveCode(h, c, x, key)
        PROVE  OpenSeen'
    BY <1>1, <2>2 DEF ReserveCode
  <2> QED BY <1>6, <2>1, <2>2 DEF CustomerStep
<1>7. CASE ClockStep \/ Crash \/ UNCHANGED vars
  BY <1>4, <1>7 DEF ClockStep, Expire, AutoUpdateExpired, RemoveByTtl, ForgetCode, Crash,
     OpenSeen, vars, handlerVars
<1>8. ASSUME NEW h \in Handlers, Advance(h) PROVE OpenSeen'
  BY <1>2, <1>3, <1>8 DEF Advance, WriteVoucherStatus, SaveDelete, CountUses, TakeUse,
     PayVoucher, CommitVoucher, AbortVoucher, RefuseCode, GrantCode, CommitCode, AbortCode
<1> QED BY <1>5, <1>6, <1>7, <1>8 DEF Next

\* A used or expired voucher is not redeemed and keeps its status, unless a handler
\* is at work on it that looked at it before it was finished.
THEOREM FinishedStaysFinal == Spec => FinishedIsFinal
<1>1. ASSUME IInv, OpenSeen, [Next]_vars, NEW v \in Vouchers, voucher[v] \in Finished,
             SeenByAll(v)
      PROVE  redeemed'[v] = redeemed[v] /\ voucher'[v] \in {voucher[v], "removed"}
  <2> USE DEF IInv, VoucherInv, TypeOK, JobInv, voucherVars
  <2>0. \A h \in Handlers : pc[h] \in Redeeming \cup {"updating"} => call[h].on # v
    BY <1>1 DEF OpenSeen, SeenByAll
  <2>1. CASE AdminStep
    BY ZenonT(60), <1>1, <2>1 DEF AdminStep, CreateVoucher, ReadVoucherStatus, UpdateBatchStatus, ReadDelete
  <2>2. CASE ClockStep
    BY ZenonT(60), <1>1, <2>2 DEF ClockStep, Expire, AutoUpdateExpired, RemoveByTtl, ForgetCode
  <2>3. CASE CustomerStep \/ Crash \/ UNCHANGED vars
    BY ZenonT(60), <1>1, <2>3 DEF CustomerStep, ReadVoucher, ReserveCode, Crash, vars
  <2>4. ASSUME NEW h \in Handlers, WriteVoucherStatus(h)
        PROVE  redeemed'[v] = redeemed[v] /\ voucher'[v] \in {voucher[v], "removed"}
    BY SMTT(20), <1>1, <2>0, <2>4 DEF WriteVoucherStatus
  <2>5. ASSUME NEW h \in Handlers, CommitVoucher(h)
        PROVE  redeemed'[v] = redeemed[v] /\ voucher'[v] \in {voucher[v], "removed"}
    BY <1>1, <2>0, <2>5 DEF CommitVoucher
  <2> QED
    BY <1>1, <2>1, <2>2, <2>3, <2>4, <2>5
    DEF Next, Advance, SaveDelete, CountUses, TakeUse, PayVoucher, AbortVoucher, RefuseCode, GrantCode,
        CommitCode, AbortCode
<1>2. IInv /\ OpenSeen /\ [Next]_vars =>
       [\A v \in Vouchers : voucher[v] \in Finished /\ SeenByAll(v) =>
          /\ redeemed'[v] = redeemed[v]
          /\ voucher'[v] \in {voucher[v], "removed"}]_vars
  BY <1>1
<1>3. Init => OpenSeen
  BY DEF Init, OpenSeen
<1>4. IInv /\ OpenSeen /\ [Next]_vars => OpenSeen'
  BY OpenSeenStep DEF IInv
<1> QED BY <1>2, <1>3, <1>4, Invariance, PTL DEF Spec, FinishedIsFinal

\* The rest is about Learning.
HIDE RedemptionAssumption DEF CreditTypes, VoucherStatuses, Finished, Call, NoCall, NoTx,
     Holding, Redeeming, OnVoucher, OnCode, Limited, Exists, VoucherHeld, InTransaction, Overlap

-----------------------------------------------------------------------------
(* The classroom.  What a request has read still holds of what it will      *)
(* write, as long as nobody has written the same since.                     *)

Entry == [day : Int, at : Nat]
PupilTypes(x) ==
    /\ x = [kind |-> x.kind, on |-> x.on, value |-> x.value, status |-> x.status, at |-> x.at, old |-> x.old]
    /\ x.old \in BOOLEAN
WorkTypes(x) == x = [state |-> x.state, status |-> x.status, content |-> x.content]
ClassTypes ==
    /\ taught.days \in Seq([unlockAt : Int \cup {Unset}, delay : Int]) /\ taught.start \in Int
    /\ enrollment = [status |-> enrollment.status, progress |-> enrollment.progress, lastLesson |-> enrollment.lastLesson]
    /\ enrollment.progress \in Seq(Entry) /\ enrollment.lastLesson \in Nat /\ dueLesson \in Nat
    /\ works = [w \in Works |-> works[w]] /\ \A w \in Works : WorkTypes(works[w])
    /\ judged = [w \in Works |-> judged[w]]
    /\ hour \in Nat /\ viewCount \in Nat /\ counting \in Nat /\ lostViews \in Nat /\ IsFiniteSet(reads)
    /\ pupils = [r \in Pupils |-> pupils[r]] /\ \A r \in Pupils : PupilTypes(pupils[r])

\* Day d may be handed in at that hour if it has opened, or in its order after
\* one of the first n entries.
Earned(d, at, n) ==
    (at < R!Unlock(d) /\ ~taught.advance) =>
        d > 1 /\ \E j \in 1 .. n : enrollment.progress[j].day = d - 1 /\ enrollment.progress[j].at <= at
DaysEarned ==
    \A i \in 1 .. Len(enrollment.progress) :
        /\ enrollment.progress[i].at <= hour
        /\ Earned(enrollment.progress[i].day, enrollment.progress[i].at, i - 1)
DaysOnce ==
    \A i, j \in 1 .. Len(enrollment.progress) :
        (enrollment.progress[i].day = enrollment.progress[j].day /\ <<"day", enrollment.progress[i].day>> \notin blurred)
            => i = j
WorksJudged ==
    /\ \A v, w \in Works : R!Live(v) /\ R!Live(w) => v = w
    /\ \A w \in Works : (works[w].status = "approved" /\ w \notin blurred) =>
          R!Live(w) /\ works[w].content = judged[w]

\* What a request x will write.
DayFits(x) ==
    x.kind = "day" =>
        /\ x.on = <<"day", x.value>> /\ x.value \in Int /\ x.at \in Nat /\ x.at <= hour
        /\ ~x.old => ~R!Completed(x.value)
        /\ Earned(x.value, x.at, Len(enrollment.progress))
PlaceFits(x) ==
    x.kind = "lesson" =>
        /\ x.on = <<"lesson", 0>> /\ x.value \in Nat
        /\ ~x.old => x.value > enrollment.lastLesson
WorkFits(x) ==
    /\ x.kind \in {"submit", "resubmit", "withdraw", "review"} => x.on \in Works
    /\ x.kind \in {"resubmit", "withdraw"} /\ ~x.old => works[x.on].status # "approved"
    /\ x.kind = "review" /\ ~x.old => R!Live(x.on) /\ works[x.on].content = x.value

ClassInv ==
    /\ ClassTypes /\ DaysEarned /\ DaysOnce /\ WorksJudged
    /\ <<"lesson", 0>> \notin blurred => enrollment.lastLesson = dueLesson
    /\ viewCount + counting + lostViews = Cardinality(reads)
    /\ \A r \in Pupils : DayFits(pupils[r]) /\ PlaceFits(pupils[r]) /\ WorkFits(pupils[r])

LEMMA WaitingFits ==
    PupilTypes(R!Waiting) /\ DayFits(R!Waiting) /\ PlaceFits(R!Waiting) /\ WorkFits(R!Waiting)
BY DEF PupilTypes, DayFits, PlaceFits, WorkFits, R!Waiting

LEMMA ClassFirst == LearningInit => (part = "class" => ClassInv)
<1>. SUFFICES ASSUME LearningInit PROVE ClassInv
  OBVIOUS
<1>1. PICK start \in ClassStarts :
        /\ taught = start.course
        /\ enrollment = [status |-> "ACTIVE", progress |-> <<>>, lastLesson |-> 0]
        /\ works = [w \in Works |-> R!NoWork]
        /\ hour = 0 /\ reads = {} /\ viewCount = 0 /\ counting = 0
        /\ pupils = [r \in Pupils |-> R!Waiting]
        /\ dueLesson = 0 /\ judged = [w \in Works |-> 0] /\ blurred = {} /\ lostViews = 0
  BY DEF LearningInit, R!ClassInit
<1>2. R!NoWork.status = "pending" /\ R!NoWork.state = "none"
      /\ WorkTypes(R!NoWork)
  BY DEF R!NoWork, WorkTypes
<1>3. ClassTypes
  <2>1. taught.days \in Seq([unlockAt : Int \cup {Unset}, delay : Int]) /\ taught.start \in Int
    BY <1>1, ClassAssumption
  <2>2. IsFiniteSet(reads)
    BY <1>1, FS_EmptySet
  <2>. QED
    BY <1>1, <1>2, <2>1, <2>2, WaitingFits DEF ClassTypes
<1>4. DaysEarned /\ DaysOnce
  BY <1>1 DEF DaysEarned, DaysOnce
<1>5. WorksJudged
  BY <1>1, <1>2 DEF WorksJudged, R!Live
<1>6. \A r \in Pupils : DayFits(pupils[r]) /\ PlaceFits(pupils[r]) /\ WorkFits(pupils[r])
  BY <1>1, WaitingFits
<1>7. viewCount + counting + lostViews = Cardinality(reads)
  BY <1>1, FS_EmptySet
<1>. QED
  BY <1>1, <1>3, <1>4, <1>5, <1>6, <1>7 DEF ClassInv

LEMMA ClassRests == ClassInv /\ UNCHANGED classVars => ClassInv'
<1>. SUFFICES ASSUME ClassInv, UNCHANGED classVars PROVE ClassInv'
  OBVIOUS
<1>1. ClassTypes' /\ DaysEarned' /\ DaysOnce' /\ WorksJudged'
  BY DEF ClassInv, classVars, ClassTypes, PupilTypes, DaysEarned, DaysOnce, Earned, R!Unlock, WorksJudged, R!Live
<1>2. \A r \in Pupils : DayFits(pupils[r])' /\ PlaceFits(pupils[r])' /\ WorkFits(pupils[r])'
  BY DEF ClassInv, classVars, DayFits, Earned, R!Unlock, R!Completed, PlaceFits, WorkFits, R!Live
<1>3. (<<"lesson", 0>> \notin blurred => enrollment.lastLesson = dueLesson)'
      /\ (viewCount + counting + lostViews = Cardinality(reads))'
  BY DEF ClassInv, classVars
<1>. QED
  BY <1>1, <1>2, <1>3 DEF ClassInv, classVars

\* A request begins with what fits what it read.
LEMMA StartKeeps ==
    ASSUME ClassInv, NEW r \in Pupils, NEW op, NEW x, R!Start(r, op, x),
           PupilTypes(x), DayFits(x), PlaceFits(x), WorkFits(x)
    PROVE  ClassInv'
<1>1. /\ pupils' = [pupils EXCEPT ![r] = x]
      /\ UNCHANGED <<taught, enrollment, works, hour, reads, viewCount, counting, dueLesson, judged, blurred, lostViews>>
  BY DEF R!Start, R!classHistory
<1>2. /\ pupils' = [s \in Pupils |-> pupils'[s]] /\ pupils'[r] = x
      /\ \A s \in Pupils \ {r} : pupils'[s] = pupils[s]
  BY <1>1 DEF ClassInv, ClassTypes
<1>3. \A s \in Pupils : PupilTypes(pupils'[s])
  BY <1>2 DEF ClassInv, ClassTypes
<1>4. \A s \in Pupils : DayFits(pupils'[s]) /\ PlaceFits(pupils'[s]) /\ WorkFits(pupils'[s])
  BY <1>2 DEF ClassInv
<1>5. ClassTypes' /\ DaysEarned' /\ DaysOnce' /\ WorksJudged'
  <2>1. ClassTypes'
    BY <1>1, <1>2, <1>3 DEF ClassInv, ClassTypes
  <2>2. DaysEarned' /\ DaysOnce' /\ WorksJudged'
    BY <1>1 DEF ClassInv, DaysEarned, DaysOnce, Earned, R!Unlock, WorksJudged, R!Live
  <2>. QED
    BY <2>1, <2>2
<1>6. ASSUME NEW s \in Pupils PROVE DayFits(pupils[s])' /\ PlaceFits(pupils[s])' /\ WorkFits(pupils[s])'
  BY <1>1, <1>4 DEF DayFits, Earned, R!Unlock, R!Completed, PlaceFits, WorkFits, R!Live
<1>. QED
  BY <1>1, <1>5, <1>6 DEF ClassInv

\* What r has written makes old what others read of it.
LEMMA WroteLeaves ==
    ASSUME ClassInv, NEW r \in Pupils, NEW on, R!Wrote(r, on)
    PROVE  /\ pupils' = [s \in Pupils |-> pupils'[s]] /\ \A s \in Pupils : PupilTypes(pupils'[s])
           /\ pupils'[r] = R!Waiting
           /\ \A s \in Pupils \ {r} :
                LET x == pupils[s]  y == pupils'[s] IN
                /\ y.kind = x.kind /\ y.on = x.on /\ y.value = x.value /\ y.status = x.status /\ y.at = x.at
                /\ ~y.old => ~x.old /\ x.on # on
           /\ blurred \subseteq blurred' /\ (on \notin blurred' => ~pupils[r].old)
<1>1. /\ pupils' = [s \in Pupils |-> pupils'[s]] /\ pupils'[r] = R!Waiting
      /\ \A s \in Pupils \ {r} :
            pupils'[s] = IF pupils[s].on = on THEN [pupils[s] EXCEPT !.old = TRUE] ELSE pupils[s]
      /\ blurred' = IF pupils[r].old THEN blurred \cup {on} ELSE blurred
  BY DEF R!Wrote
<1>2. ASSUME NEW s \in Pupils \ {r}
      PROVE  LET x == pupils[s]  y == pupils'[s] IN
             /\ PupilTypes(y)
             /\ y.kind = x.kind /\ y.on = x.on /\ y.value = x.value /\ y.status = x.status /\ y.at = x.at
             /\ ~y.old => ~x.old /\ x.on # on
  <2>1. PupilTypes(pupils[s])
    BY DEF ClassInv, ClassTypes
  <2>. QED
    BY <1>1, <2>1 DEF PupilTypes
<1>3. blurred \subseteq blurred' /\ (on \notin blurred' => ~pupils[r].old)
  BY <1>1
<1>. QED
  BY <1>1, <1>2, <1>3, WaitingFits

\* The requests, field by field.
Asked(kind, on, value, status, at) ==
    [kind |-> kind, on |-> on, value |-> value, status |-> status, at |-> at, old |-> FALSE]
LEMMA AskedIs ==
    ASSUME NEW kind, NEW on, NEW value, NEW status, NEW at, NEW x, x = Asked(kind, on, value, status, at)
    PROVE  /\ PupilTypes(x) /\ ~x.old
           /\ x.kind = kind /\ x.on = on /\ x.value = value /\ x.status = status /\ x.at = at
BY DEF Asked, PupilTypes
Request(kind, on) == [R!Waiting EXCEPT !.kind = kind, !.on = on]
RequestOf(kind, on, value) == [R!Waiting EXCEPT !.kind = kind, !.on = on, !.value = value]
RequestAt(kind, on, value, at) == [R!Waiting EXCEPT !.kind = kind, !.on = on, !.value = value, !.at = at]
RequestTo(kind, on, value, status) == [R!Waiting EXCEPT !.kind = kind, !.on = on, !.value = value, !.status = status]
LEMMA RequestsAre ==
    ASSUME NEW kind, NEW on, NEW value, NEW status, NEW at
    PROVE  /\ Request(kind, on) = Asked(kind, on, 0, Unset, 0)
           /\ RequestOf(kind, on, value) = Asked(kind, on, value, Unset, 0)
           /\ RequestAt(kind, on, value, at) = Asked(kind, on, value, Unset, at)
           /\ RequestTo(kind, on, value, status) = Asked(kind, on, value, status, 0)
<1>. PICK no : no = FALSE
  OBVIOUS
<1>. DEFINE a == [R!Waiting EXCEPT !.kind = kind]
            b == [a EXCEPT !.on = on]
            c == [b EXCEPT !.value = value]
            d == [c EXCEPT !.at = at]
            e == [c EXCEPT !.status = status]
<1>0. R!Waiting = [kind |-> "none", on |-> Unset, value |-> 0, status |-> Unset, at |-> 0, old |-> no]
  BY DEF R!Waiting
<1>1. a = [kind |-> kind, on |-> Unset, value |-> 0, status |-> Unset, at |-> 0, old |-> no]
  BY <1>0
<1>. HIDE DEF a
<1>2. b = [kind |-> kind, on |-> on, value |-> 0, status |-> Unset, at |-> 0, old |-> no]
  BY <1>1
<1>. HIDE DEF b
<1>3. c = [kind |-> kind, on |-> on, value |-> value, status |-> Unset, at |-> 0, old |-> no]
  BY <1>2
<1>. HIDE DEF c
<1>4. d = [kind |-> kind, on |-> on, value |-> value, status |-> Unset, at |-> at, old |-> no]
  BY <1>3
<1>5. e = [kind |-> kind, on |-> on, value |-> value, status |-> status, at |-> 0, old |-> no]
  BY <1>3
<1>. HIDE DEF d, e
<1>. QED
  BY <1>2, <1>3, <1>4, <1>5 DEF a, b, c, d, e, Asked, Request, RequestOf, RequestAt, RequestTo

LEMMA ElementOf == ASSUME NEW D, NEW s \in Seq(D), NEW i \in 1 .. Len(s) PROVE s[i] \in D
OBVIOUS

LEMMA SubmitDayKeeps ==
    ASSUME ClassInv, NEW r \in Pupils, NEW d \in DOMAIN taught.days, R!SubmitDay(r, d)
    PROVE  ClassInv'
<1>. PICK x : x = Asked("day", <<"day", d>>, d, Unset, hour)
  OBVIOUS
<1>1. R!CanSubmit(d) /\ R!Start(r, "submitDay", x)
  <2>1. R!CanSubmit(d) /\ R!Start(r, "submitDay", RequestAt("day", <<"day", d>>, d, hour))
    BY DEF R!SubmitDay, RequestAt
  <2>. QED
    BY <2>1, RequestsAre
<1>2. d \in Int /\ hour \in Nat /\ enrollment.progress \in Seq(Entry)
  BY DEF ClassInv, ClassTypes
<1>3. R!Unlock(d) \in Int
  <2>1. taught.start \in Int /\ taught.days[d].unlockAt \in Int \cup {Unset} /\ taught.days[d].delay \in Int
    <3>1. taught.days[d] \in [unlockAt : Int \cup {Unset}, delay : Int] /\ taught.start \in Int
      <4>. PICK D, days : D = [unlockAt : Int \cup {Unset}, delay : Int] /\ days = taught.days
        OBVIOUS
      <4>1. days \in Seq(D) /\ taught.start \in Int
        BY DEF ClassInv, ClassTypes
      <4>2. d \in 1 .. Len(days)
        BY <4>1
      <4>3. days[d] \in D
        BY <4>1, <4>2, ElementOf
      <4>. QED
        BY <4>1, <4>3
    <3>. QED
      BY <3>1
  <2>. QED
    BY <2>1 DEF R!Unlock
<1>4. Earned(d, hour, Len(enrollment.progress))
  <2>. SUFFICES ASSUME hour < R!Unlock(d), ~taught.advance
                PROVE  d > 1 /\ \E j \in 1 .. Len(enrollment.progress) :
                          enrollment.progress[j].day = d - 1 /\ enrollment.progress[j].at <= hour
    BY DEF Earned
  <2>1. d > 1 /\ R!Completed(d - 1)
    BY <1>1, <1>2, <1>3 DEF R!CanSubmit, R!Unlocked
  <2>2. PICK j \in 1 .. Len(enrollment.progress) : enrollment.progress[j].day = d - 1
    BY <1>2, <2>1, SMTT(30) DEF R!Completed
  <2>. QED
    BY <2>1, <2>2 DEF ClassInv, DaysEarned
<1>5. DayFits(x) /\ PlaceFits(x) /\ WorkFits(x) /\ PupilTypes(x)
  <2>1. /\ PupilTypes(x) /\ ~x.old
        /\ x.kind = "day" /\ x.on = <<"day", d>> /\ x.value = d /\ x.at = hour
    BY AskedIs
  <2>2. ~R!Completed(d) /\ d \in Int /\ hour \in Nat
    BY <1>1, <1>2 DEF R!CanSubmit
  <2>3. DayFits(x)
    BY <1>4, <2>1, <2>2 DEF DayFits
  <2>. QED
    BY <2>1, <2>3 DEF PlaceFits, WorkFits
<1>. QED
  BY <1>1, <1>5, StartKeeps

LEMMA SaveDayKeeps ==
    ASSUME ClassInv, NEW r \in Pupils, R!SaveDay(r)
    PROVE  ClassInv'
<1>. DEFINE old == enrollment.progress
<1>. PICK new, d, at : new = enrollment'.progress /\ d = pupils[r].value /\ at = pupils[r].at
  OBVIOUS
<1>1. /\ pupils[r].kind = "day"
      /\ enrollment' = [enrollment EXCEPT !.progress = Append(old, [day |-> d, at |-> at])]
      /\ R!Wrote(r, pupils[r].on)
      /\ UNCHANGED <<taught, works, hour, reads, viewCount, counting, dueLesson, judged, lostViews>>
  BY DEF R!SaveDay
<1>2. /\ pupils[r].on = <<"day", d>> /\ d \in Int /\ at \in Nat /\ at <= hour
      /\ ~pupils[r].old => ~R!Completed(d)
      /\ Earned(d, at, Len(old))
  BY <1>1 DEF ClassInv, DayFits
<1>3. /\ enrollment' = [status |-> enrollment'.status, progress |-> new, lastLesson |-> enrollment'.lastLesson]
      /\ new = Append(old, [day |-> d, at |-> at]) /\ enrollment'.lastLesson = enrollment.lastLesson
  BY <1>1 DEF ClassInv, ClassTypes
<1>4. old \in Seq(Entry) /\ [day |-> d, at |-> at] \in Entry
  BY <1>2 DEF ClassInv, ClassTypes, Entry
<1>5. /\ new \in Seq(Entry) /\ Len(new) = Len(old) + 1 /\ Len(old) \in Nat
      /\ \A i \in 1 .. Len(old) : new[i] = old[i]
      /\ new[Len(new)].day = d /\ new[Len(new)].at = at
  BY <1>3, <1>4
<1>6. \A e, h, n : n \in 0 .. Len(old) /\ Earned(e, h, n) => Earned(e, h, n)'
  BY <1>1, <1>5 DEF Earned, R!Unlock
<1>7. DaysEarned'
  <2>. SUFFICES ASSUME NEW i \in 1 .. Len(new) PROVE new[i].at <= hour /\ Earned(new[i].day, new[i].at, i - 1)'
    BY <1>1 DEF DaysEarned
  <2>1. CASE i \in 1 .. Len(old)
    <3>1. old[i].at <= hour /\ Earned(old[i].day, old[i].at, i - 1)
      BY <2>1 DEF ClassInv, DaysEarned
    <3>2. i - 1 \in 0 .. Len(old)
      BY <1>5, <2>1
    <3>. QED
      BY <1>5, <1>6, <2>1, <3>1, <3>2
  <2>2. CASE i = Len(new)
    <3>1. i - 1 = Len(old) /\ i - 1 \in 0 .. Len(old)
      BY <1>5, <2>2
    <3>. QED
      BY <1>2, <1>5, <1>6, <2>2, <3>1
  <2>. QED
    BY <1>5, <2>1, <2>2
<1>8. /\ blurred \subseteq blurred' /\ (<<"day", d>> \notin blurred' => ~pupils[r].old)
      /\ \A s \in Pupils \ {r} :
            /\ pupils'[s].kind = pupils[s].kind /\ pupils'[s].on = pupils[s].on
            /\ pupils'[s].value = pupils[s].value /\ pupils'[s].at = pupils[s].at
            /\ ~pupils'[s].old => ~pupils[s].old /\ pupils[s].on # <<"day", d>>
  <2>1. R!Wrote(r, <<"day", d>>)
    BY <1>1, <1>2
  <2>. QED
    BY <2>1, WroteLeaves
<1>9. DaysOnce'
  <2>. SUFFICES ASSUME NEW i \in 1 .. Len(new), NEW j \in 1 .. Len(new), new[i].day = new[j].day,
                       <<"day", new[i].day>> \notin blurred'
                PROVE  i = j
    BY DEF DaysOnce
  <2>1. \A k \in 1 .. Len(old) : <<"day", d>> \notin blurred' => old[k].day # d
    BY <1>2, <1>4, <1>8 DEF R!Completed
  <2>2. CASE i \in 1 .. Len(old) /\ j \in 1 .. Len(old)
    BY <1>5, <1>8, <2>2 DEF ClassInv, DaysOnce
  <2>3. CASE i = Len(new) \/ j = Len(new)
    <3>1. new[i].day = d /\ new[j].day = d
      BY <1>5, <2>3
    <3>2. \A k \in 1 .. Len(old) : new[k].day # d
      BY <1>5, <2>1, <3>1
    <3>. QED
      BY <1>5, <2>3, <3>1, <3>2
  <2>. QED
    BY <1>5, <2>2, <2>3
<1>10. ASSUME NEW s \in Pupils PROVE DayFits(pupils[s])'
  <2>1. CASE s = r
    BY <1>1, <2>1, WroteLeaves DEF DayFits, R!Waiting
  <2>2. CASE s # r
    <3>. PICK x, y : x = pupils[s] /\ y = pupils'[s]
      OBVIOUS
    <3>1. /\ y.kind = x.kind /\ y.on = x.on /\ y.value = x.value /\ y.at = x.at
          /\ ~y.old => ~x.old /\ x.on # <<"day", d>>
      BY <1>8, <2>2
    <3>2. DayFits(x)
      BY DEF ClassInv
    <3>. SUFFICES ASSUME y.kind = "day"
                  PROVE  /\ y.on = <<"day", y.value>> /\ y.value \in Int /\ y.at \in Nat /\ y.at <= hour
                         /\ ~y.old => ~R!Completed(y.value)'
                         /\ Earned(y.value, y.at, Len(new))'
      BY <1>1 DEF DayFits
    <3>3. ASSUME ~y.old PROVE ~R!Completed(y.value)'
      <4>1. ~R!Completed(x.value) /\ x.value # d
        BY <3>1, <3>2, <3>3 DEF DayFits
      <4>2. \A i \in DOMAIN new : new[i].day # x.value
        BY <1>4, <1>5, <4>1, SMTT(30) DEF R!Completed
      <4>. QED
        BY <3>1, <4>2 DEF R!Completed
    <3>4. Earned(x.value, x.at, Len(old))
      BY <3>1, <3>2 DEF DayFits
    <3>5. Earned(x.value, x.at, Len(new))'
      BY <1>1, <1>5, <3>4 DEF Earned, R!Unlock
    <3>. QED
      BY <3>1, <3>2, <3>3, <3>5 DEF DayFits
  <2>. QED
    BY <2>1, <2>2
<1>11. ASSUME NEW s \in Pupils PROVE PlaceFits(pupils[s])' /\ WorkFits(pupils[s])'
  <2>1. CASE s = r
    BY <1>1, <2>1, WroteLeaves DEF PlaceFits, WorkFits, R!Waiting
  <2>2. CASE s # r
    <3>1. PlaceFits(pupils[s]) /\ WorkFits(pupils[s])
      BY DEF ClassInv
    <3>. QED
      BY <1>1, <1>3, <1>8, <2>2, <3>1 DEF PlaceFits, WorkFits, R!Live
  <2>. QED
    BY <2>1, <2>2
<1>12. ClassTypes'
  BY <1>1, <1>3, <1>5, WroteLeaves DEF ClassInv, ClassTypes
<1>13. WorksJudged' /\ (<<"lesson", 0>> \notin blurred => enrollment.lastLesson = dueLesson)'
       /\ (viewCount + counting + lostViews = Cardinality(reads))'
  BY <1>1, <1>3, <1>8 DEF ClassInv, WorksJudged, R!Live
<1>. QED
  BY <1>7, <1>9, <1>10, <1>11, <1>12, <1>13 DEF ClassInv

LEMMA ReportLessonKeeps ==
    ASSUME ClassInv, NEW r \in Pupils, NEW n \in Nat, R!ReportLesson(r, n)
    PROVE  ClassInv'
<1>. PICK x : x = Asked("lesson", <<"lesson", 0>>, n, Unset, 0)
  OBVIOUS
<1>1. n > enrollment.lastLesson /\ R!Start(r, "lesson", x)
  <2>1. n > enrollment.lastLesson /\ R!Start(r, "lesson", RequestOf("lesson", <<"lesson", 0>>, n))
    BY DEF R!ReportLesson, RequestOf
  <2>. QED
    BY <2>1, RequestsAre
<1>2. PupilTypes(x) /\ x.kind = "lesson" /\ x.on = <<"lesson", 0>> /\ x.value = n
  BY AskedIs
<1>3. DayFits(x) /\ PlaceFits(x) /\ WorkFits(x)
  BY <1>1, <1>2 DEF DayFits, PlaceFits, WorkFits
<1>. QED
  BY <1>1, <1>2, <1>3, StartKeeps

\* Requests about works, none of which is about a day or a place.
LEMMA WorkStarts ==
    ASSUME ClassInv, NEW r \in Pupils, NEW op, NEW kind \in {"submit", "resubmit", "withdraw", "review"},
           NEW w \in Works, NEW value, NEW status, NEW x, x = Asked(kind, w, value, status, 0), R!Start(r, op, x),
           kind \in {"resubmit", "withdraw"} => works[w].status # "approved",
           kind = "review" => R!Live(w) /\ works[w].content = value
    PROVE  ClassInv'
<1>1. PupilTypes(x) /\ x.kind = kind /\ x.on = w /\ x.value = value
  BY AskedIs
<1>2. DayFits(x) /\ PlaceFits(x) /\ WorkFits(x)
  BY <1>1 DEF DayFits, PlaceFits, WorkFits
<1>. QED
  BY <1>1, <1>2, StartKeeps

LEMMA WorksRequested ==
    ASSUME ClassInv, NEW r \in Pupils, NEW w \in Works,
           \/ R!SubmitWork(r, w) \/ R!Resubmit(r, w) \/ R!Withdraw(r, w)
           \/ \E verdict \in {"approved", "rejected"} : R!Review(r, w, verdict)
    PROVE  ClassInv'
<1>1. CASE R!SubmitWork(r, w)
  <2>. PICK x : x = Asked("submit", w, R!Content, Unset, 0)
    OBVIOUS
  <2>1. R!Start(r, "submit", RequestOf("submit", w, R!Content))
    BY <1>1 DEF R!SubmitWork, RequestOf
  <2>2. R!Start(r, "submit", x)
    BY <2>1, RequestsAre
  <2>. QED
    BY <2>1, <2>2, WorkStarts
<1>2. CASE R!Resubmit(r, w)
  <2>. DEFINE status == IF works[w].status = "pending" THEN Unset ELSE "pending"
  <2>. PICK x : x = Asked("resubmit", w, R!Content, status, 0)
    OBVIOUS
  <2>1. R!Start(r, "resubmit", RequestTo("resubmit", w, R!Content, status)) /\ works[w].status # "approved"
    BY <1>2 DEF R!Resubmit, RequestTo
  <2>. HIDE DEF status
  <2>2. R!Start(r, "resubmit", x)
    BY <2>1, RequestsAre
  <2>. QED
    BY <2>1, <2>2, WorkStarts
<1>3. CASE R!Withdraw(r, w)
  <2>. PICK x : x = Asked("withdraw", w, 0, Unset, 0)
    OBVIOUS
  <2>1. R!Start(r, "withdraw", Request("withdraw", w)) /\ works[w].status # "approved"
    BY <1>3 DEF R!Withdraw, Request
  <2>2. R!Start(r, "withdraw", x)
    BY <2>1, RequestsAre
  <2>. QED
    BY <2>1, <2>2, WorkStarts
<1>4. ASSUME NEW verdict \in {"approved", "rejected"}, R!Review(r, w, verdict) PROVE ClassInv'
  <2>. DEFINE status == IF works[w].status = verdict THEN Unset ELSE verdict
  <2>. PICK x : x = Asked("review", w, works[w].content, status, 0)
    OBVIOUS
  <2>1. R!Start(r, "review", RequestTo("review", w, works[w].content, status)) /\ R!Live(w)
    BY <1>4 DEF R!Review, RequestTo
  <2>. HIDE DEF status
  <2>2. R!Start(r, "review", x)
    BY <2>1, RequestsAre
  <2>. QED
    BY <2>1, <2>2, WorkStarts
<1>. QED
  BY <1>1, <1>2, <1>3, <1>4

LEMMA SaveLessonKeeps ==
    ASSUME ClassInv, NEW r \in Pupils, R!SaveLesson(r)
    PROVE  ClassInv'
<1>. DEFINE n == pupils[r].value
<1>1. /\ pupils[r].kind = "lesson"
      /\ enrollment' = [enrollment EXCEPT !.lastLesson = n]
      /\ dueLesson' = IF n > dueLesson THEN n ELSE dueLesson
      /\ R!Wrote(r, <<"lesson", 0>>)
      /\ UNCHANGED <<taught, works, hour, reads, viewCount, counting, judged, lostViews>>
  BY DEF R!SaveLesson
<1>2. n \in Nat /\ (~pupils[r].old => n > enrollment.lastLesson)
  BY <1>1 DEF ClassInv, PlaceFits
<1>. HIDE DEF n
<1>3. /\ enrollment' = [status |-> enrollment'.status, progress |-> enrollment'.progress, lastLesson |-> enrollment'.lastLesson]
      /\ enrollment'.progress = enrollment.progress /\ enrollment'.lastLesson = n
  BY <1>1 DEF ClassInv, ClassTypes
<1>4. /\ pupils' = [s \in Pupils |-> pupils'[s]] /\ \A s \in Pupils : PupilTypes(pupils'[s])
      /\ pupils'[r] = R!Waiting
      /\ \A s \in Pupils \ {r} :
            LET x == pupils[s]  y == pupils'[s] IN
            /\ y.kind = x.kind /\ y.on = x.on /\ y.value = x.value /\ y.status = x.status /\ y.at = x.at
            /\ ~y.old => ~x.old /\ x.on # <<"lesson", 0>>
      /\ blurred \subseteq blurred' /\ (<<"lesson", 0>> \notin blurred' => ~pupils[r].old)
  BY <1>1, WroteLeaves
<1>5. ClassTypes'
  BY <1>1, <1>2, <1>3, <1>4 DEF ClassInv, ClassTypes
<1>6. DaysEarned' /\ DaysOnce' /\ WorksJudged'
  BY <1>1, <1>3, <1>4 DEF ClassInv, DaysEarned, DaysOnce, Earned, R!Unlock, WorksJudged, R!Live
<1>7. (<<"lesson", 0>> \notin blurred => enrollment.lastLesson = dueLesson)'
  BY <1>1, <1>2, <1>3, <1>4 DEF ClassInv, ClassTypes
<1>8. ASSUME NEW s \in Pupils PROVE DayFits(pupils[s])' /\ PlaceFits(pupils[s])' /\ WorkFits(pupils[s])'
  <2>1. CASE s = r
    BY <1>4, <2>1 DEF DayFits, PlaceFits, WorkFits, R!Waiting
  <2>2. CASE s # r
    <3>1. DayFits(pupils[s]) /\ PlaceFits(pupils[s]) /\ WorkFits(pupils[s])
      BY DEF ClassInv
    <3>2. DayFits(pupils[s])'
      BY <1>1, <1>3, <1>4, <2>2, <3>1 DEF DayFits, Earned, R!Unlock, R!Completed
    <3>3. PlaceFits(pupils[s])'
      BY <1>4, <2>2, <3>1 DEF PlaceFits
    <3>4. WorkFits(pupils[s])'
      BY <1>1, <1>4, <2>2, <3>1 DEF WorkFits, R!Live
    <3>. QED
      BY <3>2, <3>3, <3>4
  <2>. QED
    BY <2>1, <2>2
<1>. QED
  BY <1>1, <1>5, <1>6, <1>7, <1>8 DEF ClassInv

\* A request r writes y over work w, with j the contents its reviewer saw.
Writes(w, y, j) == works' = [works EXCEPT ![w] = y] /\ judged' = [judged EXCEPT ![w] = j]
LEMMA WorkSaveKeeps ==
    ASSUME ClassInv, NEW r \in Pupils, NEW w \in Works, NEW y, NEW j, R!Wrote(r, w),
           WorkTypes(y), Writes(w, y, j),
           UNCHANGED <<taught, enrollment, hour, reads, viewCount, counting, dueLesson, lostViews>>,
           y.state = "live" => R!Live(w),
           ~pupils[r].old /\ y.status = "approved" => y.state = "live" /\ y.content = j
    PROVE  ClassInv'
<1>1. /\ pupils' = [s \in Pupils |-> pupils'[s]] /\ \A s \in Pupils : PupilTypes(pupils'[s])
      /\ pupils'[r] = R!Waiting
      /\ \A s \in Pupils \ {r} :
            LET x == pupils[s]  z == pupils'[s] IN
            /\ z.kind = x.kind /\ z.on = x.on /\ z.value = x.value /\ z.status = x.status /\ z.at = x.at
            /\ ~z.old => ~x.old /\ x.on # w
      /\ blurred \subseteq blurred' /\ (w \notin blurred' => ~pupils[r].old)
  BY WroteLeaves
<1>2. /\ works' = [v \in Works |-> works'[v]] /\ works'[w] = y /\ \A v \in Works \ {w} : works'[v] = works[v]
      /\ judged' = [v \in Works |-> judged'[v]] /\ judged'[w] = j /\ \A v \in Works \ {w} : judged'[v] = judged[v]
  BY DEF ClassInv, ClassTypes, Writes
<1>3. \A v \in Works : WorkTypes(works'[v])
  BY <1>2 DEF ClassInv, ClassTypes
<1>4. ClassTypes'
  BY <1>1, <1>2, <1>3 DEF ClassInv, ClassTypes
<1>5. DaysEarned' /\ DaysOnce'
  BY <1>1 DEF ClassInv, DaysEarned, DaysOnce, Earned, R!Unlock
<1>6. WorksJudged'
  BY <1>1, <1>2 DEF ClassInv, WorksJudged, R!Live
<1>7. ASSUME NEW s \in Pupils PROVE DayFits(pupils[s])' /\ PlaceFits(pupils[s])' /\ WorkFits(pupils[s])'
  <2>1. CASE s = r
    BY <1>1, <2>1 DEF DayFits, PlaceFits, WorkFits, R!Waiting
  <2>2. CASE s # r
    <3>1. DayFits(pupils[s]) /\ PlaceFits(pupils[s]) /\ WorkFits(pupils[s])
      BY DEF ClassInv
    <3>2. DayFits(pupils[s])'
      BY <1>1, <2>2, <3>1 DEF DayFits, Earned, R!Unlock, R!Completed
    <3>3. PlaceFits(pupils[s])'
      BY <1>1, <2>2, <3>1 DEF PlaceFits
    <3>4. WorkFits(pupils[s])'
      BY <1>1, <1>2, <2>2, <3>1 DEF WorkFits, R!Live
    <3>. QED
      BY <3>2, <3>3, <3>4
  <2>. QED
    BY <2>1, <2>2
<1>8. (<<"lesson", 0>> \notin blurred => enrollment.lastLesson = dueLesson)'
      /\ (viewCount + counting + lostViews = Cardinality(reads))'
  BY <1>1 DEF ClassInv
<1>. QED
  BY <1>4, <1>5, <1>6, <1>7, <1>8 DEF ClassInv

LEMMA WorkSavesKeep ==
    ASSUME ClassInv, NEW r \in Pupils, R!SaveWork(r) \/ R!SaveWithdrawal(r) \/ R!SaveReview(r)
    PROVE  ClassInv'
<1>. PICK x, w, old : x = pupils[r] /\ w = pupils[r].on /\ old = works[w]
  OBVIOUS
<1>1. x.kind \in {"resubmit", "withdraw", "review"} /\ w \in Works /\ WorkFits(x)
  BY DEF ClassInv, WorkFits, R!SaveWork, R!SaveWithdrawal, R!SaveReview
<1>2. old = [state |-> old.state, status |-> old.status, content |-> old.content] /\ old = works[w]
  BY <1>1 DEF ClassInv, ClassTypes, WorkTypes
<1>3. judged = [judged EXCEPT ![w] = judged[w]] /\ works = [works EXCEPT ![w] = old]
  BY <1>1 DEF ClassInv, ClassTypes
<1>4. CASE R!SaveWork(r)
  <2>. PICK y : y = [state |-> old.state, status |-> IF x.status = Unset THEN old.status ELSE "pending", content |-> x.value]
    OBVIOUS
  <2>1. works' = [works EXCEPT ![w] = y]
    <3>1. works' = [works EXCEPT ![w].content = x.value,
                                 ![w].status = IF x.status = Unset THEN @ ELSE "pending"]
      BY <1>4 DEF R!SaveWork
    <3>2. works = [v \in Works |-> works[v]]
      BY DEF ClassInv, ClassTypes
    <3>. DEFINE a == [works EXCEPT ![w].content = x.value]
                status == IF x.status = Unset THEN old.status ELSE "pending"
    <3>3. /\ a = [v \in Works |-> a[v]] /\ \A v \in Works \ {w} : a[v] = works[v]
          /\ a[w] = [state |-> old.state, status |-> old.status, content |-> x.value]
      <4>1. a = [works EXCEPT ![w] = [old EXCEPT !.content = x.value]]
        OBVIOUS
      <4>2. [old EXCEPT !.content = x.value] = [state |-> old.state, status |-> old.status, content |-> x.value]
        BY <1>2
      <4>. QED
        BY <1>1, <3>2, <4>1, <4>2
    <3>4. works' = [a EXCEPT ![w].status = status]
      BY <1>1, <1>2, <3>1, <3>3
    <3>5. y = [state |-> old.state, status |-> status, content |-> x.value]
      OBVIOUS
    <3>. HIDE DEF a, status
    <3>6. [a[w] EXCEPT !.status = status] = y
      BY <3>3, <3>5
    <3>7. works' = [a EXCEPT ![w] = y]
      BY <3>4, <3>6
    <3>. QED
      BY <1>1, <3>2, <3>3, <3>7
  <2>2. /\ x.kind = "resubmit" /\ R!Wrote(r, w)
        /\ UNCHANGED <<taught, enrollment, hour, reads, viewCount, counting, dueLesson, judged, lostViews>>
    BY <1>4 DEF R!SaveWork
  <2>3. ~x.old => y.status # "approved"
    BY <1>1, <2>2 DEF WorkFits
  <2>4. /\ WorkTypes(y) /\ (y.state = "live" => R!Live(w))
        /\ ~pupils[r].old /\ y.status = "approved" => y.state = "live" /\ y.content = judged[w]
    BY <1>2, <2>3 DEF WorkTypes, R!Live
  <2>5. Writes(w, y, judged[w])
    BY <1>3, <2>1, <2>2 DEF Writes
  <2>. QED
    BY <1>1, <2>2, <2>4, <2>5, WorkSaveKeeps
<1>5. CASE R!SaveWithdrawal(r)
  <2>. PICK y : y = [state |-> "deleted", status |-> old.status, content |-> old.content]
    OBVIOUS
  <2>1. works' = [works EXCEPT ![w] = y]
    <3>1. works' = [works EXCEPT ![w].state = "deleted"]
      BY <1>5 DEF R!SaveWithdrawal
    <3>2. works = [v \in Works |-> works[v]]
      BY DEF ClassInv, ClassTypes
    <3>3. [old EXCEPT !.state = "deleted"] = y
      BY <1>2
    <3>. QED
      BY <1>2, <3>1, <3>3
  <2>2. /\ x.kind = "withdraw" /\ R!Wrote(r, w)
        /\ UNCHANGED <<taught, enrollment, hour, reads, viewCount, counting, dueLesson, judged, lostViews>>
    BY <1>5 DEF R!SaveWithdrawal
  <2>3. ~x.old => y.status # "approved"
    BY <1>1, <2>2 DEF WorkFits
  <2>4. /\ WorkTypes(y) /\ (y.state = "live" => R!Live(w))
        /\ ~pupils[r].old /\ y.status = "approved" => y.state = "live" /\ y.content = judged[w]
    BY <1>2, <2>3 DEF WorkTypes, R!Live
  <2>5. Writes(w, y, judged[w])
    BY <1>3, <2>1, <2>2 DEF Writes
  <2>. QED
    BY <1>1, <2>2, <2>4, <2>5, WorkSaveKeeps
<1>6. CASE R!SaveReview(r)
  <2>. PICK y : y = [state |-> old.state, status |-> IF x.status = Unset THEN old.status ELSE x.status, content |-> old.content]
    OBVIOUS
  <2>1. works' = [works EXCEPT ![w] = y]
    <3>1. works' = IF x.status = Unset THEN works ELSE [works EXCEPT ![w].status = x.status]
      BY <1>6 DEF R!SaveReview
    <3>2. works = [v \in Works |-> works[v]]
      BY DEF ClassInv, ClassTypes
    <3>3. CASE x.status = Unset
      BY <1>1, <1>2, <1>3, <3>1, <3>3
    <3>4. CASE x.status # Unset
      <4>1. [old EXCEPT !.status = x.status] = y
        BY <1>2, <3>4
      <4>. QED
        BY <1>2, <3>1, <3>4, <4>1
    <3>. QED
      BY <3>3, <3>4
  <2>2. /\ x.kind = "review" /\ R!Wrote(r, w) /\ judged' = [judged EXCEPT ![w] = x.value]
        /\ UNCHANGED <<taught, enrollment, hour, reads, viewCount, counting, dueLesson, lostViews>>
    BY <1>6 DEF R!SaveReview
  <2>3. ~x.old => y.state = "live" /\ y.content = x.value
    BY <1>1, <2>2 DEF WorkFits, R!Live
  <2>4. /\ WorkTypes(y) /\ (y.state = "live" => R!Live(w))
        /\ ~pupils[r].old /\ y.status = "approved" => y.state = "live" /\ y.content = x.value
    BY <1>2, <2>3 DEF WorkTypes, R!Live
  <2>5. Writes(w, y, x.value)
    BY <2>1, <2>2 DEF Writes
  <2>. QED
    BY <1>1, <2>2, <2>4, <2>5, WorkSaveKeeps
<1>. QED
  BY <1>4, <1>5, <1>6

\* A first work is live if it is the only one.
LEMMA SaveNewWorkKeeps ==
    ASSUME ClassInv, NEW r \in Pupils, R!SaveNewWork(r)
    PROVE  ClassInv'
<1>. PICK w, y : w = pupils[r].on /\ y = [state |-> "live", status |-> "pending", content |-> pupils[r].value]
  OBVIOUS
<1>1. /\ pupils[r].kind = "submit"
      /\ works' = IF \E v \in Works : R!Live(v) \/ (v = w /\ works[v].state # "none") THEN works
                  ELSE [works EXCEPT ![w] = y]
      /\ pupils' = [pupils EXCEPT ![r] = R!Waiting]
      /\ UNCHANGED <<taught, enrollment, hour, reads, viewCount, counting, dueLesson, judged, blurred, lostViews>>
  BY DEF R!SaveNewWork, R!classHistory
<1>2. w \in Works
  BY <1>1 DEF ClassInv, WorkFits
<1>3. /\ pupils' = [s \in Pupils |-> pupils'[s]] /\ pupils'[r] = R!Waiting
      /\ \A s \in Pupils \ {r} : pupils'[s] = pupils[s]
  BY <1>1 DEF ClassInv, ClassTypes
<1>4. \A s \in Pupils : PupilTypes(pupils'[s])
  BY <1>3, WaitingFits DEF ClassInv, ClassTypes
<1>5. /\ works' = [v \in Works |-> works'[v]] /\ \A v \in Works : WorkTypes(works'[v])
      /\ WorksJudged'
      /\ \A v \in Works : works'[v] = works[v] \/ (works'[v].status = "pending" /\ ~R!Live(v))
  <2>1. CASE \E v \in Works : R!Live(v) \/ (v = w /\ works[v].state # "none")
    BY <1>1, <2>1 DEF ClassInv, ClassTypes, WorksJudged, R!Live
  <2>2. CASE ~\E v \in Works : R!Live(v) \/ (v = w /\ works[v].state # "none")
    <3>1. /\ works' = [v \in Works |-> works'[v]] /\ works'[w] = y
          /\ \A v \in Works \ {w} : works'[v] = works[v]
      BY <1>1, <1>2, <2>2 DEF ClassInv, ClassTypes
    <3>2. WorkTypes(y) /\ y.status = "pending"
      BY DEF WorkTypes
    <3>3. \A v \in Works : WorkTypes(works[v]) /\ ~R!Live(v)
      BY <2>2 DEF ClassInv, ClassTypes
    <3>4. \A v \in Works : WorkTypes(works'[v])
      BY <3>1, <3>2, <3>3
    <3>5. WorksJudged'
      BY <1>1, <3>1, <3>2, <3>3 DEF ClassInv, WorksJudged, R!Live
    <3>. QED
      BY <3>1, <3>2, <3>3, <3>4, <3>5
  <2>. QED
    BY <2>1, <2>2
<1>6. ClassTypes'
  BY <1>1, <1>3, <1>4, <1>5 DEF ClassInv, ClassTypes
<1>7. DaysEarned' /\ DaysOnce'
  BY <1>1 DEF ClassInv, DaysEarned, DaysOnce, Earned, R!Unlock
<1>8. ASSUME NEW s \in Pupils PROVE DayFits(pupils[s])' /\ PlaceFits(pupils[s])' /\ WorkFits(pupils[s])'
  <2>1. DayFits(pupils'[s]) /\ PlaceFits(pupils'[s]) /\ WorkFits(pupils'[s])
    BY <1>3, WaitingFits DEF ClassInv
  <2>2. DayFits(pupils[s])' /\ PlaceFits(pupils[s])'
    BY <1>1, <2>1 DEF DayFits, Earned, R!Unlock, R!Completed, PlaceFits
  <2>3. WorkFits(pupils[s])'
    BY <1>5, <2>1 DEF WorkFits, R!Live
  <2>. QED
    BY <2>2, <2>3
<1>9. (<<"lesson", 0>> \notin blurred => enrollment.lastLesson = dueLesson)'
      /\ (viewCount + counting + lostViews = Cardinality(reads))'
  BY <1>1 DEF ClassInv
<1>. QED
  BY <1>5, <1>6, <1>7, <1>8, <1>9 DEF ClassInv

\* The hour passes, and what was in time by then still was.
LEMMA TickKeeps ==
    ASSUME ClassInv, R!Tick
    PROVE  ClassInv'
<1>1. /\ hour' = hour + 1
      /\ UNCHANGED <<taught, enrollment, works, reads, viewCount, counting, pupils, dueLesson, judged, blurred, lostViews>>
  BY DEF R!Tick, R!classHistory
<1>2. ClassTypes'
  BY <1>1 DEF ClassInv, ClassTypes
<1>3. hour \in Nat /\ enrollment.progress \in Seq(Entry)
  BY DEF ClassInv, ClassTypes
<1>4. DaysEarned' /\ DaysOnce'
  <2>1. ASSUME NEW i \in 1 .. Len(enrollment.progress)
        PROVE  /\ enrollment.progress[i].at <= hour + 1
               /\ Earned(enrollment.progress[i].day, enrollment.progress[i].at, i - 1)
    <3>1. enrollment.progress[i] \in Entry
      BY <1>3, ElementOf
    <3>2. enrollment.progress[i].at \in Nat
      BY <3>1 DEF Entry
    <3>3. /\ enrollment.progress[i].at <= hour
          /\ Earned(enrollment.progress[i].day, enrollment.progress[i].at, i - 1)
      BY DEF ClassInv, DaysEarned
    <3>. QED
      BY <1>3, <3>2, <3>3
  <2>2. DaysEarned'
    BY <1>1, <2>1 DEF DaysEarned, Earned, R!Unlock
  <2>3. DaysOnce'
    BY <1>1 DEF ClassInv, DaysOnce
  <2>. QED
    BY <2>2, <2>3
<1>5. ASSUME NEW s \in Pupils PROVE DayFits(pupils[s])' /\ PlaceFits(pupils[s])' /\ WorkFits(pupils[s])'
  <2>1. DayFits(pupils[s]) /\ PlaceFits(pupils[s]) /\ WorkFits(pupils[s])
    BY DEF ClassInv
  <2>2. DayFits(pupils[s])'
    BY <1>1, <1>3, <2>1 DEF DayFits, Earned, R!Unlock, R!Completed
  <2>3. PlaceFits(pupils[s])' /\ WorkFits(pupils[s])'
    BY <1>1, <2>1 DEF PlaceFits, WorkFits, R!Live
  <2>. QED
    BY <2>2, <2>3
<1>6. WorksJudged' /\ (<<"lesson", 0>> \notin blurred => enrollment.lastLesson = dueLesson)'
      /\ (viewCount + counting + lostViews = Cardinality(reads))'
  BY <1>1 DEF ClassInv, WorksJudged, R!Live
<1>. QED
  BY <1>2, <1>4, <1>5, <1>6 DEF ClassInv

\* Steps about the status and the views: the days, places and works rest.
LEMMA LessonsRest ==
    ASSUME ClassInv, ClassTypes',
           UNCHANGED <<taught, works, hour, dueLesson, judged, blurred>>,
           enrollment'.progress = enrollment.progress, enrollment'.lastLesson = enrollment.lastLesson,
           \A s \in Pupils : pupils'[s] = pupils[s] \/ pupils'[s] = R!Waiting,
           viewCount' + counting' + lostViews' = Cardinality(reads')
    PROVE  ClassInv'
<1>1. DaysEarned' /\ DaysOnce' /\ WorksJudged'
  BY DEF ClassInv, DaysEarned, DaysOnce, Earned, R!Unlock, WorksJudged, R!Live
<1>2. ASSUME NEW s \in Pupils PROVE DayFits(pupils[s])' /\ PlaceFits(pupils[s])' /\ WorkFits(pupils[s])'
  <2>1. DayFits(pupils'[s]) /\ PlaceFits(pupils'[s]) /\ WorkFits(pupils'[s])
    BY WaitingFits DEF ClassInv
  <2>. QED
    BY <2>1 DEF DayFits, Earned, R!Unlock, R!Completed, PlaceFits, WorkFits, R!Live
<1>3. (<<"lesson", 0>> \notin blurred => enrollment.lastLesson = dueLesson)'
      /\ (viewCount + counting + lostViews = Cardinality(reads))'
  BY DEF ClassInv
<1>. QED
  BY <1>1, <1>2, <1>3 DEF ClassInv

LEMMA OtherClassSteps ==
    ASSUME ClassInv,
           \/ R!CountView \/ R!StopClass
           \/ \E status \in {"ACTIVE", "LOCKED"} : R!SetStatus(status)
           \/ \E v \in Readers : R!View(v)
    PROVE  ClassInv'
<1>1. CASE R!CountView
  <2>1. /\ counting > 0 /\ counting' = counting - 1 /\ viewCount' = viewCount + 1
        /\ UNCHANGED <<taught, enrollment, works, hour, reads, pupils, dueLesson, judged, blurred, lostViews>>
    BY <1>1 DEF R!CountView, R!classHistory
  <2>2. viewCount \in Nat /\ counting \in Nat /\ lostViews \in Nat
    BY DEF ClassInv, ClassTypes
  <2>3. /\ viewCount' \in Nat /\ counting' \in Nat
        /\ viewCount' + counting' + lostViews' = viewCount + counting + lostViews
    BY <2>1, <2>2
  <2>4. ClassTypes' /\ viewCount' + counting' + lostViews' = Cardinality(reads')
    BY <2>1, <2>3 DEF ClassInv, ClassTypes
  <2>. QED
    BY <2>1, <2>4, LessonsRest
<1>2. CASE R!StopClass
  <2>1. /\ pupils' = [r \in Pupils |-> R!Waiting]
        /\ lostViews' = lostViews + counting /\ counting' = 0
        /\ UNCHANGED <<taught, enrollment, works, hour, reads, viewCount, dueLesson, judged, blurred>>
    BY <1>2 DEF R!StopClass
  <2>2. ClassTypes' /\ viewCount' + counting' + lostViews' = Cardinality(reads')
    BY <2>1, WaitingFits, SMTT(30) DEF ClassInv, ClassTypes
  <2>. QED
    BY <2>1, <2>2, LessonsRest
<1>3. ASSUME NEW status, R!SetStatus(status) PROVE ClassInv'
  <2>1. /\ enrollment' = [enrollment EXCEPT !.status = status]
        /\ UNCHANGED <<taught, works, hour, reads, viewCount, counting, pupils, dueLesson, judged, blurred, lostViews>>
    BY <1>3 DEF R!SetStatus, R!classHistory
  <2>2. /\ enrollment'.progress = enrollment.progress /\ enrollment'.lastLesson = enrollment.lastLesson
        /\ enrollment' = [status |-> enrollment'.status, progress |-> enrollment'.progress, lastLesson |-> enrollment'.lastLesson]
    BY <2>1 DEF ClassInv, ClassTypes
  <2>3. ClassTypes' /\ viewCount' + counting' + lostViews' = Cardinality(reads')
    BY <2>1, <2>2, SMTT(30) DEF ClassInv, ClassTypes
  <2>. QED
    BY <2>1, <2>2, <2>3, LessonsRest
<1>4. ASSUME NEW v \in Readers, R!View(v) PROVE ClassInv'
  <2>1. /\ <<v, hour>> \notin reads /\ reads' = reads \cup {<<v, hour>>} /\ counting' = counting + 1
        /\ UNCHANGED <<taught, enrollment, works, hour, viewCount, pupils, dueLesson, judged, blurred, lostViews>>
    BY <1>4 DEF R!View, R!classHistory
  <2>2. IsFiniteSet(reads') /\ Cardinality(reads') = Cardinality(reads) + 1
    BY <2>1, FS_AddElement DEF ClassInv, ClassTypes
  <2>3. ClassTypes'
    BY <2>1, <2>2 DEF ClassInv, ClassTypes
  <2>4. viewCount' + counting' + lostViews' = Cardinality(reads')
    BY <2>1, <2>2 DEF ClassInv, ClassTypes
  <2>. QED
    BY <2>1, <2>3, <2>4, LessonsRest
<1>. QED
  BY <1>1, <1>2, <1>3, <1>4

LEMMA ClassNextKeeps == ClassInv /\ R!ClassNext => ClassInv'
<1>. SUFFICES ASSUME ClassInv, R!ClassNext PROVE ClassInv'
  OBVIOUS
<1>1. ASSUME NEW r \in Pupils, \E d \in R!DayIds : R!SubmitDay(r, d) PROVE ClassInv'
  BY <1>1, SubmitDayKeeps DEF R!DayIds
<1>2. ASSUME NEW r \in Pupils, NEW n \in 1 .. MaxLesson, R!ReportLesson(r, n) PROVE ClassInv'
  <2>1. n \in Nat
    OBVIOUS
  <2>. QED
    BY <1>2, <2>1, ReportLessonKeeps
<1>3. ASSUME NEW r \in Pupils, NEW w \in Works,
             \/ R!SubmitWork(r, w) \/ R!Resubmit(r, w) \/ R!Withdraw(r, w)
             \/ \E verdict \in {"approved", "rejected"} : R!Review(r, w, verdict)
      PROVE  ClassInv'
  BY <1>3, WorksRequested
<1>4. ASSUME NEW r \in Pupils,
             \/ R!SaveDay(r) \/ R!SaveLesson(r)
             \/ R!SaveNewWork(r) \/ R!SaveWork(r) \/ R!SaveWithdrawal(r) \/ R!SaveReview(r)
      PROVE  ClassInv'
  BY <1>4, SaveDayKeeps, SaveLessonKeeps, SaveNewWorkKeeps, WorkSavesKeep
<1>5. CASE R!Tick
  BY <1>5, TickKeeps
<1>6. CASE \/ R!CountView \/ R!StopClass
           \/ \E status \in {"ACTIVE", "LOCKED"} : R!SetStatus(status)
           \/ \E v \in Readers : R!View(v)
  BY <1>6, OtherClassSteps
<1>. QED
  BY <1>1, <1>2, <1>3, <1>4, <1>5, <1>6 DEF R!ClassNext

\* Whoever is in such a set is alone in it.
LEMMA AtMostOne ==
    ASSUME NEW S, \A a, b \in S : a = b
    PROVE  IsFiniteSet(S) /\ Cardinality(S) <= 1
<1>1. CASE S = {}
  BY <1>1, FS_EmptySet
<1>2. CASE S # {}
  <2>1. PICK a \in S : S = {a}
    BY <1>2
  <2>2. IsFiniteSet({a}) /\ Cardinality({a}) = 1
    BY FS_Singleton
  <2>. QED
    BY <2>1, <2>2
<1>. QED
  BY <1>1, <1>2

LEMMA SameInClass == ASSUME NEW s PROVE R!Cardinality(s) = Cardinality(s)
BY DEF R!Cardinality, Cardinality, R!IsFiniteSet, IsFiniteSet

LEMMA ClassMeans == ClassInv => R!ClassroomIsFair
<1>. SUFFICES ASSUME ClassInv PROVE R!ClassroomIsFair
  OBVIOUS
<1>1. enrollment.progress \in Seq(Entry)
  BY DEF ClassInv, ClassTypes
<1>2. R!DaysAreEarned
  <2>. SUFFICES ASSUME NEW d \in R!DayIds
                PROVE  /\ <<"day", d>> \notin blurred => R!Cardinality(R!Entries(d)) <= 1
                       /\ \A i \in R!Entries(d) :
                            (enrollment.progress[i].at < R!Unlock(d) /\ ~taught.advance) =>
                               d > 1 /\ \E j \in R!Entries(d - 1) :
                                   j < i /\ enrollment.progress[j].at <= enrollment.progress[i].at
    BY DEF R!DaysAreEarned
  <2>1. \A e : R!Entries(e) = {i \in 1 .. Len(enrollment.progress) : enrollment.progress[i].day = e}
    BY <1>1 DEF R!Entries
  <2>2. ASSUME <<"day", d>> \notin blurred PROVE R!Cardinality(R!Entries(d)) <= 1
    <3>1. \A i, j \in R!Entries(d) : i = j
      BY <2>1, <2>2 DEF ClassInv, DaysOnce
    <3>. QED
      BY <3>1, AtMostOne, SameInClass
  <2>3. ASSUME NEW i \in R!Entries(d), enrollment.progress[i].at < R!Unlock(d), ~taught.advance
        PROVE  d > 1 /\ \E j \in R!Entries(d - 1) :
                   j < i /\ enrollment.progress[j].at <= enrollment.progress[i].at
    <3>1. i \in 1 .. Len(enrollment.progress) /\ enrollment.progress[i].day = d
      BY <2>1
    <3>2. d > 1
      BY <2>3, <3>1 DEF ClassInv, DaysEarned, Earned
    <3>3. PICK j \in 1 .. i - 1 :
            enrollment.progress[j].day = d - 1 /\ enrollment.progress[j].at <= enrollment.progress[i].at
      BY <2>3, <3>1 DEF ClassInv, DaysEarned, Earned
    <3>4. j \in R!Entries(d - 1) /\ j < i
      BY <1>1, <2>1, <3>1, <3>3
    <3>. QED
      BY <3>2, <3>3, <3>4
  <2>. QED
    BY <2>2, <2>3
<1>3. R!PlaceIsKept /\ R!ViewsAreCounted
  BY SameInClass DEF ClassInv, R!PlaceIsKept, R!ViewsAreCounted
<1>4. R!WorksAreJudged
  <2>1. R!Cardinality({w \in Works : R!Live(w)}) <= 1
    BY AtMostOne, SameInClass DEF ClassInv, WorksJudged
  <2>. QED
    BY <2>1 DEF ClassInv, WorksJudged, R!WorksAreJudged
<1>. QED
  BY <1>2, <1>3, <1>4 DEF R!ClassroomIsFair

\* A day is handed in once and not before it opens or follows another, a place
\* in a course never goes back, an approved work has the contents its reviewer
\* saw, and the views are counted, but where requests overlapped or a stop cut
\* them off: for any courses, people and requests.
THEOREM ClassroomStaysFair == LearningSpec => []ClassroomIsFair
<1>. DEFINE Kept == part = "class" => ClassInv
            all == <<part, classVars, catalogueVars, bookVars, payVars, programmeVars, orderVars>>
<1>1. LearningInit => Kept
  BY ClassFirst
<1>2. Kept /\ [LearningNext]_all => Kept'
  <2>. SUFFICES ASSUME Kept, [LearningNext]_all
                PROVE  Kept'
    OBVIOUS
  <2>1. CASE part = "class" /\ R!ClassNext /\ part' = part
    BY <2>1, ClassNextKeeps
  <2>2. CASE part' = part /\ UNCHANGED classVars
    BY <2>2, ClassRests
  <2>3. CASE part # "class" /\ part' = part
    BY <2>3
  <2>. QED
    BY <2>1, <2>2, <2>3 DEF LearningNext
<1>3. Kept => ClassroomIsFair
  BY ClassMeans DEF ClassroomIsFair
<1>. QED
  BY <1>1, <1>2, <1>3, PTL DEF LearningSpec
===============================================================================
