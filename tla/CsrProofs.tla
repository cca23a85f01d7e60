------------------------------- MODULE CsrProofs ------------------------------
(***************************************************************************)
(* Theorems about RiscvCsr for every set of users and every choice of the  *)
(* fields they own.                                                        *)
(***************************************************************************)
EXTENDS RiscvCsr, TLAPS

Shared == Owned \cup {Lock}

\* The conditions: the mask of a field is the field, fields of one register do
\* not overlap, the lock has a bit at all, and every field starts clear.
MasksAreFields == \A p \in Shared : Mask(p) = BitsOf(p)

FieldsApart ==
  \A p, q \in Shared : p # q /\ p[1] = q[1] => BitsOf(p) \cap BitsOf(q) = {}

StartsClear == \A s \in Start, p \in Shared : BitsOf(p) \cap s[p[1]] = {}

\* The registers, whatever they hold.
TypeInv == DOMAIN csr = Registers /\ DOMAIN value = Users /\ wanted \subseteq Shared

LEMMA SharedRegisters == \A p \in Shared : p[1] \in Registers
BY DEF Shared, Registers

\* What an accessor does to the registers.
LEMMA AccessEffect ==
  ASSUME TypeInv, NEW u \in Users, NEW fn, NEW r \in Registers, NEW x, Access(u, fn, r, x)
  PROVE  /\ csr'[r] = Executes(fn, csr[r], x)
         /\ \A s \in Registers \ {r} : csr'[s] = csr[s]
         /\ DOMAIN csr' = Registers /\ DOMAIN value' = Users
BY DEF Access, TypeInv

\* An access of one register that changes the bits of field p at most, and makes
\* them what the owner of p wants, loses no update of another field.
LEMMA OneField ==
  ASSUME FieldsApart, TypeInv, NoLostUpdate, NEW p \in Shared,
         \A s \in Registers \ {p[1]} : csr'[s] = csr[s],
         csr'[p[1]] \ BitsOf(p) = csr[p[1]] \ BitsOf(p),
         wanted' \ {p} = wanted \ {p},
         IF p \in wanted' THEN BitsOf(p) \subseteq csr'[p[1]] ELSE BitsOf(p) \cap csr'[p[1]] = {}
  PROVE  NoLostUpdate'
<1>1. ASSUME NEW q \in Shared
      PROVE  IF q \in wanted' THEN BitsOf(q) \subseteq csr'[q[1]]
                              ELSE BitsOf(q) \cap csr'[q[1]] = {}
  <2>1. IF q \in wanted THEN BitsOf(q) \subseteq csr[q[1]] ELSE BitsOf(q) \cap csr[q[1]] = {}
    BY DEF NoLostUpdate, Shared
  <2>2. CASE q = p  BY <2>2
  <2>3. CASE q # p /\ q[1] = p[1]
    <3>1. BitsOf(q) \cap BitsOf(p) = {}  BY <2>3 DEF FieldsApart
    <3>2. \A b \in BitsOf(q) : b \in csr'[p[1]] <=> b \in csr[p[1]]  BY <3>1
    <3>3. q \in wanted' <=> q \in wanted  BY <2>3
    <3> QED  BY <2>1, <2>3, <3>2, <3>3
  <2>4. CASE q # p /\ q[1] # p[1]
    <3>1. csr'[q[1]] = csr[q[1]]  BY <2>4, SharedRegisters
    <3>2. q \in wanted' <=> q \in wanted  BY <2>4
    <3> QED  BY <2>1, <3>1, <3>2
  <2> QED  BY <2>2, <2>3, <2>4
<1> QED  BY <1>1 DEF NoLostUpdate, Shared, BitsOf

LEMMA SetKeeps ==
  ASSUME MasksAreFields, FieldsApart, TypeInv, NoLostUpdate,
         NEW u \in Users, NEW p \in Shared, NEW fn \in SetCalls,
         Access(u, fn, p[1], Mask(p)), wanted' = wanted \cup {p}
  PROVE  TypeInv' /\ NoLostUpdate'
<1>1. /\ csr'[p[1]] = csr[p[1]] \cup BitsOf(p)
      /\ \A s \in Registers \ {p[1]} : csr'[s] = csr[s]
      /\ DOMAIN csr' = Registers /\ DOMAIN value' = Users
  <2>1. p[1] \in Registers  BY SharedRegisters
  <2>2. /\ csr'[p[1]] = Executes(fn, csr[p[1]], Mask(p))
        /\ \A s \in Registers \ {p[1]} : csr'[s] = csr[s]
        /\ DOMAIN csr' = Registers /\ DOMAIN value' = Users
    BY <2>1, AccessEffect, Zenon
  <2>3. Executes(fn, csr[p[1]], Mask(p)) = csr[p[1]] \cup Mask(p)
    BY DEF Executes, SetCalls, ClearCalls, WriteCalls, csrrs, csrrc, csrrw
  <2> QED  BY <2>2, <2>3 DEF MasksAreFields
<1>2. NoLostUpdate'
  <2>1. csr'[p[1]] \ BitsOf(p) = csr[p[1]] \ BitsOf(p)  BY <1>1
  <2> QED  BY <1>1, <2>1, OneField
<1> QED  BY <1>1, <1>2 DEF TypeInv

LEMMA ClearKeeps ==
  ASSUME MasksAreFields, FieldsApart, TypeInv, NoLostUpdate,
         NEW u \in Users, NEW p \in Shared, NEW fn \in ClearCalls,
         Access(u, fn, p[1], Mask(p)), wanted' = wanted \ {p}
  PROVE  TypeInv' /\ NoLostUpdate'
<1>1. /\ csr'[p[1]] = csr[p[1]] \ BitsOf(p)
      /\ \A s \in Registers \ {p[1]} : csr'[s] = csr[s]
      /\ DOMAIN csr' = Registers /\ DOMAIN value' = Users
  <2>1. p[1] \in Registers  BY SharedRegisters
  <2>2. /\ csr'[p[1]] = Executes(fn, csr[p[1]], Mask(p))
        /\ \A s \in Registers \ {p[1]} : csr'[s] = csr[s]
        /\ DOMAIN csr' = Registers /\ DOMAIN value' = Users
    BY <2>1, AccessEffect, Zenon
  <2>3. Executes(fn, csr[p[1]], Mask(p)) = csr[p[1]] \ Mask(p)
    BY DEF Executes, SetCalls, ClearCalls, WriteCalls, csrrs, csrrc, csrrw
  <2> QED  BY <2>2, <2>3 DEF MasksAreFields
<1>2. NoLostUpdate'
  <2>1. csr'[p[1]] \ BitsOf(p) = csr[p[1]] \ BitsOf(p)  BY <1>1
  <2>2. BitsOf(p) \cap csr'[p[1]] = {} /\ p \notin wanted'  BY <1>1
  <2> QED  BY <1>1, <2>1, <2>2, OneField
<1> QED  BY <1>1, <1>2 DEF TypeInv

LEMMA WriteKeeps ==
  ASSUME MasksAreFields, FieldsApart, TypeInv, NoLostUpdate,
         NEW u \in Users, WriteRegister(u)
  PROVE  TypeInv' /\ NoLostUpdate'
<1>0. PICK p \in Owns[u], fn \in WriteCalls : \E set \in SUBSET {p} :
        /\ SoleOwner(u, p[1])
        /\ Access(u, fn, p[1], UNION {Mask(q) : q \in set})
        /\ wanted' = {q \in wanted : q[1] # p[1]} \cup set
  BY DEF WriteRegister
<1>1. PICK set \in SUBSET {p} :
        /\ SoleOwner(u, p[1])
        /\ Access(u, fn, p[1], UNION {Mask(q) : q \in set})
        /\ wanted' = {q \in wanted : q[1] # p[1]} \cup set
  BY <1>0
<1>2. p \in Shared /\ p[1] \in Registers  BY SharedRegisters DEF Shared, Owned
<1>3. /\ csr'[p[1]] = UNION {Mask(q) : q \in set}
      /\ \A s \in Registers \ {p[1]} : csr'[s] = csr[s]
      /\ DOMAIN csr' = Registers /\ DOMAIN value' = Users
  <2>1. /\ csr'[p[1]] = Executes(fn, csr[p[1]], UNION {Mask(q) : q \in set})
        /\ \A s \in Registers \ {p[1]} : csr'[s] = csr[s]
        /\ DOMAIN csr' = Registers /\ DOMAIN value' = Users
    BY <1>1, <1>2, AccessEffect, Zenon
  <2>2. Executes(fn, csr[p[1]], UNION {Mask(q) : q \in set}) = UNION {Mask(q) : q \in set}
    BY DEF Executes, SetCalls, ClearCalls, WriteCalls, csrrs, csrrc, csrrw
  <2> QED  BY <2>1, <2>2
<1>4. csr'[p[1]] = IF set = {} THEN {} ELSE BitsOf(p)
  BY <1>2, <1>3 DEF MasksAreFields
<1>5. ASSUME NEW q \in Shared
      PROVE  IF q \in wanted' THEN BitsOf(q) \subseteq csr'[q[1]]
                              ELSE BitsOf(q) \cap csr'[q[1]] = {}
  <2>1. IF q \in wanted THEN BitsOf(q) \subseteq csr[q[1]] ELSE BitsOf(q) \cap csr[q[1]] = {}
    BY DEF NoLostUpdate, Shared
  <2>2. CASE q = p  BY <1>1, <1>4, <2>2
  <2>3. CASE q # p /\ q[1] = p[1]
    <3>1. BitsOf(q) \cap BitsOf(p) = {}  BY <1>2, <2>3 DEF FieldsApart
    <3>2. q \notin wanted'  BY <1>1, <2>3
    <3> QED  BY <1>4, <2>3, <3>1, <3>2
  <2>4. CASE q # p /\ q[1] # p[1]
    <3>1. csr'[q[1]] = csr[q[1]]  BY <1>3, <2>4, SharedRegisters
    <3>2. q \in wanted' <=> q \in wanted  BY <1>1, <2>4
    <3> QED  BY <2>1, <3>1, <3>2
  <2> QED  BY <2>2, <2>3, <2>4
<1>6. wanted' \subseteq Shared  BY <1>1, <1>2 DEF TypeInv
<1> QED  BY <1>3, <1>5, <1>6 DEF NoLostUpdate, TypeInv, Shared, BitsOf

LEMMA UpdateInductive ==
  ASSUME MasksAreFields, FieldsApart, TypeInv, NoLostUpdate, [Next]_vars
  PROVE  TypeInv' /\ NoLostUpdate'
<1>1. ASSUME NEW u \in Users, SetField(u) PROVE TypeInv' /\ NoLostUpdate'
  BY <1>1, SetKeeps DEF SetField, Shared, Owned
<1>2. ASSUME NEW u \in Users, ClearField(u) PROVE TypeInv' /\ NoLostUpdate'
  BY <1>2, ClearKeeps DEF ClearField, Shared, Owned
<1>3. ASSUME NEW u \in Users, WriteRegister(u) PROVE TypeInv' /\ NoLostUpdate'
  BY <1>3, WriteKeeps
<1>4. ASSUME NEW u \in Users, ReadRegister(u) PROVE TypeInv' /\ NoLostUpdate'
  <2>1. PICK r \in Registers : Access(u, "read", r, {}) /\ UNCHANGED wanted
    BY <1>4 DEF ReadRegister
  <2>2. /\ \A s \in Registers : csr'[s] = csr[s]
        /\ DOMAIN csr' = Registers /\ DOMAIN value' = Users
    BY <2>1, AccessEffect DEF Executes, SetCalls, ClearCalls, WriteCalls
  <2>3. \A p \in Shared : csr'[p[1]] = csr[p[1]]  BY <2>2, SharedRegisters
  <2> QED  BY <2>1, <2>2, <2>3 DEF NoLostUpdate, TypeInv, Shared, BitsOf
<1>5. ASSUME NEW u \in Users, Take(u) PROVE TypeInv' /\ NoLostUpdate'
  BY <1>5, SetKeeps DEF Take, Shared, SetCalls
<1>6. ASSUME NEW u \in Users, Give(u) PROVE TypeInv' /\ NoLostUpdate'
  BY <1>6, ClearKeeps DEF Give, Shared
<1>7. CASE UNCHANGED vars
  BY <1>7 DEF vars, NoLostUpdate, TypeInv, BitsOf
<1> QED  BY <1>1, <1>2, <1>3, <1>4, <1>5, <1>6, <1>7 DEF Next

LEMMA UpdateInit == StartsClear /\ Init => TypeInv /\ NoLostUpdate
<1> SUFFICES ASSUME StartsClear, Init PROVE TypeInv /\ NoLostUpdate
  OBVIOUS
<1>1. csr \in [Registers -> Value]  BY CsrAssumption DEF Init
<1> QED  BY <1>1 DEF Init, TypeInv, NoLostUpdate, StartsClear, Shared

\* Whoever the users are and whichever fields they own, no update of a field
\* is lost, as long as masks are the fields and fields do not overlap.
THEOREM NoLostUpdateCorrect ==
  MasksAreFields /\ FieldsApart /\ StartsClear => (Spec => []NoLostUpdate)
<1> SUFFICES ASSUME MasksAreFields, FieldsApart, StartsClear PROVE Spec => []NoLostUpdate
  OBVIOUS
<1>1. Init => TypeInv /\ NoLostUpdate  BY UpdateInit
<1>2. TypeInv /\ NoLostUpdate /\ [Next]_vars => TypeInv' /\ NoLostUpdate'
  BY UpdateInductive
<1> QED  BY <1>1, <1>2, PTL DEF Spec

-------------------------------------------------------------------------------
(* The lock.  A user that has found it clear wants it set, so that whoever *)
(* comes next finds it set.                                                *)

LockInv == TestAndSetExcludes /\ (holders # {} => Lock \in wanted)

LEMMA LockInductive ==
  ASSUME BitsOf(Lock) # {}, TypeInv, NoLostUpdate, LockInv, [Next]_vars
  PROVE  LockInv'
<1>1. \A u \in Users : Lock \notin Owns[u]  BY CsrAssumption DEF Owned
<1>2. ASSUME NEW u \in Users, SetField(u) \/ ClearField(u) \/ WriteRegister(u) \/ ReadRegister(u)
      PROVE  LockInv'
  <2>1. UNCHANGED holders
    BY <1>2 DEF SetField, ClearField, WriteRegister, ReadRegister
  <2>2. Lock \in wanted => Lock \in wanted'
    <3>1. CASE SetField(u)  BY <3>1 DEF SetField
    <3>2. CASE ClearField(u)  BY <1>1, <3>2 DEF ClearField
    <3>3. CASE WriteRegister(u)  BY <3>3 DEF WriteRegister, SoleOwner
    <3>4. CASE ReadRegister(u)  BY <3>4 DEF ReadRegister
    <3> QED  BY <1>2, <3>1, <3>2, <3>3, <3>4
  <2> QED  BY <2>1, <2>2 DEF LockInv, TestAndSetExcludes
<1>3. ASSUME NEW u \in Users, Take(u) PROVE LockInv'
  <2>1. value'[u] = csr[Lock[1]] /\ Lock \in wanted'
    BY <1>3 DEF Take, Access, Returns, TypeInv
  <2>2. holders # {} => value'[u] \cap BitsOf(Lock) # {}
    BY <2>1 DEF LockInv, NoLostUpdate
  <2>3. holders' = holders \/ (holders = {} /\ holders' = {u})
    BY <1>3, <2>2 DEF Take
  <2> QED  BY <2>1, <2>3 DEF LockInv, TestAndSetExcludes
<1>4. ASSUME NEW u \in Users, Give(u) PROVE LockInv'
  BY <1>4 DEF Give, LockInv, TestAndSetExcludes
<1>5. CASE UNCHANGED vars
  BY <1>5 DEF vars, LockInv, TestAndSetExcludes
<1> QED  BY <1>2, <1>3, <1>4, <1>5 DEF Next

\* Setting a bit and reading what it was, in one instruction, makes any bit a
\* lock, whoever else has fields in its register.
THEOREM LockCorrect ==
  MasksAreFields /\ FieldsApart /\ StartsClear /\ BitsOf(Lock) # {}
    => (Spec => []TestAndSetExcludes)
<1> SUFFICES ASSUME MasksAreFields, FieldsApart, StartsClear, BitsOf(Lock) # {}
             PROVE  Spec => []TestAndSetExcludes
  OBVIOUS
<1>1. Init => TypeInv /\ NoLostUpdate /\ LockInv
  BY UpdateInit DEF Init, LockInv, TestAndSetExcludes
<1>2. TypeInv /\ NoLostUpdate /\ LockInv /\ [Next]_vars => (TypeInv /\ NoLostUpdate /\ LockInv)'
  BY UpdateInductive, LockInductive
<1>3. LockInv => TestAndSetExcludes  BY DEF LockInv
<1> QED  BY <1>1, <1>2, <1>3, PTL DEF Spec

-------------------------------------------------------------------------------
(* The two headers.  A field of riscv-csr.h that has the name of an        *)
(* interrupt is the one bit of its number in riscv-interrupts.h.           *)

\* The field at the number of interrupt i.
Numbered(i, field) == field.offset = RISCV_INT_POS[i] /\ field.width = 1

LEMMA InterruptFields ==
  ASSUME NEW r \in DOMAIN BitRegisters, NEW i \in DOMAIN RISCV_INT_POS,
         i \in DOMAIN BitRegisters[r].fields
  PROVE  Numbered(i, BitRegisters[r].fields[i])
<1> USE DEF BitRegisters, BitRegister, Flag, Field, RISCV_INT_POS, Numbered
<1>1. CASE r = "mie"  BY <1>1 DEF mie
<1>2. CASE r = "mip"  BY <1>2 DEF mip
<1>3. CASE r = "sie"  BY <1>3 DEF sie
<1>4. CASE r = "sip"  BY <1>4 DEF sip
<1>5. CASE r = "uie"  BY <1>5 DEF uie
<1>6. CASE r = "uip"  BY <1>6 DEF uip
<1>7. CASE r = "mstatus" \/ r = "mtvec"  BY <1>7 DEF mstatus, mtvec
<1>8. CASE r = "mcountinhibit" \/ r = "mcounteren"  BY <1>8 DEF mcountinhibit, mcounteren
<1>9. CASE r = "mcause" \/ r = "scause" \/ r = "ucause"  BY <1>9 DEF mcause, scause, ucause
<1>10. CASE r = "sstatus" \/ r = "ustatus"  BY <1>10 DEF sstatus, ustatus
<1>11. CASE r = "stvec" \/ r = "utvec"  BY <1>11 DEF stvec, utvec
<1> QED  BY <1>1, <1>2, <1>3, <1>4, <1>5, <1>6, <1>7, <1>8, <1>9, <1>10, <1>11

LEMMA NumberedBits ==
  ASSUME NEW p \in Shared, p[2] \in DOMAIN RISCV_INT_POS
  PROVE  BitsOf(p) = RISCV_INT_MASK[p[2]]
<1> DEFINE field == Section(p[1]).fields[p[2]]
<1>1. /\ p[1] \in PlainRegisters \cup DOMAIN BitRegisters
      /\ p[2] \in DOMAIN Section(p[1]).fields
  BY CsrAssumption DEF Shared
<1>2. Section(p[1]) = BitRegisters[p[1]] /\ p[1] \in DOMAIN BitRegisters
  <2>1. \A calls : DOMAIN Whole(calls).fields = {"ALL"}  BY DEF Whole
  <2>2. p[2] # "ALL"  BY DEF RISCV_INT_POS
  <2> QED  BY <1>1, <2>1, <2>2 DEF Section
<1>3. Numbered(p[2], field)  BY <1>1, <1>2, InterruptFields
<1>4. RISCV_INT_POS[p[2]] \in 0 .. 11  BY DEF RISCV_INT_POS
<1> HIDE DEF field
<1>5. Bits(field.offset, field.width) \cap 0 .. xlen - 1 = {RISCV_INT_POS[p[2]]}
  BY <1>3, <1>4, XlenAssumption DEF Numbered, Bits
<1> QED  BY <1>5 DEF BitsOf, FieldBits, RISCV_INT_MASK, field

\* Whoever enables an interrupt by its name in the one header has set the bit
\* that the other header gives its number, in every register and at all times.
THEOREM EnabledByNumberCorrect ==
  MasksAreFields /\ FieldsApart /\ StartsClear => (Spec => []EnabledByNumber)
<1> SUFFICES ASSUME MasksAreFields, FieldsApart, StartsClear PROVE Spec => []EnabledByNumber
  OBVIOUS
<1>1. NoLostUpdate => EnabledByNumber
  <2> SUFFICES ASSUME NoLostUpdate, NEW p \in Owned, p[2] \in DOMAIN RISCV_INT_POS
               PROVE  p \in wanted <=> RISCV_INT_MASK[p[2]] \subseteq csr[p[1]]
    BY DEF EnabledByNumber
  <2>1. BitsOf(p) = RISCV_INT_MASK[p[2]]  BY NumberedBits DEF Shared
  <2>2. RISCV_INT_POS[p[2]] \in BitsOf(p)  BY <2>1 DEF RISCV_INT_MASK
  <2>3. IF p \in wanted THEN BitsOf(p) \subseteq csr[p[1]] ELSE BitsOf(p) \cap csr[p[1]] = {}
    BY DEF NoLostUpdate
  <2> QED  BY <2>1, <2>2, <2>3
<1> QED  BY <1>1, NoLostUpdateCorrect, PTL
===============================================================================
