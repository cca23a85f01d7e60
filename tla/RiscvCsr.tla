-------------------------------- MODULE RiscvCsr ------------------------------
(***************************************************************************)
(* The accessors of riscv-csr.h at work: the threads of control of one     *)
(* hart (a main program and its interrupt service routines), each keeping  *)
(* fields of its own in registers they share.  An accessor is a single     *)
(* instruction, so an interrupt comes between two calls, never inside one; *)
(* what a caller read may be stale when it writes.  Restricted views of a  *)
(* register (sie of mie, ustatus of mstatus...) are not used together.     *)
(***************************************************************************)
EXTENDS CsrMap, RiscvInterrupts

CONSTANTS
  Users,  \* the threads of control
  Owns,   \* the fields of each, as pairs of a register and a field
  Lock,   \* a field that all take and give back, as such a pair
  Start   \* what the registers hold to begin with

Owned == UNION {Owns[u] : u \in Users}
Registers == {p[1] : p \in Owned \cup {Lock}}

BitsOf(p) == FieldBits(p[1], p[2])
Mask(p)   == MaskOf(p[1], p[2])

\* A field has one owner, or is the lock.
ASSUME CsrAssumption ==
  /\ \A p \in Owned \cup {Lock} : /\ p[1] \in PlainRegisters \cup DOMAIN BitRegisters
                                  /\ p[2] \in DOMAIN Section(p[1]).fields
  /\ \A u, v \in Users : u # v => Owns[u] \cap Owns[v] = {}
  /\ Lock \notin Owned
  /\ Start \subseteq [Registers -> Value]

VARIABLES
  csr,     \* the registers
  value,   \* what the last reading accessor returned to each user
  wanted,  \* history: the fields their owners have set last, not cleared
  holders  \* history: the users that found Lock clear when they set it

vars == <<csr, value, wanted, holders>>

-------------------------------------------------------------------------------
(* The accessors.                                                          *)

SetCalls   == {"set_bits", "read_set_bits", "SET_BITS_IMM"}
ClearCalls == {"clr_bits", "read_clr_bits", "CLR_BITS_IMM"}
WriteCalls == {"write", "read_write", "WRITE_IMM"}

\* What an accessor leaves in the register.
Executes(fn, old, x) == CASE fn \in SetCalls   -> csrrs(old, x)
                          [] fn \in ClearCalls -> csrrc(old, x)
                          [] fn \in WriteCalls -> csrrw(old, x)
                          [] fn = "read"       -> old

\* "only up to 5 bits": the immediate is part of the instruction.
Encodable(fn, x) == fn \in Immediates => x \subseteq 0 .. 4

\* Faulty variant: the result register of the bit functions is left out.
ReturnsOnlyRead(fn) == fn \in {"read", "read_write"}

\* The accessors with a result register; in the others it is zero.
Returns(fn) == fn \in {"read", "read_write", "read_set_bits", "read_clr_bits"}

\* User u calls accessor fn of register r with operand x.
Access(u, fn, r, x) ==
  /\ fn \in Section(r).calls /\ Encodable(fn, x)
  /\ csr' = [csr EXCEPT ![r] = Executes(fn, csr[r], x)]
  /\ value' = IF Returns(fn) THEN [value EXCEPT ![u] = csr[r]] ELSE value

-------------------------------------------------------------------------------
(* What the users call.                                                    *)

Init ==
  /\ csr \in Start
  /\ value = [u \in Users |-> {}]
  /\ wanted = {}
  /\ holders = {}

SoleOwner(u, r) ==
  r # Lock[1] /\ \A v \in Users \ {u} : \A p \in Owns[v] : p[1] # r

\* A user sets or clears a field of its own through the field's mask.
SetField(u) ==
  \E p \in Owns[u], fn \in SetCalls :
    /\ Access(u, fn, p[1], Mask(p))
    /\ wanted' = wanted \cup {p} /\ UNCHANGED holders

ClearField(u) ==
  \E p \in Owns[u], fn \in ClearCalls :
    /\ Access(u, fn, p[1], Mask(p))
    /\ wanted' = wanted \ {p} /\ UNCHANGED holders

\* A user replaces a register that no other user has a field in: one field is
\* set at most, and the others are cleared.
WriteRegister(u) ==
  \E p \in Owns[u], fn \in WriteCalls : \E set \in SUBSET {p} :
    /\ SoleOwner(u, p[1])
    /\ Access(u, fn, p[1], UNION {Mask(q) : q \in set})
    /\ wanted' = {q \in wanted : q[1] # p[1]} \cup set
    /\ UNCHANGED holders

ReadRegister(u) ==
  \E r \in Registers : Access(u, "read", r, {}) /\ UNCHANGED <<wanted, holders>>

\* A user sets Lock with the accessor that returns what was there before.
Take(u) ==
  /\ u \notin holders
  /\ Access(u, "read_set_bits", Lock[1], Mask(Lock))
  /\ wanted' = wanted \cup {Lock}
  /\ holders' = IF value'[u] \cap BitsOf(Lock) = {} THEN holders \cup {u} ELSE holders

Give(u) ==
  /\ u \in holders
  /\ \E fn \in ClearCalls : Access(u, fn, Lock[1], Mask(Lock))
  /\ wanted' = wanted \ {Lock}
  /\ holders' = holders \ {u}

Next == \E u \in Users : \/ SetField(u) \/ ClearField(u) \/ WriteRegister(u)
                         \/ ReadRegister(u) \/ Take(u) \/ Give(u)

Spec == Init /\ [][Next]_vars

-------------------------------------------------------------------------------
\* No update is lost: wherever one user interrupts another, every field of a
\* shared register holds what its own owner gave it last.
NoLostUpdate ==
  \A p \in Owned \cup {Lock} :
    IF p \in wanted THEN BitsOf(p) \subseteq csr[p[1]] ELSE BitsOf(p) \cap csr[p[1]] = {}

\* A field that is set with csr_read_set_bits_x works as a lock: one user at
\* a time has found it clear.
TestAndSetExcludes == \A u, v \in holders : u = v

\* The two headers agree on which bit an interrupt has: what a user enables in
\* mie by its name is the interrupt that riscv-interrupts.h gives the number.
EnabledByNumber ==
  \A p \in Owned : p[2] \in DOMAIN RISCV_INT_POS =>
    (p \in wanted <=> RISCV_INT_MASK[p[2]] \subseteq csr[p[1]])

===============================================================================
