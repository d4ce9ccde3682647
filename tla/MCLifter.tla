------------------------------ MODULE MCLifter ------------------------------
(***************************************************************************)
(* Instances for TLC: a byte of one bit, so that a register has eight, i8   *)
(* one, i16 two and i32 four, and memory has 256 bytes.                     *)
(***************************************************************************)
EXTENDS LifterMachine

Reg(name, part) == [kind |-> "reg", reg |-> [name |-> name, part |-> part], ty |-> "i64"]
Q(name) == Reg(name, "q")
D(name) == Reg(name, "d")
W(name) == Reg(name, "w")
L(name) == Reg(name, "l")
H(name) == Reg(name, "h")
I(value, ty) == [kind |-> "imm", value |-> value, ty |-> ty]
Mem(base, index, scale, disp, ty) ==
  [kind |-> "mem", base |-> base, index |-> index, scale |-> scale, disp |-> disp, ty |-> ty]
At(name, disp, ty) == Mem([name |-> name, part |-> "q"], NoReg, 1, disp, ty)
Indexed(ty) == Mem([name |-> "RBX", part |-> "q"], [name |-> "RSI", part |-> "q"], 4, 1, ty)
Narrow(ty) == Mem([name |-> "RBX", part |-> "d"], [name |-> "RSI", part |-> "d"], 2, 0, ty)
Rip(ty) == Mem(RIP, NoReg, 1, 3, ty)
Fixed(ty) == Mem(NoReg, NoReg, 1, 9, ty)

Make(mns, ops) == {[mn |-> mn, ops |-> ops] : mn \in mns}

Moves ==
  UNION {Make({"MOV"}, ops) : ops \in {
    <<Q("RAX"), Q("RBX")>>, <<D("RAX"), D("R8")>>, <<W("RCX"), W("RBX")>>, <<L("RAX"), L("RBX")>>,
    <<H("RAX"), L("RBX")>>, <<Q("RAX"), I(-1, "i32")>>, <<D("RAX"), I(5, "i32")>>,
    <<Q("RAX"), Indexed("i64")>>, <<D("RAX"), At("RBX", 2, "i32")>>, <<D("RBX"), At("RBX", 0, "i32")>>,
    <<Indexed("i64"), Q("RAX")>>, <<At("RBX", -1, "i16"), W("RAX")>>, <<Rip("i32"), D("RAX")>>,
    <<Fixed("i32"), I(6, "i32")>>, <<At("RBX", 0, "i64"), I(-2, "i32")>>,
    <<Narrow("i32"), D("RDX")>>,
    <<Mem(NoReg, [name |-> "RSI", part |-> "d"], 1, 2, "i32"), D("RDX")>>, <<Q("RAX"), Q("FS")>>}}
  \cup Make({"MOVZX", "MOVSX"}, <<D("RAX"), W("RBX")>>)
  \cup Make({"MOVZX", "MOVSX"}, <<Q("RDX"), Indexed("i16")>>)
  \cup Make({"MOVSX"}, <<Q("RAX"), D("RAX")>>)
  \cup Make({"LEA"}, <<Q("RAX"), Indexed("i64")>>)
  \cup Make({"LEA"}, <<D("RBX"), At("RBX", 1, "i64")>>)

Operations ==
  UNION {Make({"ADD", "SUB", "AND", "OR", "XOR", "CMP", "TEST"}, ops) : ops \in {
    <<Q("RAX"), Q("RBX")>>, <<D("RAX"), D("RBX")>>, <<W("RAX"), I(-1, "i8")>>,
    <<Indexed("i32"), I(3, "i32")>>, <<At("RBX", 0, "i64"), Q("RCX")>>, <<L("RAX"), Fixed("i8")>>}}
  \cup UNION {Make({"NOT", "NEG", "INC", "DEC"}, ops) : ops \in {
    <<Q("RAX")>>, <<W("RBX")>>, <<Indexed("i64")>>, <<At("RBX", 0, "i8")>>}}
  \cup UNION {Make({"SHL", "SHR", "SAR"}, ops) : ops \in {
    <<Q("RBX"), I(1, "i8")>>, <<D("RAX"), L("RCX")>>, <<Indexed("i64"), I(1, "i8")>>}}
  \cup UNION {Make({"IMUL", "DIV", "IDIV"}, ops) : ops \in {
    <<Q("RBX")>>, <<At("RBX", 0, "i64")>>, <<D("RBX")>>}}
  \cup UNION {Make({"IMUL"}, ops) : ops \in {
    <<D("RAX"), D("RBX")>>, <<Q("RAX"), Q("RCX")>>, <<W("RAX"), Indexed("i16"), I(-3, "i8")>>}}

Transfers ==
  Make({"NOP", "RET"}, <<>>)
  \cup {[mn |-> "JCC", ops |-> <<I(0, "i64")>>, to |-> <<"taken", "next">>],
        [mn |-> "JMP", ops |-> <<I(0, "i64")>>, to |-> <<"taken">>],
        [mn |-> "JMP", ops |-> <<Q("RAX")>>, to |-> <<"unknown">>],
        [mn |-> "CALL", ops |-> <<I(7, "i64")>>, symbol |-> "f"],
        [mn |-> "CALL", ops |-> <<I(7, "i64")>>, symbol |-> ""],
        [mn |-> "CALL", ops |-> <<At("RBX", 0, "i64")>>, symbol |-> ""]}

AllInstrs == Moves \cup Operations \cup Transfers
RegisterMoves == {i \in Moves : \A op \in OperandsOf(i) : op.kind = "reg"}

Machine(rax, rbx, rcx, rdx, rsi) ==
  [r |-> [g \in {Gprs[k] : k \in 1 .. 16} |->
            CASE g = "RAX" -> rax [] g = "RBX" -> rbx [] g = "RCX" -> rcx
              [] g = "RDX" -> rdx [] g = "RSI" -> rsi [] OTHER -> 200],
   m |-> [a \in 0 .. 255 |-> (a + (a \div 3)) % 2],
   rip |-> 20]

SomeMachines ==
  {Machine(5, 2, 1, 0, 0), Machine(200, 7, 255, 255, 3),
   Machine(127, 254, 0, 0, 128), Machine(0, 1, 86, 9, 65)}
=============================================================================
