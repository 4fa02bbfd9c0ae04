------------------------------ MODULE SafeMath ------------------------------
(***************************************************************************)
(* core/safemath: arithmetic that reports an overflow.  The functions are  *)
(* written with the operations of the machine, which wrap around, and are  *)
(* compared with the arithmetic of the integers for every pair of operands *)
(* of a small width.  The 64-bit functions are taken at that width too,    *)
(* with a double-width product in two halves.  A behaviour is one call.     *)
(***************************************************************************)
EXTENDS Integers

CONSTANTS
    Width, Signed,
    Corner,         \* may the operands of SafeMul be -1 and the least integer?
    LongShift,      \* may SafeLeftShift shift by more than one, or a signed integer?
    Overflow, DivisionByZero    \* the errors
SafeMathAssumption == Width \in Nat \ {0, 1} /\ Signed \in BOOLEAN

Size == 2 ^ Width
MinInt == IF Signed THEN - (Size \div 2) ELSE 0
MaxInt == MinInt + Size - 1
Ints == MinInt .. MaxInt
Words == 0 .. Size - 1

\* What a register of the width keeps of z; as an unsigned word; as a signed integer.
Wrap(z) == ((z - MinInt) % Size) + MinInt
Word(z) == z % Size
SignedInt(w) == IF w >= Size \div 2 THEN w - Size ELSE w

\* Division of the machine truncates towards zero; TLA+'s rounds down.
Abs(z) == IF z < 0 THEN - z ELSE z
Quotient(z, d) ==
    LET q == Abs(z) \div Abs(d) IN Wrap(IF (z < 0) = (d < 0) THEN q ELSE - q)

VARIABLES op, args, result
vars == <<op, args, result>>

Init == op = "none" /\ args = <<0, 0, 0>> /\ result = 0

Computes(name, operands, value) ==
    op = "none" /\ op' = name /\ args' = operands /\ result' = value

SafeAdd(x, y) ==
    LET sum == Wrap(x + y) IN
    IF (IF y > 0 THEN sum < x ELSE sum > x) THEN Overflow ELSE sum

SafeSub(x, y) ==
    LET diff == Wrap(x - y) IN
    IF (IF y > 0 THEN diff > x ELSE diff < x) THEN Overflow ELSE diff

SafeMul(x, y) ==
    LET product == Wrap(x * y) IN
    IF x = 0 \/ y = 0 THEN 0 ELSE IF Quotient(product, x) # y THEN Overflow ELSE product

\* The two halves of the product of two words: bits.Mul64
Hi(x, y) == (x * y) \div Size
Lo(x, y) == (x * y) % Size

SafeMulUint64(x, y) ==
    IF x = 0 \/ y = 0 THEN 0 ELSE IF Hi(x, y) # 0 THEN Overflow ELSE Lo(x, y)

\* The product of the magnitudes as words; the sign bit must come out as expected.
\* Mutant: the upper half is not looked at.
SafeMulInt64Mutant(x, y) ==
    LET positive == (x < 0) = (y < 0)
        product == Wrap(SignedInt(Lo(Word(Abs(x)), Word(Abs(y)))) * (IF positive THEN 1 ELSE -1))
    IN  IF x = 0 \/ y = 0 THEN 0 ELSE IF (product < 0) = positive THEN Overflow ELSE product
SafeMulInt64(x, y) ==
    LET positive == (x < 0) = (y < 0)
        ux == Word(Wrap(Abs(x)))
        uy == Word(Wrap(Abs(y)))
        product == Wrap(SignedInt(Lo(ux, uy)) * (IF positive THEN 1 ELSE -1))
    IN  IF x = 0 \/ y = 0 THEN 0
        ELSE IF Hi(ux, uy) # 0 THEN Overflow
        ELSE IF (product < 0) = positive THEN Overflow ELSE product

SafeDiv(x, y) == IF y = 0 THEN DivisionByZero ELSE Quotient(x, y)

SafeLeftShift(x, shift) ==
    LET shifted == Wrap(x * 2 ^ shift) IN IF shifted < x THEN Overflow ELSE shifted

Safe64MulDiv(x, y, div) ==
    IF div = 0 THEN DivisionByZero
    ELSE IF div <= Hi(x, y) THEN Overflow ELSE ((x * y) \div div) % Size

Next ==
    \E x, y \in Ints :
        \/ Computes("add", <<x, y, 0>>, SafeAdd(x, y))
        \/ Computes("sub", <<x, y, 0>>, SafeSub(x, y))
        \/ (Corner \/ x # -1 \/ y # MinInt) /\ Computes("mul", <<x, y, 0>>, SafeMul(x, y))
        \/ Computes("div", <<x, y, 0>>, SafeDiv(x, y))
        \/ Signed /\ Computes("mul", <<x, y, 0>>, SafeMulInt64(x, y))
        \/ ~ Signed /\ Computes("mul", <<x, y, 0>>, SafeMulUint64(x, y))
        \/ ~ Signed /\ \E d \in Ints : Computes("muldiv", <<x, y, d>>, Safe64MulDiv(x, y, d))
        \/ /\ y >= 0 /\ (LongShift \/ (~ Signed /\ y <= 1))
           /\ Computes("shift", <<x, y, 0>>, SafeLeftShift(x, y))

Spec == Init /\ [][Next]_vars

-----------------------------------------------------------------------------
Exact(z) == IF z \in Ints THEN z ELSE Overflow

\* "Returns x + y or an error if that computation would under- or overflow", and so
\* for differences, products, quotients of a product that itself does not fit, and
\* shifts: neither a wrong result nor an error too many.
ResultExact ==
    /\ op = "add" => result = Exact(args[1] + args[2])
    /\ op = "sub" => result = Exact(args[1] - args[2])
    /\ op = "mul" => result = Exact(args[1] * args[2])
    /\ op = "muldiv" =>
        result = (IF args[3] = 0 THEN DivisionByZero ELSE Exact((args[1] * args[2]) \div args[3]))
    /\ op = "shift" => result = Exact(args[1] * 2 ^ args[2])
=============================================================================
