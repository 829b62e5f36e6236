----------------------------- MODULE Calculator -----------------------------
(***************************************************************************)
(* The Calculator of kernel/gui/apps.c.  Keys come from the keyboard or    *)
(* from a click on the button with the same label.  `long' is two's        *)
(* complement, MIN .. MAX; signed overflow wraps in this build and is      *)
(* noted in `over', and MIN / -1 traps before anything is assigned.        *)
(*                                                                         *)
(* `keys' is a history variable: the keys since the application was opened *)
(* or cleared.                                                             *)
(***************************************************************************)
EXTENDS Integers, Sequences

CONSTANTS
    BASE,        \* ten
    Digits,      \* digits a user types
    Operators,
    MAX,         \* LONG_MAX
    MaxKeys      \* bound on the history

ASSUME CalcAssumption ==
    /\ BASE \in Nat /\ MAX \in Nat /\ MaxKeys \in Nat
    /\ Digits \subseteq 0 .. BASE - 1
    /\ Operators \subseteq {"+", "-", "*", "/"}

MIN == -MAX - 1

VARIABLES
    calc,   \* cc_acc, cc_cur, cc_op, cc_fresh, cc_disp
    over,   \* history: an operation has overflowed
    trap,   \* the division faulted
    keys

calcVars == <<calc, over, trap, keys>>

Cleared == [acc |-> 0, cur |-> 0, op |-> "none", fresh |-> TRUE, disp |-> 0]

CalcInit == calc = Cleared /\ over = FALSE /\ trap = FALSE /\ keys = <<>>

Wrap(n) == ((n - MIN) % (2 * MAX + 2)) + MIN

\* C division rounds towards 0.
Quotient(a, b) ==
    LET abs(n) == IF n < 0 THEN -n ELSE n
        q == abs(a) \div abs(b)
    IN IF (a < 0) = (b < 0) THEN q ELSE -q

\* calc_apply in unbounded arithmetic.
Exact(a, op, b) ==
    CASE op = "+" -> a + b
      [] op = "-" -> a - b
      [] op = "*" -> a * b
      [] op = "/" -> IF b = 0 THEN 0 ELSE Quotient(a, b)
      [] OTHER -> b

\* The value an operator or `=' leaves in cc_acc.
Pending == IF calc.op = "none" THEN calc.cur ELSE Exact(calc.acc, calc.op, calc.cur)

app_calc_open ==
    ~trap /\ calc' = Cleared /\ keys' = <<>> /\ over' = FALSE /\ UNCHANGED trap

\* A key k, for a digit with its value d, that computes n.
typed(k, d, n) ==
    /\ ~trap /\ Len(keys) < MaxKeys
    /\ keys' = Append(keys, [k |-> k, d |-> d])
    /\ over' = (over \/ n # Wrap(n))

key_digit(d) ==
    LET n == (IF calc.fresh THEN 0 ELSE calc.cur) * BASE + d
    IN /\ typed("digit", d, n)
       /\ calc' = [calc EXCEPT !.cur = Wrap(n), !.fresh = FALSE, !.disp = Wrap(n)]
       /\ UNCHANGED trap

Traps == calc.op = "/" /\ calc.acc = MIN /\ calc.cur = -1

key_operator(op) ==
    /\ typed(op, 0, Pending)
    /\ trap' = Traps
    /\ calc' = IF Traps THEN calc
               ELSE [calc EXCEPT !.acc = Wrap(Pending), !.op = op, !.fresh = TRUE,
                                 !.disp = Wrap(Pending)]

\* Definitions named Mut_... are faults seeded to show that a property can
\* fail; nothing else uses them.
Mut_key_equals_KeepsCur ==
    /\ typed("=", 0, Pending)
    /\ trap' = Traps
    /\ calc' = IF Traps THEN calc
               ELSE [calc EXCEPT !.acc = Wrap(Pending), !.op = "none", !.fresh = TRUE,
                                 !.disp = Wrap(Pending)]

\* `=' or Enter.
key_equals ==
    /\ typed("=", 0, Pending)
    /\ trap' = Traps
    /\ calc' = IF Traps THEN calc
               ELSE [acc |-> Wrap(Pending), cur |-> Wrap(Pending), op |-> "none",
                     fresh |-> TRUE, disp |-> Wrap(Pending)]

\* `C' sets what opening sets.
key_clear == app_calc_open

\* After a trap isr_handler prints the registers and halts for good.
halted == trap /\ UNCHANGED calcVars

CalcNext ==
    \/ \E d \in Digits : key_digit(d)
    \/ \E op \in Operators : key_operator(op)
    \/ key_equals
    \/ key_clear
    \/ halted

----------------------------------------------------------------------------
(* Property.                                                               *)

IsDigit(i) == i \in DOMAIN keys /\ keys[i].k = "digit"

\* The number whose last digit is keys[i], and where it starts.
Number[i \in Nat] ==
    IF IsDigit(i) THEN Number[i - 1] * BASE + keys[i].d ELSE 0

Start[i \in Nat] == IF IsDigit(i - 1) THEN Start[i - 1] ELSE i

\* What an operator or `=' at position i shows: the operators are applied from
\* left to right, and a result is the left operand of an operator after `='.
Result[i \in Nat] ==
    IF i <= 1 THEN 0
    ELSE IF ~IsDigit(i - 1) THEN Result[i - 1]
    ELSE LET before == Start[i - 1] - 1
         IN IF before = 0 \/ keys[before].k = "=" THEN Number[i - 1]
            ELSE Exact(Result[before], keys[before].k, Number[i - 1])

\* Between two operators, or an operator and `=', there is a number.
WellFormed ==
    \A i \in 2 .. Len(keys) :
        ~IsDigit(i) => IsDigit(i - 1) \/ keys[i - 1].k = "="

\* For a well-formed calculation that does not overflow the display is the
\* number being typed or the value of the calculation so far, whatever came
\* before the last `=', and it does not trap (apps.c:88-107).
CalcIsReference ==
    WellFormed /\ ~over =>
        /\ ~trap
        /\ LET n == Len(keys)
           IN calc.disp = IF n = 0 THEN 0 ELSE IF IsDigit(n) THEN Number[n] ELSE Result[n]
=============================================================================
