------------------------------- MODULE Solana -------------------------------
(***************************************************************************)
(* What every program of the repository takes from the Solana runtime and  *)
(* from Rust: the wallets that sign, the account that does not exist, the  *)
(* 64-bit counters, and the cast that turns an f64 into one of them.       *)
(*                                                                         *)
(* An instruction is one step.  A rejected one (a failed constraint, an    *)
(* `Err`, a panic) is rolled back by the runtime with everything it did,   *)
(* so in the atomic modules it is a stuttering step and its handler is     *)
(* written as an acceptance predicate plus the effect of the accepted call.*)
(***************************************************************************)
EXTENDS Integers

CONSTANTS
    Users,      \* wallets: the keys that sign as payer, user, admin, sender
    NoAccount,  \* an account that was never created (or was closed)
    U64_MAX,    \* the largest u64; 2^64 - 1 in the code
    F64_ERR     \* how far an f64 result may be off, in units of 1 / divisor

ASSUME SolanaAssumption == U64_MAX \in Nat \ {0} /\ F64_ERR \in Nat

U64 == 0 .. U64_MAX

\* Rounding errors of one f64 computation.
F64Errors == -F64_ERR .. F64_ERR

\* A cast, were it not to saturate at the top.
SaturateU64_NoTop(n) == IF n < 0 THEN 0 ELSE n

SaturateU64(n) == IF n < 0 THEN 0 ELSE IF n > U64_MAX THEN U64_MAX ELSE n

(***************************************************************************)
(* `x as u64` for an f64 x that approximates num / den, den > 0: towards   *)
(* zero, and saturating at both ends of the range.  An f64 is rarely the   *)
(* exact quotient; err is its rounding error in units of 1 / den, so that  *)
(* a quotient that is exactly an integer may come out one below it.        *)
(***************************************************************************)
AsU64(num, den, err) == SaturateU64((num + err) \div den)

=============================================================================
