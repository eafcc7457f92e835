------------------------------ MODULE MCGptOracle ------------------------------
(***************************************************************************)
(* A small instance of GptOracle for TLC: two contexts, prompts and        *)
(* answers at the limits of the account, and tables in which the two       *)
(* writable accounts come first, one way or the other, and each of the     *)
(* others takes every place behind them, and the table in the order of the *)
(* instruction.  Those that begin with the payer are sorted.               *)
(***************************************************************************)
EXTENDS GptOracle, TLC

CONSTANTS c1, c2, i1, i2

MCInteractionOf == c1 :> i1 @@ c2 :> i2

\* The accounts that a request only reads, turned round by some places, and the
\* same from behind.
ReadOnly(context) ==
  LET keys == <<GptConfig, context, OracleProgram, SystemProgram, GptProgram>>
      Turned(s, by) == [i \in 1 .. 5 |-> s[((i + by) % 5) + 1]]
      Back(s) == [i \in 1 .. 5 |-> s[6 - i]]
  IN  UNION {{Turned(keys, by), Back(Turned(keys, by))} : by \in 0 .. 4}

MCOrders ==
  UNION {{writable \o rest :
            writable \in {<<Payer, InteractionOf[context]>>,
                          <<InteractionOf[context], Payer>>},
            rest \in ReadOnly(context)}
         \cup {<<GptConfig, Payer, InteractionOf[context], context,
                 OracleProgram, SystemProgram, GptProgram>>}
         : context \in Contexts}

\* A short one, as long as declared, one more, and more than the account holds.
MCPrompts == {100, MAX_PROMPT, MAX_PROMPT + 1, SPACE}

MCAnswers ==
  [len : {MAX_RESPONSE - 1, MAX_RESPONSE + 1, 2 * MAX_RESPONSE},
   boundary : BOOLEAN]
===============================================================================
