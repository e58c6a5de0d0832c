------------------------------ MODULE Evaluator ------------------------------
(***************************************************************************)
(* The calculator: Calculate and its parser in tools/tools.go.             *)
(*                                                                         *)
(* An expression is a sequence of tokens: numbers, + - * / % ^ ( ).  The    *)
(* parser computes as it goes; here it gives the operations in a tree,      *)
(* <<number>> or <<operator, operand(s)>>, so that one can see what was         *)
(* computed from what.  Values and their overflow are left out.             *)
(* What follows a complete expression is not looked at.                     *)
(***************************************************************************)
EXTENDS Integers, SequencesExt

CONSTANT Invalid

Numbers == {"1", "2", "3"}

\* A result of the parser: the tree, and the tokens that are left.
Parsed(tree, rest) == [tree |-> tree, rest |-> rest]

Starts(tokens, ops) == tokens # <<>> /\ Head(tokens) \in ops

RECURSIVE parseAddSub(_), moreAddSub(_), parseMulDiv(_), moreMulDiv(_)

parsePrimary(tokens) ==
    LET inner == parseAddSub(Tail(tokens))
    IN  CASE Starts(tokens, Numbers) -> Parsed(<<Head(tokens)>>, Tail(tokens))
          [] Starts(tokens, {"("}) ->
                IF inner # Invalid /\ Starts(inner.rest, {")"})
                THEN Parsed(inner.tree, Tail(inner.rest)) ELSE Invalid
          [] OTHER -> Invalid

parseUnary(tokens) ==
    LET operand == parsePrimary(Tail(tokens))
    IN  CASE Starts(tokens, {"-"}) ->
                IF operand = Invalid THEN Invalid
                ELSE Parsed(<<"neg", operand.tree>>, operand.rest)
          [] Starts(tokens, {"+"}) -> operand
          [] OTHER -> parsePrimary(tokens)

\* One exponent: a second one is left over.
parsePower(tokens) ==
    LET base == parseUnary(tokens)
        exponent == parseUnary(Tail(base.rest))
    IN  CASE base = Invalid -> Invalid
          [] base # Invalid /\ ~Starts(base.rest, {"^"}) -> base
          [] OTHER -> IF exponent = Invalid THEN Invalid
                      ELSE Parsed(<<"^", base.tree, exponent.tree>>, exponent.rest)

moreMulDiv(left) ==
    LET right == parsePower(Tail(left.rest))
    IN  CASE left = Invalid -> Invalid
          [] left # Invalid /\ ~Starts(left.rest, {"*", "/", "%"}) -> left
          [] OTHER -> IF right = Invalid THEN Invalid
                      ELSE moreMulDiv(Parsed(<<Head(left.rest), left.tree, right.tree>>, right.rest))
parseMulDiv(tokens) == moreMulDiv(parsePower(tokens))

\* (Mutant: a - b - c is a - (b - c).)
RightFirst(left) ==
    LET right == parseAddSub(Tail(left.rest))
    IN  CASE left = Invalid -> Invalid
          [] left # Invalid /\ ~Starts(left.rest, {"+", "-"}) -> left
          [] OTHER -> IF right = Invalid THEN Invalid
                      ELSE Parsed(<<Head(left.rest), left.tree, right.tree>>, right.rest)
moreAddSub(left) ==
    LET right == parseMulDiv(Tail(left.rest))
    IN  CASE left = Invalid -> Invalid
          [] left # Invalid /\ ~Starts(left.rest, {"+", "-"}) -> left
          [] OTHER -> IF right = Invalid THEN Invalid
                      ELSE moreAddSub(Parsed(<<Head(left.rest), left.tree, right.tree>>, right.rest))
parseAddSub(tokens) == moreAddSub(parseMulDiv(tokens))

evalExpression(tokens) == IF tokens = <<>> THEN Invalid ELSE parseAddSub(tokens)

-----------------------------------------------------------------------------
(* How an expression is written.                                            *)

Trees(leaves) ==
    leaves \cup {<<op, a, b>> : op \in {"+", "-", "*", "%", "^"}, a \in leaves, b \in leaves}
           \cup {<<"neg", a>> : a \in leaves}

Rank(tree) ==
    IF tree[1] \in Numbers THEN 5
    ELSE CASE tree[1] \in {"+", "-"} -> 1
           [] tree[1] \in {"*", "/", "%"} -> 2
           [] tree[1] = "^" -> 3
           [] tree[1] = "neg" -> 4

\* As one writes it: parentheses where an operand binds less than its place asks
\* for.  A minus binds more than a power, as in this parser (not as one reads it
\* elsewhere: -2^2 is 4).
RECURSIVE Written(_)
Operand(tree, rank) ==
    IF Rank(tree) < rank THEN <<"(">> \o Written(tree) \o <<")">> ELSE Written(tree)
Written(tree) ==
    CASE Rank(tree) = 5 -> tree
      [] Rank(tree) = 4 -> <<"-">> \o Operand(tree[2], 5)
      [] Rank(tree) = 3 -> Operand(tree[2], 4) \o <<"^">> \o Operand(tree[3], 4)
      [] OTHER -> Operand(tree[2], Rank(tree)) \o <<tree[1]>> \o Operand(tree[3], Rank(tree) + 1)

\* What is written is what is computed, and all of it is read; and of any tokens
\* it is what comes before the rest that is computed.
ReadAsWritten(tree) == evalExpression(Written(tree)) = Parsed(tree, <<>>)

ReadsABeginning(tokens) ==
    LET parsed == evalExpression(tokens)
    IN  parsed # Invalid =>
          \E n \in 1 .. Len(tokens) :
             /\ parsed.rest = SubSeq(tokens, n + 1, Len(tokens))
             /\ evalExpression(SubSeq(tokens, 1, n)) = Parsed(parsed.tree, <<>>)
=============================================================================
