------------------------------ MODULE ExecArgs ------------------------------
(***************************************************************************)
(* The arguments of sqlitex.exec: positional and named ones are bound, and *)
(* a bitset of the parameters they reach decides whether one is missing.   *)
(* A word of the bitset has WordBits bits (64).                            *)
(***************************************************************************)
EXTENDS Integers, Sequences, FiniteSets, FiniteSetsExt

CONSTANTS
    WordBits,    \* bits of a word of the bitset
    MaxParams,   \* parameters of a statement
    Unknown      \* a name that is no parameter

ASSUME ExecArgsAssumption == WordBits \in Nat \ {0} /\ MaxParams \in Nat

VARIABLES
    ask,      \* the statement's parameters and the ExecOptions
    answer    \* how exec went on

argvars == <<ask, answer>>

\* Parameter i has the name i, or none when i \notin named (positional "?").
Asks == [count : 0 .. MaxParams, named : SUBSET (1 .. MaxParams), args : 0 .. MaxParams + 1,
         given : SUBSET ((1 .. MaxParams) \cup {Unknown}), flags : SUBSET {"missing", "extra"}]
NoAsk == [count |-> 0, named |-> {}, args |-> 0, given |-> {}, flags |-> {}]
NoAnswer == [res |-> "none", bound |-> {}, at |-> 0]

ArgsInit == ask = NoAsk /\ answer = NoAnswer

Words(n) == (n + WordBits - 1) \div WordBits
newBitset(n) == [w \in 1 .. Words(n) |-> {}]
\* bs.set(n) for every n of ns: n % WordBits is a bit of the word n \div WordBits.
setBits(bs, ns) ==
    [w \in DOMAIN bs |-> bs[w] \cup {n % WordBits : n \in {n \in ns : n \div WordBits + 1 = w}}]
AllBits == 0 .. WordBits - 1

\* Mutant: the last word is only looked at when n fills it.
hasAllFull(bs, n) == \A w \in 1 .. n \div WordBits : bs[w] = AllBits

hasAll(bs, n) ==
    /\ Len(bs) >= Words(n)
    /\ \A w \in 1 .. n \div WordBits : bs[w] = AllBits
    /\ n \div WordBits # Words(n) => (0 .. (n % WordBits) - 1) \subseteq bs[Words(n)]

firstMissing(bs) ==
    LET open == {w \in DOMAIN bs : bs[w] # AllBits}
    IN  IF open = {} THEN Len(bs) * WordBits
        ELSE (Min(open) - 1) * WordBits + Min(AllBits \ bs[Min(open)])

\* The named parameters that setNamed reaches: with forbidMissing it stops at
\* the first one that has no argument.
Reached(a) ==
    LET lacks == {i \in a.named \cap (1 .. a.count) : i \notin a.given}
        stop == IF "missing" \in a.flags /\ lacks # {} THEN Min(lacks) ELSE a.count + 1
    IN  {i \in a.named \cap (1 .. a.count) : i \in a.given /\ i < stop}

setNamed(a) ==
    IF a.given = {} THEN "ok"
    ELSE IF "missing" \in a.flags /\ \E i \in a.named \cap (1 .. a.count) : i \notin a.given
         THEN "missing"
    ELSE IF "extra" \in a.flags /\ a.given \ Reached(a) # {} THEN "unknown"
    ELSE "ok"

provided(a) == setBits(newBitset(a.count), {i - 1 : i \in (1 .. a.args) \cup Reached(a)})

exec(a) ==
    IF a.args > a.count THEN [NoAnswer EXCEPT !.res = "range"]
    ELSE LET bound == (1 .. a.args) \cup Reached(a)
             named == setNamed(a)
         IN  IF named # "ok" THEN [res |-> named, bound |-> bound, at |-> 0]
             ELSE IF "missing" \in a.flags /\ ~hasAll(provided(a), a.count)
             THEN [res |-> "missing", bound |-> bound, at |-> firstMissing(provided(a)) + 1]
             ELSE [res |-> "step", bound |-> bound, at |-> 0]

Ask ==
    /\ answer = NoAnswer /\ ask = NoAsk
    /\ ask' \in {a \in Asks : a.named \subseteq 1 .. a.count /\ a.args <= a.count + 1}
    /\ answer' = NoAnswer

Exec ==
    /\ answer = NoAnswer
    /\ answer' = exec(ask)
    /\ UNCHANGED ask

ArgsNext == Ask \/ Exec

ArgsSpec == ArgsInit /\ [][ArgsNext]_argvars
-----------------------------------------------------------------------------
\* With forbidMissing (Execute, ExecuteScript) a statement is only stepped when
\* every parameter is bound, and with forbidExtra only when every name given is
\* a parameter; the parameter an error names is the first that is missing; and
\* a statement that got all it needs is not refused, unless a named parameter
\* is given by position alone beside other names ("TODO(maybe): Check provided
\* as well?", exec.go:353).
StepsOnlyBound ==
    answer.res # "none" =>
       LET all == 1 .. ask.count
           given == (1 .. ask.args) \cup (ask.named \cap ask.given)
           strict == "missing" \in ask.flags
           byPosition == ask.given # {} /\ \E i \in ask.named : i \notin ask.given
       IN  /\ answer.res = "step" =>
                /\ strict => answer.bound = all
                /\ "extra" \in ask.flags => ask.given \subseteq ask.named
           /\ (answer.res = "missing" /\ answer.at > 0) => answer.at = Min(all \ given)
           /\ (/\ ask.args <= ask.count
               /\ strict => given = all /\ ~byPosition
               /\ "extra" \in ask.flags => ask.given \subseteq ask.named)
              => answer.res = "step"
=============================================================================
