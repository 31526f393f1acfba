---------------------------- MODULE MCServices ----------------------------
\* Words, lines and bounds for TLC.
EXTENDS Services

W(w) == Word(w, TRUE, 1)

\* Every word of the shell alone, with the arguments that make a difference.
Single ==
  {<<W(w)>> : w \in {"H", "D", "A", "O", "o", "r", "R", "U", "P", "L", "Q", "T", "pd", "prr", "pr", "pf", "pw",
                    "pm", "pp", "ps", "pRr", "pRf", "sd", "sl", "sr", "ss", "sw", "sm", "sM", "sc", "sC", "n",
                    "im"}}
    \cup {<<Word("ss", FALSE, 1)>>, <<Word("sl", TRUE, 5)>>}

\* And what may get in each other's way: hang-ups, lists, messages, storages.
Together ==
  {<<W(v), W("H")>> : v \in {"D", "sl", "sw", "prr"}} \cup {<<W("sM"), W("sr")>>, <<W("sl"), W("sd")>>}

AllSessions       == Single \cup Together

MCResults == {"OK", "CME11", "CMS", "BUSY"}

Unasked(prefix, fields, n) == [prefix |-> prefix, fields |-> fields, n |-> n, second |-> "none"]

\* Lines for which there is a parser.
ForeignLines ==
  {Unasked("RING", 0, 0), Unasked("+CREG", 1, 1), Unasked("%CSQ", 1, 0)}

=============================================================================
