------------------------------ MODULE LogLine ------------------------------
(***************************************************************************)
(* FileLogger.formatLine: where the values of optionalParams go, by their  *)
(* positions.  What each of them is turned into is left out.               *)
(***************************************************************************)
EXTENDS Integers, Sequences

CONSTANTS
    Strings,  \* values whose type is string
    Empty     \* ''

\* extractContext: the last value, when it is a string.
ContextAt(params) == {i \in DOMAIN params : i = Len(params) /\ params[i] \in Strings}

\* extractTrace: the first of two strings.
TraceAt(params) ==
    {i \in DOMAIN params : i = 1 /\ Len(params) >= 2 /\ {params[1], params[2]} \subseteq Strings}

\* extractMetadata: the rest.  A context that is the empty string counts as none here.
MetadataAt(params) ==
    LET until == IF \E i \in ContextAt(params) : params[i] # Empty THEN Len(params) - 1 ELSE Len(params)
    IN IF TraceAt(params) # {} /\ until > 0 THEN 2 .. until ELSE 1 .. until
=============================================================================
