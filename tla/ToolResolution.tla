---------------------------- MODULE ToolResolution ----------------------------
(* How what the language model wrote becomes calls of registered tools      *)
(* (agent/nodes/command.py).                                                *)
(*   name     the words between the underscores, lower case: the code       *)
(*            compares names only in this form                              *)
(*   tool     [name, words of its description, props of its schema,         *)
(*            critical]; a registry is a sequence of tools                  *)
(*   raw call [name, args], the arguments in the order they were written,   *)
(*            each [key, value]                                             *)
(*   reply    [calls |-> structured calls, text |-> for each of the four    *)
(*            ways to read a text, the calls it finds there]                *)
EXTENDS Integers, SequencesExt, TLC

CONSTANTS
    Synonym,        \* KEYWORD_SYNONYMS, a function from words to words
    ArgSynonyms     \* ARG_SYNONYMS.values(), a sequence of sequences of keys

Expanded(name) ==
    ToSet(name) \cup {Synonym[w] : w \in ToSet(name) \cap DOMAIN Synonym}

\* A word of the name counts three times.
Score(name, tool) ==
    3 * Cardinality(Expanded(name) \cap ToSet(tool.name))
      + Cardinality(Expanded(name) \cap tool.words)

\* The number of the tool meant by name, 0 for none: the one of that name,
\* or the first of those that share most words with it.
resolve_tool_definition(name, tools) ==
    LET named == {i \in DOMAIN tools : tools[i].name = name}
        score == [i \in DOMAIN tools |-> Score(name, tools[i])]
        best  == {i \in DOMAIN tools : score[i] >= 2 /\ \A j \in DOMAIN tools : score[j] <= score[i]}
    IN  IF name = <<>> THEN 0
        ELSE IF named # {} THEN Min(named)
        ELSE IF best # {} THEN Min(best) ELSE 0

-----------------------------------------------------------------------------
(* normalize_tool_args                                                      *)

\* The property of the schema that a key stands for: itself, or the first
\* synonym the schema has, in the first group of synonyms with one.
PropFor(key, props) ==
    LET groups == {i \in DOMAIN ArgSynonyms :
                      /\ key \in ToSet(ArgSynonyms[i])
                      /\ props = {} \/ ToSet(ArgSynonyms[i]) \cap props # {}}
    IN  IF key \in props \/ groups = {} THEN key
        ELSE LET g == ArgSynonyms[Min(groups)]
             IN  g[Min({j \in DOMAIN g : props = {} \/ g[j] \in props})]

\* Two keys for one property: the later argument stays.
normalize_tool_args(props, args) ==
    FoldLeft(LAMBDA done, a : (PropFor(a.key, props) :> a.value) @@ done, <<>>, args)

-----------------------------------------------------------------------------
(* CommandNode.__call__ and extract_fallback_tool_calls                     *)

\* A structured call of no known tool keeps its name.
Structured(call, tools) ==
    LET i == resolve_tool_definition(call.name, tools)
    IN  [name |-> IF i = 0 THEN call.name ELSE tools[i].name,
         args |-> normalize_tool_args(IF i = 0 THEN {} ELSE tools[i].props, call.args)]

\* A call found in a text counts only if it resolves; they stay in order.
Recovered(calls, tools) ==
    LET known    == {k \in DOMAIN calls : resolve_tool_definition(calls[k].name, tools) # 0}
        Known(j) == CHOOSE k \in known : Cardinality({i \in known : i <= k}) = j
    IN  [j \in 1..Cardinality(known) |-> Structured(calls[Known(j)], tools)]

\* The first way to read the text that finds anything is the only one used.
extract_fallback_tool_calls(text, tools) ==
    LET found == {s \in DOMAIN text : Recovered(text[s], tools) # <<>>}
    IN  IF found = {} THEN <<>> ELSE Recovered(text[Min(found)], tools)

\* The calls of the message that the command node returns; without tools the
\* model is not offered any and its text is not searched.
CallsOf(reply, tools) ==
    IF tools = <<>> THEN <<>>
    ELSE IF reply.calls # <<>> THEN [k \in DOMAIN reply.calls |-> Structured(reply.calls[k], tools)]
    ELSE extract_fallback_tool_calls(reply.text, tools)
=============================================================================
