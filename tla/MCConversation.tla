---------------------------- MODULE MCConversation ----------------------------
(* Small instances of Conversation: the synonyms, the native tools and the  *)
(* tools of the execution service are some of the program's own.            *)
EXTENDS Conversation

MCSynonym == "kill" :> "matar" @@ "process" :> "proceso" @@ "port" :> "puerto" @@ "task" :> "tarea"

MCArgSynonyms ==
    << <<"nombre_proceso", "nombre", "name", "titulo">>,
       <<"puerto", "port">>,
       <<"identificador_o_nombre", "id", "task_id", "name">> >>

Program == [name |-> <<"programar", "tarea">>, words |-> {"create", "task", "user"},
            props |-> {"name", "trigger_type"}, critical |-> FALSE]
Cancels == [name |-> <<"cancelar", "tarea", "programada">>, words |-> {"delete", "task"},
            props |-> {"task_id"}, critical |-> FALSE]
Kill    == [name |-> <<"matar", "proceso">>, words |-> {"cierra", "proceso", "nombre"},
            props |-> {"nombre_proceso", "pid"}, critical |-> TRUE]
Scan    == [name |-> <<"escanear", "puerto">>, words |-> {"proceso", "puerto", "busca"},
            props |-> {"puerto"}, critical |-> FALSE]

MCNative == <<Program, Cancels>>
MCManifests == {<<Kill, Scan>>}
MCKnownCritical == {Kill.name}

Asks(calls) == [calls |-> calls, text |-> <<>>]
Call(name, key) == [name |-> name, args |-> <<[key |-> key, value |-> 1]>>]

\* Structured calls of a scheduler tool and of a critical one, or a text: the
\* last of the four ways to read it finds what resolves only after a discovery.
MCReplies ==
    { Asks(<<Call(Cancels.name, "name"), Call(Kill.name, "nombre")>>),
      [calls |-> <<>>,
       text  |-> << <<Call(<<"nothing">>, "x")>>, <<>>, <<>>,
                    <<Call(<<"scan", "port">>, "port")>> >>] }

MCCancel == {Asks(<<Call(Cancels.name, "task_id")>>)}

Symmetry == Permutations(Run \ Trivial)
=============================================================================
