------------------------------ MODULE Settings ------------------------------
(***************************************************************************)
(* util.cpp and init.cpp: the settings of the command line and of the file *)
(* Montecoin.conf, with their negative forms, and the ones that AppInit2   *)
(* derives from others.  mapArgs is a std::map, whose order decides which  *)
(* of two forms of a name is interpreted first.                            *)
(***************************************************************************)
EXTENDS Integers, Sequences, SequencesExt, FiniteSets

CONSTANTS
    BeforeNo,      \* names that sort before "no"
    AfterNo,       \* names that sort behind it
    CommandLines,  \* sequences of <<key, value>>
    ConfigFiles    \* sequences of <<key, value>>, whose keys have one dash

VARIABLES
    argv, streamConfig,     \* what the user gave
    mapArgs, mapMultiArgs,  \* [keys -> value], [keys -> values in order]
    step                    \* how far AppInit has come

settingVars == <<argv, streamConfig, mapArgs, mapMultiArgs, step>>

\* -name, -noname, --name and --noname.
OptionKey(dashes, no, name) == [dashes |-> dashes, no |-> no, name |-> name]
PlainKey(name) == OptionKey(1, FALSE, name)

\* The forms of a name in the order of the map, "-" sorting before every letter.
FormsInOrder(name) ==
    LET forms(dashes) == IF name \in BeforeNo THEN <<OptionKey(dashes, FALSE, name), OptionKey(dashes, TRUE, name)>>
                         ELSE <<OptionKey(dashes, TRUE, name), OptionKey(dashes, FALSE, name)>>
    IN  forms(2) \o forms(1)

-----------------------------------------------------------------------------
GetBoolArg(args, k, default) == IF k \in DOMAIN args THEN args[k] # "0" ELSE default
AsText(bool) == IF bool THEN "1" ELSE "0"

\* SoftSetArg: only where nothing is set.
SoftSet(args, k, value) ==
    [x \in DOMAIN args \cup {k} |-> IF x \in DOMAIN args THEN args[x] ELSE value]

InterpretNegativeSetting_Overwrites(k, args) ==
    IF k.no
    THEN [x \in DOMAIN args \cup {PlainKey(k.name)} |->
            IF x = PlainKey(k.name) THEN AsText(~GetBoolArg(args, k, FALSE)) ELSE args[x]]
    ELSE args

InterpretNegativeSetting(k, args) ==
    IF k.no THEN SoftSet(args, PlainKey(k.name), AsText(~GetBoolArg(args, k, FALSE))) ELSE args

\* One turn of the loop over the map; what is inserted behind the iterator is visited too.
Interpret(args, k) ==
    IF k \notin DOMAIN args THEN args
    ELSE LET single == [k EXCEPT !.dashes = 1] IN
         InterpretNegativeSetting(single, IF k.dashes = 2 THEN SoftSet(args, single, args[k]) ELSE args)

ValuesOf(lines, k) == LET of == SelectSeq(lines, LAMBDA l : l[1] = k) IN [i \in DOMAIN of |-> of[i][2]]

ParseParameters ==
    /\ step = "start" /\ step' = "parsed"
    /\ LET given == {argv[i][1] : i \in DOMAIN argv} IN
        /\ mapArgs' = FoldLeft(Interpret, [k \in given |-> Last(ValuesOf(argv, k))],
                               FlattenSeq([i \in 1 .. Cardinality(BeforeNo \cup AfterNo) |-> FormsInOrder(SetToSeq(BeforeNo \cup AfterNo)[i])]))
        /\ mapMultiArgs' = [k \in given |-> ValuesOf(argv, k)]
    /\ UNCHANGED <<argv, streamConfig>>

\* What is set stays; the first line of the file that sets something counts.
SetFromFile_Always(args, line) ==
    InterpretNegativeSetting(line[1], [x \in DOMAIN args \cup {line[1]} |-> IF x = line[1] THEN line[2] ELSE args[x]])
SetFromFile(args, line) ==
    IF line[1] \in DOMAIN args THEN args
    ELSE InterpretNegativeSetting(line[1], SoftSet(args, line[1], line[2]))

ReadConfigFile ==
    /\ step = "parsed" /\ step' = "read"
    /\ mapArgs' = FoldLeft(SetFromFile, mapArgs, streamConfig)
    /\ LET keys == DOMAIN mapMultiArgs \cup {streamConfig[i][1] : i \in DOMAIN streamConfig} IN
        mapMultiArgs' = [k \in keys |-> (IF k \in DOMAIN mapMultiArgs THEN mapMultiArgs[k] ELSE <<>>)
                                        \o ValuesOf(streamConfig, k)]
    /\ UNCHANGED <<argv, streamConfig>>

\* Step 2 of AppInit2, in its order.
AppInit2 ==
    LET sets(args, names, value) == FoldLeft(LAMBDA a, n : SoftSet(a, PlainKey(n), value), args, names)
        given(args, n) == PlainKey(n) \in DOMAIN args
        connects == given(mapArgs, "connect") /\ PlainKey("connect") \in DOMAIN mapMultiArgs
        a1 == IF given(mapArgs, "bind") THEN sets(mapArgs, <<"listen">>, "1") ELSE mapArgs
        a2 == IF connects THEN sets(a1, <<"dnsseed", "listen">>, "0") ELSE a1
        a3 == IF given(a2, "proxy") THEN sets(a2, <<"listen">>, "0") ELSE a2
        a4 == IF ~GetBoolArg(a3, PlainKey("listen"), TRUE) THEN sets(a3, <<"upnp", "discover">>, "0") ELSE a3
    IN  /\ step = "read" /\ step' = "ready"
        /\ mapArgs' = IF given(a4, "externalip") THEN sets(a4, <<"discover">>, "0") ELSE a4
        /\ UNCHANGED <<argv, streamConfig, mapMultiArgs>>

SettingsInit ==
    /\ argv \in CommandLines /\ streamConfig \in ConfigFiles
    /\ mapArgs = [k \in {} |-> ""] /\ mapMultiArgs = [k \in {} |-> <<>>]
    /\ step = "start"

SettingsNext == ParseParameters \/ ReadConfigFile \/ AppInit2

-----------------------------------------------------------------------------
Mentions(lines, name) == {lines[i][1] : i \in {i \in DOMAIN lines : lines[i][1].name = name}}
Says(k, value) == IF k.no THEN value = "0" ELSE value # "0"

\* What the command line says of a name stands against the file and against what follows from
\* other settings; -name stands against -noname (test/getarg_tests.cpp:67-75), and a file's first
\* word on a name against its later ones.
UsersWordStands ==
    step \in {"read", "ready"} =>
    \A name \in BeforeNo \cup AfterNo :
        LET told == Mentions(argv, name)
            inFile == SelectSeq(streamConfig, LAMBDA l : l[1].name = name)
            value == mapArgs[PlainKey(name)] # "0"
        IN  /\ PlainKey(name) \in told => value = Says(PlainKey(name), Last(ValuesOf(argv, PlainKey(name))))
            /\ \A k \in told : told = {k} => value = Says(k, Last(ValuesOf(argv, k)))
            /\ told = {} /\ inFile # <<>> => value = Says(inFile[1][1], inFile[1][2])

\* The lists have every value, those of the command line first.
ListsAreWhole ==
    step = "ready" =>
    \A k \in DOMAIN mapMultiArgs :
        /\ mapMultiArgs[k] = ValuesOf(argv, k) \o ValuesOf(streamConfig, k)
        /\ k.dashes = 1 => k \in DOMAIN mapArgs

\* Unless the user asks for it, a node that is to use a proxy or to connect to given peers does
\* not listen, and one that does not listen does not make itself known (init.cpp:363-382).
HidesByDefault ==
    step = "ready" =>
    LET silent(n) == Mentions(argv, n) = {} /\ Mentions(streamConfig, n) = {} IN
    /\ silent("listen") /\ silent("bind")
       /\ (GetBoolArg(mapArgs, PlainKey("proxy"), FALSE) \/ PlainKey("connect") \in DOMAIN mapMultiArgs) =>
            mapArgs[PlainKey("listen")] = "0"
    /\ ~GetBoolArg(mapArgs, PlainKey("listen"), TRUE) =>
            mapArgs[PlainKey("upnp")] = "0" /\ mapArgs[PlainKey("discover")] = "0"

SettingsAreRight == UsersWordStands /\ ListsAreWhole /\ HidesByDefault

\* test/getarg_tests.cpp:163: "foo always wins", in whichever form.
FooAlwaysWins ==
    step = "parsed" =>
    \A name \in BeforeNo \cup AfterNo :
        OptionKey(2, FALSE, name) \in Mentions(argv, name) /\ PlainKey(name) \notin Mentions(argv, name) =>
            mapArgs[PlainKey(name)] = Last(ValuesOf(argv, OptionKey(2, FALSE, name)))

\* test/getarg_tests.cpp:77: "treat -- same as -", for the settings that are lists.
DashesAreTheSame ==
    step = "parsed" =>
    \A name \in BeforeNo \cup AfterNo :
        OptionKey(2, FALSE, name) \in Mentions(argv, name) => PlainKey(name) \in DOMAIN mapMultiArgs

=============================================================================
