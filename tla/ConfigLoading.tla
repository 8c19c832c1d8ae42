------------------------------ MODULE ConfigLoading -----------------------------
(***************************************************************************)
(* From the user's config file to the options the extensions are enabled    *)
(* with: config/init.lua (loadUserConfig, validateUserConfig and            *)
(* normalizeContentsValues) and the part of main.lua that reads the config,  *)
(* searches an extension for the entry of the load order (ExtensionMatcher), *)
(* joins the sections, and writes what is final.                            *)
(*                                                                         *)
(* The load order has at most one entry, which asks for req where it is Text; *)
(* a section is found again by the name of its extension alone.             *)
(***************************************************************************)
EXTENDS Yaml, ExtensionMatcher

CONSTANTS
  NoFile,          \* the document where there is no file
  Text             \* how the load order writes the requirement req

VARIABLES
  document,        \* the root node of the user's config file
  phase,           \* where the start is
  userConfig,      \* what the script made of the document
  complaints,      \* the keys validateUserConfig has logged an ERROR about
  final,           \* configFinal: name -> options, a table
  written          \* what was dumped into the file for the final config

configVars == <<document, phase, userConfig, complaints, final, written>>

ConfigInit(documents) ==
  /\ MatchInit
  /\ document \in documents
  /\ phase = "read"
  /\ userConfig = Nil /\ complaints = {} /\ final = Nil /\ written = Null

-----------------------------------------------------------------------------
Emptied == Table(<<>>)

Default ==
  LET sections == Table([k \in {Str("modules"), Str("plugins"), Str("load-order")} |-> Emptied])
  IN  Table([k \in {Str("active"), Str("config-full"), Str("config-sparse")} |->
               IF k = Str("active") THEN Bool(TRUE) ELSE sections])

\* loadUserConfig: without a file everything is empty.
LoadUserConfig ==
  /\ phase = "read"
  /\ userConfig' = IF document = NoFile THEN Default ELSE Parse(document)
  /\ phase' = IF userConfig' = Error THEN "raised" ELSE "validate"
  /\ UNCHANGED <<matchVars, document, complaints, final, written>>

Full == Get(userConfig, "config-full")

\* The version of the file under meta is read only where there is no other.
MetaReadable ==
  \/ Get(userConfig, "specification-version") = Str("1.0.0")
  \/ Get(userConfig, "meta") = Nil \/ Indexable(Get(userConfig, "meta"))

KnownVersion ==
  \/ Get(userConfig, "specification-version") \in {Nil, Str("1.0.0")}
  \/ Get(Get(userConfig, "meta"), "version") = Str("1.0.0")

Missed(v, keys) == {k \in keys : Indexable(v) /\ Get(v, k) = Nil}

Parts == {"config-sparse", "config-full"}

\* Mutant: the plugins are not checked for.
CheckedModules == {"load-order", "modules"}

Checked == {"load-order", "modules", "plugins"}

Readable == Indexable(userConfig) /\ MetaReadable

AllParts == \A p \in Parts : Indexable(Get(userConfig, p))

\* validateUserConfig complains, and only stops over something it cannot index; by
\* then it has looked into config-full at most for the load order.
Validate ==
  /\ phase = "validate"
  /\ complaints' =
       Missed(userConfig, {"active"}) \cup
       (IF ~Readable THEN {}
        ELSE IF ~KnownVersion THEN {"specification-version"}
        ELSE Missed(userConfig, Parts) \cup
             (IF AllParts THEN UNION {Missed(Get(userConfig, p), Checked) : p \in Parts}
              ELSE Missed(Full, Checked \cap {"load-order"})))
  /\ phase' = IF Readable /\ (KnownVersion => AllParts) THEN "valid" ELSE "raised"
  /\ UNCHANGED <<matchVars, document, userConfig, final, written>>

\* Only the boolean false switches UCP off.
Inactive ==
  /\ phase = "valid" /\ Get(userConfig, "active") = Bool(FALSE)
  /\ phase' = "inactive"
  /\ UNCHANGED <<matchVars, document, userConfig, complaints, final, written>>

Order1 == Get(Full, "load-order")

\* The entries are requirements as text; a table would have to name a version.
IsRequirement(v) == v = Str(Text)

\* FATAL was logged: the script goes on if that was survived.
AfterFatal == {"join", "died"}

\* No load order is FATAL, an empty one is not.
StartMatching ==
  /\ phase = "valid" /\ Get(userConfig, "active") # Bool(FALSE)
  /\ phase' \in
       IF ~Indexable(Full) THEN {"raised"}
       ELSE IF Order1 = Nil THEN AfterFatal
       ELSE IF ~IsTable(Order1) THEN {"raised"}
       ELSE IF DOMAIN Order1.table = {} THEN {"join"}
       ELSE IF \A k \in DOMAIN Order1.table : IsRequirement(Order1.table[k]) THEN {"match"}
       ELSE {"raised"}
  /\ UNCHANGED <<matchVars, document, userConfig, complaints, final, written>>

\* The search for the entry, in ExtensionMatcher.
Search ==
  /\ phase = "match"
  /\ MatchNext
  /\ phase' \in CASE status' = "raised" -> {"raised"}
                  [] status' = "found"  -> {"join"}
                  [] status' = "none"   -> AfterFatal
                  [] OTHER -> {"match"}
  /\ UNCHANGED <<document, userConfig, complaints, final, written>>

Loaders == IF status = "found" THEN {Str(installed[m].name)} ELSE {}

Section(part) == Get(Full, part)

CanJoin ==
  \A part \in {"modules", "plugins"} :
    /\ IsTable(Section(part))
    /\ DOMAIN Section(part).table \subseteq Loaders
    /\ \A s \in DOMAIN Section(part).table : Indexable(Section(part).table[s])

\* The plugins come last and overwrite, with nothing as well.
Joined ==
  LET plugins == Section("plugins").table
      modules == Section("modules").table
      config(s) == Get(IF s \in DOMAIN plugins THEN plugins[s] ELSE modules[s], "config")
      names == {s \in DOMAIN plugins \cup DOMAIN modules : config(s) # Nil}
  IN  Table([s \in names |-> config(s)])

\* Mutant: the suggestion comes before the requirement.
SuggestedFirst == <<"value", "suggested-value", "required-value">>

Precedence == <<"value", "required-value", "suggested-value">>

\* The first of the three that is there.
Chosen(contents) ==
  LET given == {c \in 1..3 : Get(contents, Precedence[c]) # Nil} IN
  IF given = {} THEN Nil
  ELSE Get(contents, Precedence[CHOOSE c \in given : \A d \in given : c <= d])

\* normalizeContentsValues; a value that was chosen is not looked into.
RECURSIVE Normalized(_)
NormalizedValue(v) ==
  LET contents == Get(v, "contents") IN
  IF ~IsTable(v) THEN v
  ELSE IF contents = Nil THEN Normalized(v)
  ELSE IF IsTable(contents) THEN Chosen(contents) ELSE v

\* Contents without any of the three set the option to nil.
Unset(v) == IsTable(Get(v, "contents")) /\ Chosen(Get(v, "contents")) = Nil

Normalized(t) ==
  Table([k \in {j \in DOMAIN t.table : ~Unset(t.table[j])} |-> NormalizedValue(t.table[k])])

\* overwriteVersion looks for the key 'active' in the options of each extension.
Digestible(t) == \A k \in DOMAIN t.table : Indexable(t.table[k])

\* The sections are joined and normalized; the final config is dumped for the log
\* and into a file, which has to be one that can be written.
JoinConfig ==
  /\ phase = "join"
  /\ \/ ~CanJoin /\ phase' = "raised" /\ UNCHANGED <<final, written>>
     \/ /\ CanJoin
        /\ final' = Normalized(Joined)
        /\ \/ Dump(final') = Error /\ phase' = "raised" /\ UNCHANGED written
           \/ Dump(final') # Error /\ phase' = "unwritable" /\ UNCHANGED written
           \/ /\ Dump(final') # Error
              /\ written' = Dump(final')
              /\ phase' = IF Digestible(final') THEN "loading" ELSE "raised"
  /\ UNCHANGED <<matchVars, document, userConfig, complaints>>

ConfigNext ==
  LoadUserConfig \/ Validate \/ Inactive \/ StartMatching \/ Search \/ JoinConfig

-----------------------------------------------------------------------------
\* The file for the final config says what the extensions are enabled with: read
\* again it gives the same values, of the same types, if and only if there is no
\* empty table in it and no double that is written like an int.
ReadsBackTheSame ==
  phase = "loading" => (Parse(written) = final <=> Faithful(final))

\* Every option has the value its contents give, the user's own before the
\* required and that before the suggested one (content/README.md, 3 and 4), null
\* counting as not given; the others are as they are in the document.  What has no
\* value at all is left out, of a list too: where the script gets this far, it was
\* at the end of the list.
Given(n, key) == Has(n.map, key) /\ ~Has(n.map[key], "null")

RECURSIVE Resolved(_)
Resolved(n) ==
  IF Has(n, "seq") THEN Sequence([j \in DOMAIN n.seq |-> Resolved(n.seq[j])])
  ELSE IF ~Has(n, "map") THEN n
  ELSE IF ~Given(n, "contents") THEN Map([k \in DOMAIN n.map |-> Resolved(n.map[k])])
  ELSE LET contents == n.map["contents"] IN
       CASE Has(contents, "scalar")                                     -> n
         [] Has(contents, "map") /\ Given(contents, "value")            -> contents.map["value"]
         [] Has(contents, "map") /\ ~Given(contents, "value")
              /\ Given(contents, "required-value")                      -> contents.map["required-value"]
         [] Has(contents, "map") /\ ~Given(contents, "value")
              /\ ~Given(contents, "required-value")
              /\ Given(contents, "suggested-value")                     -> contents.map["suggested-value"]
         [] OTHER                                                       -> Null

At(n, key) == IF Has(n, "map") /\ Given(n, key) THEN n.map[key] ELSE Null

Sections(part) ==
  LET sections == At(At(document, "config-full"), part)
  IN  IF Has(sections, "map") THEN sections.map ELSE <<>>

Options(s) ==
  LET section == IF s \in DOMAIN Sections("plugins") THEN Sections("plugins")[s] ELSE Sections("modules")[s]
  IN  Resolved(At(section, "config"))

OptionsAreResolved ==
  phase = "loading" /\ document # NoFile =>
    \A s \in DOMAIN Sections("plugins") \cup DOMAIN Sections("modules") :
      Get(final, s) = ParseValue(Options(s))

\* The form content/README.md, 4 gives the file: maps, a list of requirements, and
\* options that are maps; and it can be parsed.
MapsOf(parts, keys, form(_)) ==
  \A p \in parts, k \in keys :
    Given(document, p) => /\ Has(document.map[p], "map")
                          /\ Given(document.map[p], k) => form(document.map[p].map[k])

SectionMap(n) ==
  Has(n, "map") /\ \A s \in DOMAIN n.map :
    Has(n.map[s], "map") /\ (Given(n.map[s], "config") => Has(n.map[s].map["config"], "map"))

HasTheForm ==
  /\ Parses(document) /\ Has(document, "map")
  /\ Given(document, "meta") => Has(document.map["meta"], "map")
  /\ MapsOf(Parts, {"modules", "plugins"}, SectionMap)
  /\ MapsOf(Parts, {"load-order"}, LAMBDA n : Has(n, "seq") /\ \A j \in DOMAIN n.seq : n.seq[j] = Scalar(Text))

\* A value in a list that its contents leave without one.
RECURSIVE HasHole(_)
HasHole(n) ==
  CASE Has(n, "map") -> \E k \in DOMAIN n.map : HasHole(n.map[k])
    [] Has(n, "seq") -> \E j \in DOMAIN n.seq : Has(n.seq[j], "null") \/ HasHole(n.seq[j])
    [] OTHER -> FALSE

\* "The GUI is responsible for checking"; validateUserConfig checks the rest: what it
\* does not complain about does not raise later, if the file has its form, unless
\* the versions cannot be compared, a section is of an extension that was not
\* found, an option is a scalar where a map is needed, or a list has a hole.
AcceptedConfigsLoad ==
  phase = "raised" /\ complaints = {} /\ HasTheForm =>
    \/ status = "raised"
    \/ \E part \in {"modules", "plugins"} : ~({Str(s) : s \in DOMAIN Sections(part)} \subseteq Loaders)
    \/ \E part \in {"modules", "plugins"} : \E s \in DOMAIN Sections(part) :
         LET options == Resolved(Sections(part)[s]) IN HasHole(options)
    \/ final # Nil /\ ~Digestible(final)
=============================================================================
