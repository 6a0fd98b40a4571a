------------------------------ MODULE Plugins ------------------------------
(***************************************************************************)
(* soprano/pluginmanager.cpp, pluginstub.cpp, the description files of the *)
(* plugins (inifile.cpp, desktopfile.cpp, sopranopluginfile.cpp), the      *)
(* search for libraries (sopranodirs.cpp), backend.cpp and global.cpp:     *)
(* plugins are found once, loaded on demand, and looked up by name or by   *)
(* what they can do.                                                       *)
(*                                                                         *)
(* A name is a sequence of words, a folder is <<prefix, kind>>, and a      *)
(* library is known by its path.  A library that is loaded twice gives the *)
(* same object, so a plugin object is the path of its library.             *)
(***************************************************************************)
EXTENDS Sequences, Integers, SequencesExt

CONSTANTS
  PlWorlds,      \* installations: [dataDirs, libDirs, files, libs]
  PlPaths,       \* the folders callers set: sequences of folders
  PlNames,       \* the names they look for
  PlLibraries,   \* the paths they load custom plugins from
  PlMaxCalls     \* bound: calls of a program

\* A folder has a list of files, and 0 is the path of no library.
IsSequence(s) == s \in Seq({s[i] : i \in DOMAIN s})
ASSUME PlWorldsAssumption ==
  \A world \in PlWorlds :
    /\ IsSequence(world.dataDirs) /\ \A dir \in DOMAIN world.files : IsSequence(world.files[dir])
    /\ <<>> \notin DOMAIN world.libs
ASSUME PlPathsAssumption == \A paths \in PlPaths : IsSequence(paths)

VARIABLES
  plWorld,       \* the installation
  plSearch,      \* Private::searchPaths and useDefaultSearchPaths
  plLoaded,      \* Private::pluginsLoaded
  plFrom,        \* loadAllPlugins: searchPaths, <<>> before it is called
  plNext,        \* its loops: the folder and the file in it that are next
  plStubs,       \* Private::backends, parsers, ...: name -> PluginStub, by type
  plUsed,        \* s_defaultBackend
  plSettings,    \* the BackendSettings of the program
  plAnswer,      \* the answer to the last call
  plCustom,      \* custom plugins registered so far, by type (for the properties)
  plSet,         \* what each option should be (for the properties)
  plCalls

plVars == <<plWorld, plSearch, plLoaded, plFrom, plNext, plStubs, plUsed, plSettings,
            plAnswer, plCustom, plSet, plCalls>>

None == <<>>    \* 0: no library, no plugin
PluginTypes == {"Backend", "Parser", "Serializer"}
ServiceTypes == <<"Backend", "Parser", "Serializer", "QueryParser", "QuerySerializer">>
VersionMajor == 2
NameSuffix == [Backend |-> "backend", Parser |-> "parser", Serializer |-> "serializer"]

PluginStub(name, lib) == [name |-> name, lib |-> lib, plugin |-> None]
NoStubs == [name \in {} |-> PluginStub(<<>>, None)]

\* QHash::insert
Insert(hash, key, value) == [k \in DOMAIN hash \cup {key} |-> IF k = key THEN value ELSE hash[k]]

PlInit ==
  /\ plWorld \in PlWorlds
  /\ plSearch = [paths |-> <<>>, defaults |-> TRUE]
  /\ plLoaded = FALSE /\ plFrom = <<>> /\ plNext = <<0, 0>>
  /\ plStubs = [t \in ToSet(ServiceTypes) |-> NoStubs]
  /\ plUsed = None /\ plSettings = <<>>
  /\ plAnswer = [call |-> "none"]
  /\ plCustom = [t \in PluginTypes |-> NoStubs]
  /\ plSet = [o \in {} |-> 0] /\ plCalls = 0
-----------------------------------------------------------------------------
\* IniFile::open: the entries by group, or the failure of a line that is neither.
NoEntries == [g \in {} |-> NoStubs]
IniOpen(lines) ==
  FoldLeft(
    LAMBDA f, line :
      CASE ~f.ok \/ line.kind \in {"comment", "empty"} -> f
        [] line.kind = "group" -> [f EXCEPT !.group = line.name]
        [] line.kind = "entry" ->
             LET old == IF f.group \in DOMAIN f.entries THEN f.entries[f.group] ELSE NoStubs
             IN  [f EXCEPT !.entries = Insert(@, f.group, Insert(old, line.key, line.value))]
        [] OTHER -> [f EXCEPT !.ok = FALSE, !.entries = NoEntries],
    [ok |-> TRUE, group |-> "", entries |-> NoEntries], lines)

\* DesktopFile::open: entries in one group only
DesktopOpen(ini) == ini.ok /\ DOMAIN ini.entries = {"Desktop Entry"}

ReadEntry(ini, key) ==
  LET entries == ini.entries["Desktop Entry"] IN IF key \in DOMAIN entries THEN entries[key] ELSE <<>>

\* SopranoPluginFile
FileLibrary(ini) == ReadEntry(ini, "X-Soprano-Library")
SopranoVersion(ini) == ReadEntry(ini, "X-Soprano-Version")
PluginNameEntry(ini) == ReadEntry(ini, "X-Soprano-Plugin-Name")
PluginFileOpen(ini) == DesktopOpen(ini) /\ FileLibrary(ini) # <<>> /\ SopranoVersion(ini) # <<>>
-----------------------------------------------------------------------------
\* makeLibNames: a name with a dot is the file's, any other gets the system's forms
LibNames(lib) ==
  IF ".so" \in ToSet(lib) THEN <<lib>> ELSE <<lib \o <<".so">>, <<"lib">> \o lib \o <<".so">>>>

\* findLibraryPath: the first of the names that is a file, the own folders last
LibraryCandidates(lib, dirs) ==
  LET at(name) == IF Head(name) = "/" THEN <<name>>
                  ELSE FlattenSeq([i \in DOMAIN dirs |-> <<<<dirs[i], "soprano", name>>, <<dirs[i], "", name>>>>])
      names == LibNames(lib)
  IN  FlattenSeq([i \in DOMAIN names |-> at(names[i])])

FirstExisting(paths, existing) ==
  LET found == SelectSeq(paths, LAMBDA p : p \in existing) IN IF found = <<>> THEN None ELSE Head(found)

findLibraryPath(lib, extraDirs) ==
  FirstExisting(LibraryCandidates(lib, plWorld.libDirs \o extraDirs), DOMAIN plWorld.libs)

\* the folder of the file, and the library folder of its prefix
findPluginLib(ini, dir) == findLibraryPath(FileLibrary(ini), <<dir, <<dir[1], "lib">>>>)

pluginFileSearchPaths == [i \in DOMAIN plWorld.dataDirs |-> <<plWorld.dataDirs[i], "plugins">>]
-----------------------------------------------------------------------------
FileName(ini, file) == IF PluginNameEntry(ini) = <<>> THEN file.name ELSE PluginNameEntry(ini)

\* the first of the types in the order loadPlugin asks for them
TypesIn(ini) == SelectSeq(ServiceTypes, LAMBDA t : t \in ToSet(ReadEntry(ini, "ServiceTypes")))

\* What loadPlugin asks of a file before it looks at the type
Usable(file, dir) ==
  LET ini == IniOpen(file.lines) IN
  /\ PluginFileOpen(ini)
  /\ Head(SopranoVersion(ini)) = VersionMajor
  /\ findPluginLib(ini, dir) # None

IsOfType(file, type) == TypesIn(IniOpen(file.lines)) # <<>> /\ Head(TypesIn(IniOpen(file.lines))) = type

StubOf(file, dir) ==
  LET ini == IniOpen(file.lines) IN PluginStub(FileName(ini, file), findPluginLib(ini, dir))

\* loadPlugin: the first plugin of a name stays; it replaces the others here.
loadPlugin_Last(stubs, file, dir) ==
  LET stub == StubOf(file, dir) IN
  [type \in DOMAIN stubs |->
     IF Usable(file, dir) /\ IsOfType(file, type) THEN Insert(stubs[type], stub.name, stub) ELSE stubs[type]]

\* loadPlugin: the first plugin of a name stays
loadPlugin(stubs, file, dir) ==
  LET stub == StubOf(file, dir) IN
  [type \in DOMAIN stubs |->
     IF Usable(file, dir) /\ IsOfType(file, type) /\ stub.name \notin DOMAIN stubs[type]
     THEN Insert(stubs[type], stub.name, stub) ELSE stubs[type]]

SearchedDirs == plSearch.paths \o (IF plSearch.defaults THEN pluginFileSearchPaths ELSE <<>>)

FilesIn(dir) == IF dir \in DOMAIN plWorld.files THEN plWorld.files[dir] ELSE <<>>

\* The first lookup loads the files of every folder, one after the other, before
\* it goes on: what has to wait for that is guarded by plAnswer.
loadAllPlugins ==
  /\ plNext = <<0, 0>> /\ plCalls < PlMaxCalls
  /\ plFrom' = SearchedDirs /\ plNext' = <<1, 1>>
  /\ plAnswer' = [call |-> "loading"]
  /\ UNCHANGED <<plWorld, plSearch, plLoaded, plStubs, plUsed, plSettings, plCustom, plSet, plCalls>>

loadNext ==
  LET i == plNext[1]
      j == plNext[2]
  IN  /\ plNext # <<0, 0>> /\ ~plLoaded
      /\ \/ /\ i \in DOMAIN plFrom /\ j \in DOMAIN FilesIn(plFrom[i])
            /\ plStubs' = loadPlugin(plStubs, FilesIn(plFrom[i])[j], plFrom[i])
            /\ plNext' = <<i, j + 1>> /\ UNCHANGED plLoaded
         \/ /\ i \in DOMAIN plFrom /\ j \notin DOMAIN FilesIn(plFrom[i])
            /\ plNext' = <<i + 1, 1>> /\ UNCHANGED <<plStubs, plLoaded>>
         \/ /\ i \notin DOMAIN plFrom
            /\ plLoaded' = TRUE /\ UNCHANGED <<plStubs, plNext>>
      /\ UNCHANGED <<plWorld, plSearch, plFrom, plUsed, plSettings, plAnswer, plCustom, plSet, plCalls>>
-----------------------------------------------------------------------------
\* PluginStub::plugin: the stub afterwards and the object.  A plugin that is not
\* available is refused on the first call only.
LibraryAt(path) ==
  IF path \in DOMAIN plWorld.libs THEN plWorld.libs[path]
  ELSE [type |-> "none", name |-> <<>>, available |-> FALSE, features |-> {}, user |-> {}]

StubPlugin(stub) ==
  LET l == LibraryAt(stub.lib) IN
  IF stub.plugin # None THEN [stub |-> stub, plugin |-> stub.plugin]
  ELSE IF l.type \notin PluginTypes THEN [stub |-> stub, plugin |-> None]
  ELSE [stub |-> [stub EXCEPT !.plugin = stub.lib, !.name = IF @ = <<>> THEN l.name ELSE @],
        plugin |-> IF l.available THEN stub.lib ELSE None]

\* qobject_cast
CastTo(type, plugin) == IF plugin # None /\ LibraryAt(plugin).type = type THEN plugin ELSE None

\* the stubs after plugin() has been called on those of the names
Touched(stubs, type, names) ==
  [stubs EXCEPT ![type] = [n \in DOMAIN @ |-> IF n \in names THEN StubPlugin(@[n]).stub ELSE @[n]]]

PluginOf(stubs, type, name) == CastTo(type, StubPlugin(stubs[type][name]).plugin)

\* supportsFeatures: one of the features is enough; user features need all of them
supportsFeatures(lib, features, userFeatures) ==
  /\ LibraryAt(lib).features \cap features # {}
  /\ "User" \in features => userFeatures \subseteq LibraryAt(lib).user

supportsSerialization(lib, s, user) ==
  IF s \in {"User", "Unknown"} THEN user \in LibraryAt(lib).user ELSE s \in LibraryAt(lib).features
-----------------------------------------------------------------------------
PlCall ==
  /\ plCalls < PlMaxCalls
  /\ plCalls' = plCalls + 1
  /\ UNCHANGED <<plWorld, plLoaded, plFrom, plNext>>

\* a call that has loaded all plugins, and one that does not need them
Lookup == PlCall /\ plLoaded
OtherCall == PlCall /\ plAnswer.call # "loading"

\* the name itself, or the name with its suffix
NameFound(stubs, type, name) ==
  IF name \in DOMAIN stubs[type] \/ Last(name) = NameSuffix[type] THEN name
  ELSE Append(name, NameSuffix[type])

ByName(stubs, type, name) ==
  IF NameFound(stubs, type, name) \in DOMAIN stubs[type]
  THEN PluginOf(stubs, type, NameFound(stubs, type, name)) ELSE None

discoverByName(type, name) ==
  /\ Lookup
  /\ plStubs' = Touched(plStubs, type, {NameFound(plStubs, type, name)})
  /\ plAnswer' = [call |-> "byName", type |-> type, name |-> name, plugin |-> ByName(plStubs, type, name)]
  /\ UNCHANGED <<plSearch, plUsed, plSettings, plCustom, plSet>>

\* The stubs are tried in the order of a hash until one fits.
discoverFitting(type, suitable, wanted) ==
  LET fitting == {n \in DOMAIN plStubs[type] : PluginOf(plStubs, type, n) \in suitable}
  IN  /\ Lookup
      /\ \/ /\ fitting = {}
            /\ plStubs' = Touched(plStubs, type, DOMAIN plStubs[type])
            /\ plAnswer' = [call |-> "fitting", type |-> type, wanted |-> wanted, plugin |-> None]
         \/ \E n \in fitting, before \in SUBSET (DOMAIN plStubs[type] \ fitting) :
              /\ plStubs' = Touched(plStubs, type, before \cup {n})
              /\ plAnswer' = [call |-> "fitting", type |-> type, wanted |-> wanted,
                              plugin |-> PluginOf(plStubs, type, n)]
      /\ UNCHANGED <<plSearch, plUsed, plSettings, plCustom, plSet>>

discoverBackendByFeatures(features, user) ==
  discoverFitting("Backend", {p \in DOMAIN plWorld.libs : supportsFeatures(p, features, user)},
                  [all |-> features, user |-> user])

discoverForSerialization(type, s, user) ==
  /\ type # "Backend"
  /\ discoverFitting(type, {p \in DOMAIN plWorld.libs : supportsSerialization(p, s, user)},
                     [all |-> {s}, user |-> {user}])

allPlugins(type) ==
  /\ Lookup
  /\ plStubs' = Touched(plStubs, type, DOMAIN plStubs[type])
  /\ plAnswer' = [call |-> "all", type |-> type,
                  plugins |-> {PluginOf(plStubs, type, n) : n \in DOMAIN plStubs[type]} \ {None}]
  /\ UNCHANGED <<plSearch, plUsed, plSettings, plCustom, plSet>>

setPluginSearchPath(paths, defaults) ==
  /\ OtherCall
  /\ plSearch' = [paths |-> paths, defaults |-> defaults]
  /\ plAnswer' = [call |-> "none"]
  /\ UNCHANGED <<plStubs, plUsed, plSettings, plCustom, plSet>>

\* addPlugin: a custom plugin replaces the one of its name
addPlugin(stub) ==
  LET s == StubPlugin(stub)
      type == LibraryAt(s.plugin).type
  IN  IF s.plugin = None THEN UNCHANGED <<plStubs, plCustom>>
      ELSE /\ plStubs' = [plStubs EXCEPT ![type] = Insert(@, s.stub.name, s.stub)]
           /\ plCustom' = [plCustom EXCEPT ![type] = Insert(@, s.stub.name, stub.lib)]

loadCustomPlugin(path) ==
  /\ OtherCall
  /\ addPlugin(PluginStub(<<>>, path))
  /\ plAnswer' = [call |-> "custom", type |-> LibraryAt(path).type, lib |-> path,
                  plugin |-> StubPlugin(PluginStub(<<>>, path)).plugin]
  /\ UNCHANGED <<plSearch, plUsed, plSettings, plSet>>

\* loadCustomBackend, loadCustomParser, loadCustomSerializer
loadCustom(type, path) ==
  LET s == StubPlugin(PluginStub(<<>>, path)) IN
  /\ OtherCall
  /\ IF CastTo(type, s.plugin) # None THEN addPlugin(s.stub) ELSE UNCHANGED <<plStubs, plCustom>>
  /\ plAnswer' = [call |-> "custom", type |-> type, lib |-> path, plugin |-> CastTo(type, s.plugin)]
  /\ UNCHANGED <<plSearch, plUsed, plSettings, plSet>>
-----------------------------------------------------------------------------
\* settingInSettings: the first entry of the option, or a new one at the end
SameOption(setting, option, user) ==
  setting.option = option /\ (option = "User" => setting.user = user)

settingIndex(settings, option, user) ==
  LET found == {i \in DOMAIN settings : SameOption(settings[i], option, user)} IN
  IF found = {} THEN 0 ELSE CHOOSE i \in found : \A j \in found : i <= j

BackendSetting(option, user, value) == [option |-> option, user |-> user, value |-> value]

valueInSettings(settings, option, user, default) ==
  LET i == settingIndex(settings, option, user) IN IF i = 0 THEN default ELSE settings[i].value

\* settingInSettings( ... ).setValue( value )
setSetting(option, user, value) ==
  LET i == settingIndex(plSettings, option, user) IN
  /\ OtherCall
  /\ plSettings' = IF i = 0 THEN Append(plSettings, BackendSetting(option, user, value))
                   ELSE [plSettings EXCEPT ![i].value = value]
  /\ plSet' = Insert(plSet, <<option, user>>, value)
  /\ plAnswer' = [call |-> "none"]
  /\ UNCHANGED <<plSearch, plStubs, plUsed, plCustom>>

setUsedBackend(lib) ==
  /\ OtherCall
  /\ plUsed' = lib
  /\ plAnswer' = [call |-> "none"]
  /\ UNCHANGED <<plSearch, plStubs, plSettings, plCustom, plSet>>

\* createModel of global.cpp: redland unless the program has chosen a backend
Redland == <<"redland">>
createModelOf ==
  LET chosen == IF plUsed # None THEN plUsed ELSE ByName(plStubs, "Backend", Redland) IN
  /\ IF plUsed # None THEN OtherCall /\ UNCHANGED plStubs
     ELSE Lookup /\ plStubs' = Touched(plStubs, "Backend", {NameFound(plStubs, "Backend", Redland)})
  /\ plUsed' = chosen
  /\ plAnswer' = [call |-> "model", chosen |-> plUsed, plugin |-> chosen,
                  settings |-> [o \in DOMAIN plSet |-> valueInSettings(plSettings, o[1], o[2], "default")]]
  /\ UNCHANGED <<plSearch, plSettings, plCustom, plSet>>
-----------------------------------------------------------------------------
PlNext ==
  \/ loadAllPlugins \/ loadNext
  \/ \E type \in PluginTypes, name \in PlNames : discoverByName(type, name)
  \/ \E features \in {{"AddStatement", "Storage"}, {"User"}, {"Query", "User"}}, user \in {{}, {"fast"}} :
       discoverBackendByFeatures(features, user)
  \/ \E type \in PluginTypes, s \in {"RdfXml", "User"}, user \in {"", "own"} : discoverForSerialization(type, s, user)
  \/ \E type \in PluginTypes : allPlugins(type)
  \/ \E paths \in PlPaths, defaults \in BOOLEAN : setPluginSearchPath(paths, defaults)
  \/ \E path \in PlLibraries : loadCustomPlugin(path) \/ \E type \in PluginTypes : loadCustom(type, path)
  \/ \E option \in {"StorageDir", "User"}, user \in {"a", "b"}, value \in {"x", "y"} :
       (option = "StorageDir" => user = "a") /\ setSetting(option, user, value)
  \/ \E lib \in PlLibraries : LibraryAt(lib).type = "Backend" /\ setUsedBackend(lib)
  \/ createModelOf
-----------------------------------------------------------------------------
\* The places of the files in the folders that are searched, in that order
Places == UNION {{i} \X DOMAIN FilesIn(plFrom[i]) : i \in DOMAIN plFrom}
Before(p, q) == p[1] < q[1] \/ (p[1] = q[1] /\ p[2] < q[2])

StubAt(p) == StubOf(FilesIn(plFrom[p[1]])[p[2]], plFrom[p[1]])
PlacesOf(type) ==
  {p \in Places : LET file == FilesIn(plFrom[p[1]])[p[2]] IN Usable(file, plFrom[p[1]]) /\ IsOfType(file, type)}
PlacesNamed(type, name) == {p \in PlacesOf(type) : StubAt(p).name = name}
First(places) == CHOOSE p \in places : \A q \in places : ~Before(q, p)

\* what a name stands for: the custom plugin, or the first that was found
NamedPlugin(type, name) ==
  IF name \in DOMAIN plCustom[type] THEN plCustom[type][name]
  ELSE IF PlacesNamed(type, name) = {} THEN None ELSE StubAt(First(PlacesNamed(type, name))).lib

\* the plugins an answer may give, and those it must consider
NamesOf(type) == DOMAIN plCustom[type] \cup {StubAt(p).name : p \in PlacesOf(type)}
MayGive(type) == {p \in {NamedPlugin(type, n) : n \in NamesOf(type)} : LibraryAt(p).type = type}
MustGive(type) == {p \in MayGive(type) : LibraryAt(p).available}

NamedAsAsked ==
  plAnswer.call = "byName" =>
    LET a == plAnswer
        named == IF NamedPlugin(a.type, a.name) # None \/ Last(a.name) = NameSuffix[a.type]
                 THEN NamedPlugin(a.type, a.name)
                 ELSE NamedPlugin(a.type, Append(a.name, NameSuffix[a.type]))
    IN  IF named \in MustGive(a.type) THEN a.plugin = named ELSE a.plugin \in {None, named}

Suits(type, wanted, p) ==
  IF type = "Backend" THEN supportsFeatures(p, wanted.all, wanted.user)
  ELSE \E s \in wanted.all, u \in wanted.user : supportsSerialization(p, s, u)

HasAll(wanted, p) == wanted.all \subseteq LibraryAt(p).features
SuitsFully(type, wanted, p) == Suits(type, wanted, p) /\ (type = "Backend" => HasAll(wanted, p))

FittingAsAsked ==
  plAnswer.call = "fitting" =>
    LET a == plAnswer IN
    IF a.plugin = None THEN \A p \in MustGive(a.type) : ~SuitsFully(a.type, a.wanted, p)
    ELSE a.plugin \in MayGive(a.type) /\ Suits(a.type, a.wanted, a.plugin)

AllAsAsked ==
  plAnswer.call = "all" =>
    MustGive(plAnswer.type) \subseteq plAnswer.plugins /\ plAnswer.plugins \subseteq MayGive(plAnswer.type)

CustomIsListed ==
  plAnswer.call = "custom" /\ plAnswer.plugin # None =>
    LibraryAt(plAnswer.plugin).name \in DOMAIN plCustom[plAnswer.type]

ModelAsChosen ==
  plAnswer.call = "model" =>
    /\ plAnswer.chosen # None => plAnswer.plugin = plAnswer.chosen
    /\ plAnswer.settings = plSet

\* A lookup gives the plugin its caller asked for: the custom plugin of that name if one was
\* loaded, before or after the search, else the first one found in the order of the folders that
\* the first lookup searched; no plugin that can be used and has everything that was asked for is
\* left out (what is given need not have it all, against pluginmanager.h and backend.h, nor can it
\* always be used, against plugin.h: the code tests neither); and a model is made by the chosen
\* backend, with every option as it was last set (PluginManager, PluginStub::plugin,
\* settingInSettings, createModel).
PluginsFound == NamedAsAsked /\ FittingAsAsked /\ AllAsAsked /\ CustomIsListed /\ ModelAsChosen
=============================================================================
