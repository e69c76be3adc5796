------------------------------- MODULE Exchange -------------------------------
(***************************************************************************)
(* Writing named shapes to files and reading them again (exports, imports):*)
(* the factory of the exporters, the options kept for each file type, an   *)
(* exporter with the shapes added to it, the STEP, IGES, BREP and STL      *)
(* writers and the STEP reader.  Failures are logged (module Logging).     *)
(*                                                                         *)
(* A name is a sequence of parts.  A named shape has faces, each with the  *)
(* name and the origin its traits give it, or it is made of wires only.    *)
(* A face and its traits stay together (module NamedShapes,                *)
(* TraitsFollowFaces); geometry is left out, and so are the short names,   *)
(* cut to 8 letters, which labels are: a label is the name it is short for.*)
(***************************************************************************)
EXTENDS Logging

CONSTANTS Shapes,         \* the named shapes a caller has
          OptionsFor,     \* for a class: the options a caller gives an exporter
          ShapeOptions,   \* the options a caller gives a shape
          Registered,     \* exporters another library registers: types, class, options
          MaxShapes,      \* bound: shapes added to exporters
          MaxCalls        \* bound: other calls

VARIABLES configs, indexOf,   \* CGlobalExporterConfigs: the options, and which a type has
          builders,           \* ExporterFactory: the class that writes a type
          exporter,           \* the exporter the caller works with
          file,               \* the file written last
          imported,           \* what the caller has read: the shapes, and of which groups
          added, calls         \* the shapes added and the other calls

registry == <<configs, indexOf, builders>>
vars     == <<registry, exporter, file, imported, added, calls, log>>

Classes == {"step", "iges", "brep", "stl"}
TypesOf == [step |-> <<"step", "stp">>, iges |-> <<"igs", "iges">>, brep |-> <<"brep">>, stl |-> <<"stl">>]

NoExporter == [class |-> "none"]
NoFile == [class |-> "none"]
NothingRead == [shapes |-> <<>>, groups |-> <<>>]
NoOrigin == <<>>

ShapeGroupMode == {"WHOLE_SHAPE", "NAMED_COMPOUNDS", "FACES"}
FaceNameSettings == {"UIDOnly", "FaceNameOnly", "UIDandFaceName", "None"}

\* COptionList: a value for each option there is.  Only IGES has FaceNames.
ExporterOptions(mode) == [default |-> FALSE, mode |-> mode]
IgesOptions(mode, faceNames) == [default |-> FALSE, mode |-> mode, faceNames |-> faceNames]
DefaultExporterOption == [ExporterOptions("WHOLE_SHAPE") EXCEPT !.default = TRUE]

DefaultOptions(class) ==
  CASE class = "iges" -> IgesOptions("NAMED_COMPOUNDS", "FaceNameOnly")
    [] class = "step" -> ExporterOptions("NAMED_COMPOUNDS")
    [] OTHER          -> ExporterOptions("WHOLE_SHAPE")

HasOption(options, name) == name \in DOMAIN options

\* Set and SetFromString, with what a text may stand for.  IsDefault is left alone.
Values == [mode |-> ShapeGroupMode, faceNames |-> FaceNameSettings]

OptionSet(options) ==
  UNION {{[options EXCEPT ![name] = v] : v \in Values[name]} :
           name \in {x \in DOMAIN Values : HasOption(options, x)}}

\* Options of a shape: a layer for IGES, a deflection for STL, or neither.
NoLayer == -1
DefaultShapeExportOptions == [kind |-> "default"]
DefaultShapeOptions(class) ==
  CASE class = "iges" -> [kind |-> "iges", layer |-> NoLayer]
    [] class = "stl"  -> [kind |-> "triangulated"]
    [] OTHER          -> [kind |-> "shape"]

\* What callers and other libraries have to offer.
IsShape(s) == s.faces \in Seq(ToSet(s.faces)) /\ s.wires \in Nat

IsOptions(o) ==
  /\ {"default", "mode"} \subseteq DOMAIN o /\ o.default = FALSE /\ o.mode \in ShapeGroupMode
  /\ HasOption(o, "faceNames") => o.faceNames \in FaceNameSettings

IsShapeOption(o) == o.kind = "iges" => o.layer \in Int

ASSUME ExchangeAssumption ==
  /\ \A s \in Shapes : IsShape(s)
  /\ \A o \in OptionsFor : IsOptions(o)
  /\ \A o \in ShapeOptions : IsShapeOption(o)
  /\ \A r \in Registered : r.class \in Classes /\ IsOptions(r.options)

-----------------------------------------------------------------------------
\* Types are compared in lower case, and the options of all types of a class are one.
RegisterAt(reg, types, class, options) ==
  LET i == Len(reg.configs) + 1 IN
  [configs  |-> Append(reg.configs, options),
   indexOf  |-> [t \in DOMAIN reg.indexOf \cup ToSet(types) |->
                   IF t \in ToSet(types) THEN i ELSE reg.indexOf[t]],
   builders |-> [t \in DOMAIN reg.builders \cup ToSet(types) |->
                   IF t \in ToSet(types) THEN class ELSE reg.builders[t]]]

\* TypeRegistry registers the exporters when the library is loaded.
RegisterClass(reg, c) == RegisterAt(reg, TypesOf[c], c, DefaultOptions(c))

Autorun ==
  LET nothing == [configs |-> <<>>, indexOf |-> <<>>, builders |-> <<>>]
  IN  RegisterClass(RegisterClass(RegisterClass(RegisterClass(nothing, "step"), "iges"), "stl"), "brep")

Init ==
  /\ LoggingInit
  /\ configs = Autorun.configs /\ indexOf = Autorun.indexOf /\ builders = Autorun.builders
  /\ exporter = NoExporter /\ file = NoFile /\ imported = NothingRead
  /\ added = 0 /\ calls = 0

\* Bound: the settings of the logger are changed where nothing else is at work.
IsPlainLog == Len(loggers) = 1 /\ consoleVerbosity = Warning /\ myLogger = 1 /\ consoleLogger = 1

Call == IsPlainLog /\ calls < MaxCalls /\ calls' = calls + 1 /\ UNCHANGED added

\* Another library adds an exporter, perhaps for a type there is.
RegisterExporter ==
  /\ Call /\ Len(configs) = Len(Autorun.configs)    \* bound: once
  /\ \E r \in Registered :
       LET reg == RegisterAt([configs |-> configs, indexOf |-> indexOf, builders |-> builders],
                             r.types, r.class, r.options)
       IN  configs' = reg.configs /\ indexOf' = reg.indexOf /\ builders' = reg.builders
  /\ UNCHANGED <<exporter, file, imported, log>>

\* getExportConfig(type) = ...
SetConfig ==
  /\ Call
  /\ \E t \in DOMAIN indexOf : \E o \in OptionsFor :
       configs' = [configs EXCEPT ![indexOf[t]] = o]
  /\ UNCHANGED <<indexOf, builders, exporter, file, imported, log>>

\* getExportConfig(type).Set(option, value): for an option or a text it does not
\* know that throws and changes nothing.
SetOption ==
  /\ Call
  /\ \E t \in DOMAIN indexOf : \E o \in OptionSet(configs[indexOf[t]]) :
       configs' = [configs EXCEPT ![indexOf[t]] = o]
  /\ UNCHANGED <<indexOf, builders, exporter, file, imported, log>>

NewExporter(class, options, asked) ==
  exporter' = [class |-> class, options |-> options, shapes |-> <<>>, asked |-> asked]

\* Slip: a class has the options it begins with.
CreatedWithDefaults(type, options) == IF options.default THEN DefaultOptions(builders[type]) ELSE options

CreateOptions(type, options) == IF options.default THEN configs[indexOf[type]] ELSE options

\* ExporterFactory::Create, which throws for a type it does not know.
Create ==
  /\ Call
  /\ \E t \in DOMAIN builders : \E o \in OptionsFor \cup {DefaultExporterOption} :
       NewExporter(builders[t], CreateOptions(t, o),
                   IF o.default THEN configs[indexOf[t]] ELSE o)
  /\ UNCHANGED <<registry, file, imported, log>>

\* Or a caller makes one itself; then the default options are those of the class.
Construct ==
  /\ Call
  /\ \E c \in Classes : \E o \in OptionsFor \cup {DefaultExporterOption} :
       NewExporter(c, o, IF o.default THEN DefaultOptions(c) ELSE o)
  /\ UNCHANGED <<registry, file, imported, log>>

AddShape ==
  /\ exporter # NoExporter /\ calls < MaxCalls /\ added < MaxShapes /\ added' = added + 1
  /\ \E s \in Shapes \cup ToSet(imported.shapes) : \E o \in ShapeOptions \cup {DefaultShapeExportOptions} :
       exporter' = [exporter EXCEPT !.shapes = Append(@, [shape |-> s, options |->
         IF o = DefaultShapeExportOptions THEN DefaultShapeOptions(exporter.class) ELSE o])]
  /\ UNCHANGED <<registry, file, imported, calls, log>>

-----------------------------------------------------------------------------
\* GroupFaces.  The faces of an origin make a shape of its name; the origins
\* come in the order of their addresses, a null pointer first.
Origins(s) == {f.origin : f \in ToSet(s.faces)}

Orders(S) == {p \in [1 .. Cardinality(S) -> S] : /\ \A i, j \in DOMAIN p : p[i] = p[j] => i = j
                                                 /\ \A i \in DOMAIN p : p[i] = NoOrigin => i = 1}

NameOfOrigin(s, origin) == IF origin = NoOrigin THEN s.name ELSE origin

FacesOf(s, origin) ==
  FlattenSeq([j \in DOMAIN s.faces |-> IF s.faces[j].origin = origin THEN <<s.faces[j]>> ELSE <<>>])

NamedCompounds(s, order) ==
  {[i \in DOMAIN order |->
      [name |-> NameOfOrigin(s, order[i]), faces |-> FacesOf(s, order[i]), wires |-> 0]]}

Groups(s, mode) ==
  CASE mode = "WHOLE_SHAPE" \/ s.faces = <<>> -> {<<s>>}
    [] mode = "NAMED_COMPOUNDS" /\ s.faces # <<>> -> UNION {NamedCompounds(s, p) : p \in Orders(Origins(s))}
    [] mode = "FACES" /\ s.faces # <<>> ->
         {[i \in DOMAIN s.faces |-> [name |-> NameOfOrigin(s, s.faces[i].origin),
                                     faces |-> <<s.faces[i]>>, wires |-> 0]]}

\* AddToStep and AddToIges: a shape without faces is written wire by wire.
PerWire(group, entity) == [w \in 1 .. group.wires |-> entity]

\* A face of a STEP file has a name; one of an IGES file a label and long names.
StepFace(face) == [label |-> face.name, names |-> <<>>]

StepEntities(group) ==
  IF group.faces # <<>>
  THEN <<[name |-> group.name, faces |-> [i \in DOMAIN group.faces |-> StepFace(group.faces[i])]]>>
  ELSE PerWire(group, [name |-> group.name, faces |-> <<>>])

FaceNames(options) == IF HasOption(options, "faceNames") THEN options.faceNames ELSE "FaceNameOnly"

ExportedLongFaceName(group, face, settings) ==
  CASE settings = "UIDOnly"        -> group.name
    [] settings = "FaceNameOnly"   -> face.name
    [] settings = "UIDandFaceName" -> group.name \o face.name
    [] settings = "None"           -> <<>>

\* SetLongEntityName adds a name to those there are, unless it is empty.
LongName(name) == IF name = <<>> THEN <<>> ELSE <<name>>

\* WriteIGESFaceNames, then WriteIGESShapeNames.  The shape of a group of one face is
\* that face (GroupFaces, and sewing gives back a face that is alone): its entity gets
\* the label of the group and the name of the group behind its own.
IgesFace(group, face, settings) ==
  LET names == LongName(ExportedLongFaceName(group, face, settings)) IN
  IF Len(group.faces) = 1 THEN [label |-> group.name, names |-> names \o LongName(group.name)]
  ELSE [label |-> face.name, names |-> names]

IgesEntities(group, level, settings) ==
  IF group.faces # <<>>
  THEN <<[name |-> group.name, level |-> level,
          faces |-> [i \in DOMAIN group.faces |-> IgesFace(group, group.faces[i], settings)]]>>
  ELSE PerWire(group, [name |-> group.name, level |-> level, faces |-> <<>>])

\* The level of each shape: its layer, or one more than that of the shape before it.
HasLayer(o) == o.kind = "iges" /\ o.layer >= 0

\* Slip: a shape without a layer gets its own number.
LevelsByNumber(shapes) ==
  [i \in DOMAIN shapes |-> IF HasLayer(shapes[i].options) THEN shapes[i].options.layer ELSE i - 1]

Levels(shapes) ==
  LET level[i \in DOMAIN shapes] ==
        IF HasLayer(shapes[i].options) THEN shapes[i].options.layer
        ELSE IF i = 1 THEN 0 ELSE level[i - 1] + 1
  IN  level

\* The options an exporter works with: default ones are replaced when they are needed.
GlobalExportOptions == IF exporter.options.default THEN DefaultOptions(exporter.class) ELSE exporter.options

\* What the groups of all shapes may be, each in some order.
Groupings ==
  LET shapes == exporter.shapes
      choice == [i \in DOMAIN shapes |-> Groups(shapes[i].shape, GlobalExportOptions.mode)]
  IN  {c \in [DOMAIN shapes -> UNION {choice[i] : i \in DOMAIN shapes}] : \A i \in DOMAIN shapes : c[i] \in choice[i]}

StepFile(c) == FlattenSeq([i \in DOMAIN c |-> FlattenSeq([j \in DOMAIN c[i] |-> StepEntities(c[i][j])])])

IgesFile(c) ==
  LET levels == Levels(exporter.shapes) IN
  FlattenSeq([i \in DOMAIN c |-> FlattenSeq([j \in DOMAIN c[i] |->
    IgesEntities(c[i][j], levels[i], FaceNames(GlobalExportOptions))])])

KeepFile == UNCHANGED <<registry, imported>>

File(groups) == file' = [class |-> exporter.class, groups |-> groups, by |-> exporter]

WriteStep ==
  /\ exporter.class = "step" /\ Call
  /\ exporter' = [exporter EXCEPT !.options = IF exporter.shapes = <<>> THEN @ ELSE GlobalExportOptions]
  /\ \E c \in Groupings : File(StepFile(c))
  /\ KeepFile /\ UNCHANGED log

WriteIges ==
  /\ exporter.class = "iges" /\ Call
  /\ exporter' = [exporter EXCEPT !.options = GlobalExportOptions]
  /\ \E c \in Groupings : File(IgesFile(c))
  /\ KeepFile /\ UNCHANGED log

\* BREP and STL files have all shapes as one, without their names.  For STL a
\* shape is meshed with its deflection before, and it throws if it has none.
WriteBrep ==
  /\ exporter.class = "brep" /\ exporter.shapes # <<>> /\ Call
  /\ File(<<>>)
  /\ KeepFile /\ UNCHANGED <<exporter, log>>

CanMesh == \A s \in ToSet(exporter.shapes) : s.options.kind = "triangulated"

WriteStl ==
  /\ exporter.class = "stl" /\ exporter.shapes # <<>> /\ CanMesh /\ Call
  /\ File(<<>>)
  /\ KeepFile /\ UNCHANGED <<exporter, log>>

\* An empty name for the file, or no shapes, is logged, unless it is for STL,
\* and the file stays as it is; so it does if an exception is thrown.
CannotWrite ==
  /\ exporter # NoExporter /\ Call
  /\ \/ exporter.class # "stl" /\ LOG(Error)
     \/ exporter.class = "brep" /\ exporter.shapes = <<>> /\ LOG(Warning)
     \/ exporter.class = "stl" /\ (exporter.shapes = <<>> \/ ~CanMesh) /\ UNCHANGED logged
  /\ KeepFile /\ UNCHANGED <<exporter, file, loggers, myLogger, consoleLogger, consoleVerbosity>>

-----------------------------------------------------------------------------
\* ImportStep::Read: a shape for each root of the file, under a number.  The
\* names of the products are then put where the map of hash codes, asked for
\* the place of the shape, says: that makes an entry for 0, the first shape.
Read ==
  /\ file.class = "step" /\ Call
  /\ LET groups == file.groups
         Number(i) == <<"StepImport", i>>
         name(i) == IF i = 1 THEN groups[Len(groups)].name ELSE Number(i)
         shape(i) == [name  |-> name(i),
                      faces |-> [j \in DOMAIN groups[i].faces |-> [name |-> Number(i), origin |-> NoOrigin]],
                      wires |-> IF groups[i].faces = <<>> THEN 1 ELSE 0]
     IN  /\ imported' = [shapes |-> [i \in DOMAIN groups |-> shape(i)], groups |-> groups]
         /\ IF groups = <<>> THEN LOG(Warning) ELSE UNCHANGED logged
  /\ UNCHANGED <<registry, exporter, file, loggers, myLogger, consoleLogger, consoleVerbosity>>

SetLogging ==
  /\ calls = 0 /\ LoggingNext
  /\ UNCHANGED <<registry, exporter, file, imported, added, calls>>

Next ==
  \/ RegisterExporter \/ SetConfig \/ SetOption \/ Create \/ Construct \/ AddShape
  \/ WriteStep \/ WriteIges \/ WriteBrep \/ WriteStl \/ CannotWrite \/ Read \/ SetLogging

Spec == Init /\ [][Next]_vars

-----------------------------------------------------------------------------
\* "Collects all faces with the same origin into compounds. All faces are named
\* correctly": a STEP or IGES file has every face of every shape once, in groups as
\* the caller asked of the exporter or, before it was made, of the type.  A face says
\* its name or the other one asked for; in an IGES file one that is alone in its
\* group, as all are in mode FACES, says the name of the group as well, behind it.
Total(seq) ==
  LET sum[n \in 0 .. Len(seq)] == IF n = 0 THEN 0 ELSE sum[n - 1] + seq[n]
  IN  sum[Len(seq)]

Count(seq, x) == Cardinality({i \in DOMAIN seq : seq[i] = x})

NbGroups(s, mode) ==
  IF s.faces = <<>> THEN s.wires
  ELSE CASE mode = "WHOLE_SHAPE" -> 1
         [] mode = "NAMED_COMPOUNDS" -> Cardinality(Origins(s))
         [] mode = "FACES" -> Len(s.faces)

IsAlone(s, face, mode) ==
  CASE mode = "WHOLE_SHAPE" -> Len(s.faces) = 1
    [] mode = "NAMED_COMPOUNDS" -> Cardinality({j \in DOMAIN s.faces : s.faces[j].origin = face.origin}) = 1
    [] mode = "FACES" -> TRUE

FaceAskedFor(s, face, asked) ==
  IF file.class = "step" THEN StepFace(face)
  ELSE LET group == IF asked.mode = "WHOLE_SHAPE" THEN s.name ELSE NameOfOrigin(s, face.origin)
           long  == CASE FaceNames(asked) = "FaceNameOnly" -> face.name
                      [] FaceNames(asked) = "UIDOnly" -> group
                      [] FaceNames(asked) = "UIDandFaceName" -> group \o face.name
                      [] FaceNames(asked) = "None" -> <<>>
       IN  IF IsAlone(s, face, asked.mode)
           THEN [label |-> group, names |-> LongName(long) \o LongName(group)]
           ELSE [label |-> face.name, names |-> LongName(long)]

GroupsFollowTheMode ==
  file.class \in {"step", "iges"} =>
    LET shapes == [i \in DOMAIN file.by.shapes |-> file.by.shapes[i].shape]
        asked  == file.by.asked
        faces(i) == [j \in DOMAIN shapes[i].faces |-> FaceAskedFor(shapes[i], shapes[i].faces[j], asked)]
        AllFaces == UNION {ToSet(faces(i)) : i \in DOMAIN shapes}
                      \cup UNION {ToSet(file.groups[k].faces) : k \in DOMAIN file.groups}
    IN  /\ \A x \in AllFaces :
             Total([i \in DOMAIN shapes |-> Count(faces(i), x)])
               = Total([k \in DOMAIN file.groups |-> Count(file.groups[k].faces, x)])
        /\ Len(file.groups) = Total([i \in DOMAIN shapes |-> NbGroups(shapes[i], asked.mode)])

\* "The level parameter defines the iges layer/level": the groups of a shape
\* are on the layer it was given, those of other shapes behind the one before:
\* a shape is on the level of its neighbour only if it was put there.
GroupsOf(shapes, i) ==
  LET n(k) == NbGroups(shapes[k].shape, file.by.asked.mode)
      before == Total([k \in 1 .. i - 1 |-> n(k)])
  IN  before + 1 .. before + n(i)

LevelsFollowTheLayers ==
  file.class = "iges" =>
    \A i \in DOMAIN file.by.shapes : \A k \in GroupsOf(file.by.shapes, i) :
      /\ HasLayer(file.by.shapes[i].options) => file.groups[k].level = file.by.shapes[i].options.layer
      /\ ~HasLayer(file.by.shapes[i].options) /\ i > 1 =>
           \A m \in GroupsOf(file.by.shapes, i - 1) : file.groups[k].level # file.groups[m].level

\* "Retrieve the shape name from the step product name": the shapes read from a
\* file have the names of its groups.
NamesComeBack ==
  \A i \in DOMAIN imported.groups : imported.shapes[i].name = imported.groups[i].name
=============================================================================
