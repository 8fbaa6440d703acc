--------------------------- MODULE AnnotationCompiler ---------------------------
(***************************************************************************)
(* What the tags of a JsDoc document say of what they annotate,             *)
(* analyzer/annotation_compiler.cc and annotation.cc.  A document is a      *)
(* sequence of tags, a tag its name and the parts that JsDocParser found    *)
(* after it; the annotation keeps the positions of tags, 0 for none.        *)
(***************************************************************************)
EXTENDS Naturals, Sequences

CONSTANT
    MoveKeepsKind  \* whether Annotation's move constructor copies kind_

ChildAt(tag, i) == tag.parts[i]      \* child 0 is the name of the tag
HasChildAt(tag, i) == i \in DOMAIN tag.parts

KindTags ==
    [t \in {"@constructor", "@dict", "@enum", "@interface", "@record",
            "@define", "@type", "@typedef"} |->
       CASE t = "@constructor" -> "Constructor"
         [] t = "@dict" -> "Dict"
         [] t = "@enum" -> "Enum"
         [] t \in {"@interface", "@record"} -> "Interface"
         [] t = "@define" -> "Define"
         [] t = "@type" -> "Type"
         [] t = "@typedef" -> "TypeDef"]
TypedKindTags == {"@define", "@type", "@typedef"}
AccessTags == {"@private", "@protected", "@public"}

(* The state of a compilation: the annotation, with the tags reported.       *)
NewAnnotation(document) ==
    [document |-> document, kind |-> "None", kind_tag |-> 0, access_tag |-> 0,
     const_tag |-> 0, final_tag |-> 0, override_tag |-> 0, return_tag |-> 0,
     this_tag |-> 0, extends_tags |-> <<>>, implements_tags |-> <<>>,
     parameter_tags |-> <<>>, type_node |-> 0, type_parameter_names |-> <<>>,
     reports |-> {}, failed |-> {}]

ReportTag(a, code, i) == [a EXCEPT !.reports = @ \cup {<<code, i>>}]

(* The first tag is kept, a second one is reported. *)
RememberTag(a, field, i) ==
    IF a[field] # 0 THEN ReportTag(a, "MULTIPLE_TAG", i)
                    ELSE [a EXCEPT ![field] = i]

RememberType(a, i) ==
    IF a.type_node # 0 THEN a
    ELSE IF HasChildAt(a.document[i], 1) THEN [a EXCEPT !.type_node = i]
    ELSE [a EXCEPT !.failed = @ \cup {"child_at"}]

(* The kind is that of the last kind tag, the tag that of the first. *)
SetKind(a, kind, i) == RememberTag([a EXCEPT !.kind = kind], "kind_tag", i)

FunctionTagAlways(a) == [a EXCEPT !.kind = "Function"]
FunctionTag(a) == IF a.kind = "None" THEN [a EXCEPT !.kind = "Function"] ELSE a

AddTypeParameter(a, i, operand) ==
    CASE operand.syntax # "TypeName" -> a
      [] \E k \in DOMAIN a.type_parameter_names :
           a.type_parameter_names[k] = operand.name -> ReportTag(a, "MULTIPLE_NAME", i)
      [] OTHER -> [a EXCEPT !.type_parameter_names = Append(@, operand.name)]
ProcessTemplateTag(a, i) ==
    LET operands == a.document[i].parts
        after[n \in 0 .. Len(operands)] ==
            IF n = 0 THEN a ELSE AddTypeParameter(after[n - 1], i, operands[n])
    IN  after[Len(operands)]

ClassifyTag(a, i) ==
    LET tag == a.document[i].tag
    IN  CASE tag = "@const" ->
               LET b == RememberTag(a, "const_tag", i)
               IN  IF a.document[i].parts = <<>> THEN b
                   ELSE RememberType(SetKind(b, "Type", i), i)
          [] tag \in TypedKindTags ->
               RememberType(SetKind(a, KindTags[tag], i), i)
          [] tag \in DOMAIN KindTags \ TypedKindTags ->
               SetKind(a, KindTags[tag], i)
          [] tag = "@extends" -> [a EXCEPT !.extends_tags = Append(@, i)]
          [] tag = "@implements" -> [a EXCEPT !.implements_tags = Append(@, i)]
          [] tag = "@final" -> RememberTag(a, "final_tag", i)
          [] tag = "@override" -> RememberTag(a, "override_tag", i)
          [] tag \in AccessTags -> RememberTag(a, "access_tag", i)
          [] tag = "@param" ->
               [FunctionTag(a) EXCEPT !.parameter_tags = Append(@, i)]
          [] tag = "@return" -> RememberTag(FunctionTag(a), "return_tag", i)
          [] tag = "@this" -> RememberTag(FunctionTag(a), "this_tag", i)
          [] tag = "@template" -> ProcessTemplateTag(a, i)
          [] OTHER -> a

Classify(document) ==
    LET after[n \in 0 .. Len(document)] ==
            IF n = 0 THEN NewAnnotation(document) ELSE ClassifyTag(after[n - 1], n)
    IN  after[Len(document)]

-----------------------------------------------------------------------------
(* Validate: whether the tags may stand at the annotated node.              *)
ReportTags(a, code, tags) ==
    [a EXCEPT !.reports = @ \cup {<<code, i>> : i \in tags}]
Tags(sequence) == {sequence[k] : k \in DOMAIN sequence}

CanHaveVisibility(target) == target.is_method \/ target.is_member_declaration

ValidateVisibility(a, target) ==
    IF a.access_tag # 0 /\ ~CanHaveVisibility(target)
    THEN ReportTag(a, "UNEXPECT_VISIBILITY", a.access_tag) ELSE a

(* A class extends one class: the second and further tags are reported. *)
ValidateForConstructor(a) ==
    ReportTags(a, "UNEXPECT_TAG",
               {a.extends_tags[k] : k \in DOMAIN a.extends_tags \ {1}})
ValidateForInterface(a) ==
    ReportTags(a, "UNEXPECT_TAG",
               Tags(a.parameter_tags) \cup ({a.return_tag} \ {0}))
ValidateForType(a, target) ==
    IF target.is_class THEN ReportTag(a, "UNEXPECT_TAG", a.kind_tag) ELSE a

Validate(a, target) ==
    LET b == ValidateVisibility(a, target)
    IN  CASE a.kind_tag = 0 -> b
          [] a.kind = "Constructor" -> ValidateForConstructor(b)
          [] a.kind = "Interface" -> ValidateForInterface(b)
          [] OTHER -> ValidateForType(b, target)

(* What the caller gets is the annotation the move constructor makes. *)
MovedKeeping(a, keeps) == IF keeps THEN a ELSE [a EXCEPT !.kind = "None"]
Moved(a) == MovedKeeping(a, MoveKeepsKind)

(* NameResolver compiles with a context, TypeResolver without: only the      *)
(* first validates, and reports.                                             *)
CompileAndReport(document, target) == Moved(Validate(Classify(document), target))
Compile(document) == Moved([Classify(document) EXCEPT !.reports = {}])

-----------------------------------------------------------------------------
(* annotation.cc *)
TagName(a, i) == a.document[i].tag
ClassKind(a) ==
    CASE a.kind_tag = 0 -> "Class"
      [] TagName(a, a.kind_tag) = "@constructor" -> "Class"
      [] TagName(a, a.kind_tag) = "@interface" -> "Interface"
      [] TagName(a, a.kind_tag) = "@record" -> "Record"
      [] OTHER -> "NOTREACHED"
Visibility(a) ==
    CASE a.access_tag = 0 -> "Public"
      [] TagName(a, a.access_tag) = "@private" -> "Private"
      [] TagName(a, a.access_tag) = "@protected" -> "Protected"
      [] OTHER -> "Public"
TypeNode(a) == ChildAt(a.document[a.type_node], 1)

-----------------------------------------------------------------------------
(* is_constructor() and the like read kind_, class_kind() and the type alias *)
(* read kind_tag_.  When no tag was reported as one too many they agree, a   *)
(* constructor or interface has a class kind, and a type annotation a type.  *)
KindAgrees(a) ==
    (a.reports = {} /\ a.failed = {}) =>
        LET tag == IF a.kind_tag = 0 THEN "" ELSE TagName(a, a.kind_tag)
        IN  /\ tag \in DOMAIN KindTags => a.kind = KindTags[tag]
            /\ tag = "@const" => a.kind = "Type"
            /\ a.kind_tag = 0 => a.kind \in {"None", "Function"}
            /\ a.kind \in {"Constructor", "Interface"} => ClassKind(a) # "NOTREACHED"
            /\ a.kind \in {"Define", "Type", "TypeDef"} =>
                 a.type_node = a.kind_tag

(* Of the annotation that is classified, the one that the reader gets: with  *)
(* the kind they agree; without it they do only if there is no kind tag.     *)
LosesKindInMoveOnly(a) ==
    (a.reports = {} /\ a.failed = {}) =>
        \A keeps \in BOOLEAN :
           KindAgrees(MovedKeeping(a, keeps)) <=> (keeps \/ a.kind_tag = 0)
================================================================================
