----------------------------- MODULE Documents ------------------------------
(***************************************************************************)
(* create_document (documents.rs): the fields a model sends are brought    *)
(* into shape, refused if they hold no content, rendered, stored under     *)
(* the conversation and recorded as an artifact.                           *)
(*                                                                         *)
(* A field is "none", "blank" (a blank string or an empty array), "hollow" *)
(* (an array of nothing but blank entries) or "full".  What is rendered is *)
(* "blank", "full", or Refused.                                            *)
(*                                                                         *)
(* A definition named ..._Wrong is the one after it with one mistake; no   *)
(* specification uses it.                                                  *)
(***************************************************************************)
EXTENDS Naturals, Sequences, Functions

CONSTANTS
    Names,       \* of documents in one conversation
    MaxVersions  \* bound: files written

Refused == "refused"
Kinds == {"txt", "md", "csv", "html", "json", "xlsx", "docx", "pptx"}
Strings == {"text", "markdown", "html", "content"}
Arrays == {"paragraphs", "rows", "sheets", "slides"}
Fields == Strings \union Arrays \union {"data"}
Values(field) == IF field \in Arrays THEN {"none", "blank", "hollow", "full"} ELSE {"none", "blank", "full"}

Has(spec, field) == spec[field] # "none"
Empty == [field \in Fields |-> "none"]

\* What a kind is made of, the first of them it is told to send.
Content ==
    [txt |-> <<"text">>, md |-> <<"markdown", "text">>, csv |-> <<"rows">>, html |-> <<"html">>, json |-> <<"data">>,
     xlsx |-> <<"sheets">>, docx |-> <<"paragraphs", "text", "markdown">>, pptx |-> <<"slides", "paragraphs", "text">>]

-----------------------------------------------------------------------------
\* A whole text sent as "content" is the text; rows of a workbook are a sheet.
Shaped(kind, spec) ==
    LET texted == IF Has(spec, "content") /\ ~Has(spec, "text") /\ ~Has(spec, "markdown") /\ ~Has(spec, "paragraphs")
                  THEN [spec EXCEPT !.text = spec.content] ELSE spec
    IN IF kind = "xlsx" /\ Has(spec, "rows") /\ ~Has(spec, "sheets")
       THEN [texted EXCEPT !.sheets = IF spec.rows = "full" THEN "full" ELSE "hollow"]
       ELSE texted

\* missing_content: a string that is not blank, an array that is not empty.
MissingContent_Wrong(kind, spec) ==
    \A i \in DOMAIN Content[kind] : ~Has(spec, Content[kind][i])

MissingContent(kind, spec) ==
    IF kind = "json" THEN ~Has(spec, "data")
    ELSE \A i \in DOMAIN Content[kind] : spec[Content[kind][i]] \in {"none", "blank"}

\* spec_paragraphs: the array if there is one, else the first string there is.
Paragraphs(spec) ==
    IF Has(spec, "paragraphs") THEN spec.paragraphs
    ELSE IF Has(spec, "text") THEN spec.text
    ELSE IF Has(spec, "markdown") THEN spec.markdown ELSE "blank"

\* render; a workbook of no sheets, and a table of no array, are errors.
Filled(value) == IF value = "full" THEN "full" ELSE "blank"
Render(kind, spec) ==
    CASE kind = "txt" -> Filled(spec.text)
      [] kind = "md" -> Filled(IF Has(spec, "markdown") THEN spec.markdown ELSE spec.text)
      [] kind = "csv" -> IF Has(spec, "rows") THEN Filled(spec.rows) ELSE Refused
      [] kind = "html" -> Filled(spec.html)
      [] kind = "json" -> "full"
      [] kind = "xlsx" -> IF spec.sheets \in {"none", "blank"} THEN Refused ELSE Filled(spec.sheets)
      [] kind = "docx" -> Filled(Paragraphs(spec))
      [] kind = "pptx" -> IF spec.slides \notin {"none", "blank"} THEN Filled(spec.slides) ELSE Filled(Paragraphs(spec))

Created(kind, spec) ==
    LET shaped == Shaped(kind, spec)
    IN IF MissingContent(kind, shaped) THEN Refused ELSE Render(kind, shaped)

-----------------------------------------------------------------------------
(* The artifacts of a conversation.  files: what is on disk; rows: what has  *)
(* been recorded.  A version is a number; a call may fail at any step.       *)

New == [files |-> <<>>, rows |-> <<>>, next |-> 1, last |-> "none"]

Put(files, name, version) == [n \in DOMAIN files \union {name} |-> IF n = name THEN version ELSE files[n]]

\* store and record_artifact: written, validated, recorded.
Save(d, name, fails) ==
    CASE fails = "write" -> [d EXCEPT !.last = "failed"]
      [] fails \in {"validate", "record"} ->
            [d EXCEPT !.files = Put(@, name, d.next), !.next = @ + 1, !.last = "failed"]
      [] OTHER ->
            [d EXCEPT !.files = Put(@, name, d.next), !.next = @ + 1, !.last = "saved",
                      !.rows = Append(@, [name |-> name, version |-> d.next])]

Next(d) ==
    IF d.next > MaxVersions THEN {}
    ELSE {Save(d, name, fails) : name \in Names, fails \in {"no", "write", "validate", "record"}}

-----------------------------------------------------------------------------
Sent(kind) == Range(Content[kind]) \union {"content"} \union (IF kind = "xlsx" THEN {"rows"} ELSE {})
Specs(kind) ==
    {[f \in Fields |-> IF f \in Sent(kind) THEN sent[f] ELSE "none"] :
        sent \in {values \in [Sent(kind) -> {"none", "blank", "hollow", "full"}] :
                     \A f \in Sent(kind) : values[f] \in Values(f)}}

(* "A blank document is never a success" (documents.rs:578): what is created *)
(* holds content, unless the content is an array of blank entries, or a      *)
(* blank field that render asks first stands before the one that is filled.  *)
Hollow(spec) == \E f \in Arrays : spec[f] = "hollow"
Shadowed(kind, spec) ==
    \/ kind = "md" /\ spec.markdown = "blank"
    \/ kind \in {"docx", "pptx"} /\ (spec.paragraphs = "blank" \/ (~Has(spec, "paragraphs") /\ spec.text = "blank"))
NeverBlank(kind, spec) ==
    Created(kind, spec) = "blank" => Hollow(Shaped(kind, spec)) \/ Shadowed(kind, Shaped(kind, spec))

(* A model that does what the refusal says gets its document: with the       *)
(* fields it names filled, nothing else that is sent keeps it from being     *)
(* created with content.                                                     *)
AdviceWorks(kind, spec) ==
    Created(kind, [spec EXCEPT ![Content[kind][1]] = "full"]) = "full"

(* Every recorded artifact has a file; it holds what was recorded, or what a *)
(* later call wrote under the same name, even one that failed after that.    *)
RowsHaveFiles(d) ==
    \A i \in DOMAIN d.rows :
        /\ d.rows[i].name \in DOMAIN d.files
        /\ d.files[d.rows[i].name] >= d.rows[i].version
        /\ \A j \in DOMAIN d.rows : i < j /\ d.rows[j].name = d.rows[i].name =>
              d.files[d.rows[i].name] >= d.rows[j].version
=============================================================================
