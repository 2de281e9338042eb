----------------------------- MODULE CatOutput -----------------------------
(***************************************************************************)
(* The output of catcierge (catcierge_output.c): the templates that are    *)
(* loaded at the start, and what happens on an event of the state machine: *)
(* every template registered to it is generated and written to a file,     *)
(* then the commands of the event are generated and run.                   *)
(*                                                                         *)
(* Generating a text is recursive: a variable in it may be a path, whose   *)
(* text has variables of its own, and a loop generates its body.  The      *)
(* module is a machine with a call stack, one frame for each C call in     *)
(* progress, because the recursion counter, the relative path flag, the    *)
(* loop variables and the template index are shared by all the calls, and  *)
(* because a signal handler may start an event in the middle of another.   *)
(*                                                                         *)
(* Operators ending in _Mutant or _OffByOne are plausible mistakes in the  *)
(* operator that follows; only the mutation runs use them.                 *)
(*                                                                         *)
(* A text is a sequence of tokens: what stands between two percent signs,  *)
(* or the text between two such.  A token is a record with a field k:      *)
(*   "text"            no variable, or a literal percent sign              *)
(*   "plain"           a variable that always has a value (time, state)    *)
(*   "matcher"         the name of the matcher                             *)
(*   "matchcur"        a value of the current match of the match group     *)
(*   "user"            a user or loop variable, or one that is not known   *)
(*   "path"            an output path, name says which                     *)
(*   "template_path"   the generated path of the template called name, of  *)
(*                     the first template if name is "0"                   *)
(*   "if"              an if block; ok says whether it parses              *)
(*   "for"             a for block; times is 0 if it does not parse        *)
(*   "unterminated"    a variable without its second percent sign          *)
(* Optional texts (rel, rootpath) are sequences of at most one text.       *)
(***************************************************************************)
EXTENDS Integers, SequencesExt

CONSTANTS
  MaxRecursion,   \* CATCIERGE_OUTPUT_MAX_RECURSION
  MaxEvents,      \* bound: how many events are on the stack at once
  Setups          \* settings, template files and commands to start with

Event == {"match_group_done", "state_change", "do_lockout", "do_unlock", "save_img",
          "match_done", "frame_obstructed", "rfid_detect", "rfid_match"}

ASSUME OutputAssumption == MaxRecursion \in Nat \ {0} /\ MaxEvents \in Nat

VARIABLES
  args,               \* grb->args, chosen at the start
  phase,              \* of the process: "load", "run", "failed", "destroyed",
                      \* "done" (the last unlock), "crashed"
  templates,          \* ctx->templates
  generated,          \* the templates whose generated_path is not NULL
  userVars,           \* the names in ctx->vars
  matching,           \* the match group has a current match
  recursion,          \* ctx->recursion
  recursion_error,    \* ctx->recursion_error
  no_relative_path,   \* ctx->no_relative_path
  template_idx,       \* ctx->template_idx + 1
  stack,              \* the calls in progress, the innermost last
  res,                \* what the last call returned: "none", "string", "null"
  done                \* files written and commands run for the current event

contextVars == <<recursion, recursion_error, no_relative_path>>
loadVars == <<args, templates>>
vars == <<loadVars, phase, generated, userVars, matching, contextVars, template_idx,
          stack, res, done>>

---------------------------------------------------------------------------
(* Loading the templates                                                   *)

\* catcierge_output_add_template: the settings before the first "%!" row.
DefaultSettings(input) ==
  [failed |-> FALSE, name |-> input.name, filename |-> input.filename, events |-> {},
   nofile |-> FALSE, rootpath |-> <<>>, required |-> {}, tmpl |-> input.tmpl]

\* catcierge_output_read_template_settings: one row; a repeated setting
\* replaces the earlier one, an unknown setting ends the reading.
ReadSetting(t, row) ==
  CASE t.failed -> t
    [] row.key = "event" -> [t EXCEPT !.events = row.value]
    [] row.key = "name" -> [t EXCEPT !.name = row.value]
    [] row.key = "filename" -> [t EXCEPT !.filename = row.value]
    [] row.key = "nofile" -> [t EXCEPT !.nofile = TRUE]
    [] row.key = "rootpath" -> [t EXCEPT !.rootpath = <<row.value>>]
    [] row.key = "required" -> [t EXCEPT !.required = row.value]
    [] row.key = "nop" -> t
    [] OTHER -> [t EXCEPT !.failed = TRUE]

ReadTemplateSettings(input) == FoldLeft(ReadSetting, DefaultSettings(input), input.rows)

\* catcierge_output_load_template: main ends if a template does not load.
LoadTemplate ==
  /\ phase = "load"
  /\ Len(templates) < Len(args.inputs)
  /\ LET t == ReadTemplateSettings(args.inputs[Len(templates) + 1])
     IN IF t.failed \/ ~ (t.required \subseteq userVars)
        THEN phase' = "failed" /\ UNCHANGED templates
        ELSE templates' = Append(templates, t) /\ UNCHANGED phase
  /\ UNCHANGED <<args, generated, userVars, matching, contextVars, template_idx, stack,
                 res, done>>

StartLoop ==
  /\ phase = "load"
  /\ Len(templates) = Len(args.inputs)
  /\ phase' = "run"
  /\ UNCHANGED <<loadVars, generated, userVars, matching, contextVars, template_idx,
                 stack, res, done>>

\* catcierge_output_template_registered_to_event
Registered(t, event) == t.events \cap {event, "all", "*"} # {}

---------------------------------------------------------------------------
(* Calls                                                                   *)

Top == Last(stack)

\* The innermost call is one of fn and runs, or has just been returned to.
Running(fn) == stack # <<>> /\ Top.fn = fn /\ res = "none"
Returned(fn) == stack # <<>> /\ Top.fn = fn /\ res # "none"

Return(r) == stack' = Front(stack) /\ res' = r

\* The counter is at its limit, or has leaked up to it: catcierge_output_generate
\* returns at once.  recursion' is the counter at the time of the call.
CallGenerate_Mutant(callers, text) ==
  /\ stack' = Append(callers, [fn |-> "generate", text |-> text])
  /\ res' = "none"
  /\ UNCHANGED recursion_error

CallGenerate_OffByOne(callers, text) ==
  IF recursion' > MaxRecursion
  THEN /\ stack' = callers
       /\ res' = "null"
       /\ recursion_error' = TRUE
  ELSE /\ stack' = Append(callers, [fn |-> "generate", text |-> text])
       /\ res' = "none"
       /\ UNCHANGED recursion_error

\* callers call catcierge_output_generate for text.
CallGenerate(callers, text) ==
  IF recursion' >= MaxRecursion
  THEN /\ stack' = callers
       /\ res' = "null"
       /\ recursion_error' = TRUE
  ELSE /\ stack' = Append(callers, [fn |-> "generate", text |-> text])
       /\ res' = "none"
       /\ UNCHANGED recursion_error

---------------------------------------------------------------------------
(* catcierge_output_generate                                               *)

Token == Head(Top.text)
AtToken(k) == Running("generate") /\ Top.text # <<>> /\ Token.k = k
NextToken == stack' = [stack EXCEPT ![Len(stack)].text = Tail(@)]

GenerateEnds ==
  /\ Running("generate")
  /\ Top.text = <<>>
  /\ Return("string")
  /\ UNCHANGED <<loadVars, phase, generated, userVars, matching, contextVars,
                 template_idx, done>>

GenerateText ==
  /\ AtToken("text")
  /\ NextToken
  /\ UNCHANGED <<loadVars, phase, generated, userVars, matching, contextVars,
                 template_idx, res, done>>

\* Found before the recursion counter is incremented.
UnterminatedVariable ==
  /\ AtToken("unterminated")
  /\ Return("null")
  /\ UNCHANGED <<loadVars, phase, generated, userVars, matching, contextVars,
                 template_idx, done>>

\* catcierge_output_translate: what has a value now.  Values of the program and
\* its settings always have, those of the current match while there is one.
HasProgramValue(token) == token.k \in {"plain", "matcher"}
HasMatchValue(token) == token.k = "matchcur" /\ matching

\* User variables are looked up last, a loop variable like any other.
HasUserValue(token) == token.k = "user" /\ token.name \in userVars

HasValue(token) == HasProgramValue(token) \/ HasMatchValue(token) \/ HasUserValue(token)

\* catcierge_get_template_path: the first template of that name, whether its
\* path was generated for this event or not.
HasTemplatePath(name) ==
  LET named == {i \in DOMAIN templates : name \in {"0", templates[i].name}}
  IN named # {} /\ Min(named) \in generated

IsPath(token) ==
  \/ token.k = "path" /\ token.name \in DOMAIN args.paths
  \/ token.k = "template_path" /\ HasTemplatePath(token.name)

\* The text of a path; the generated path of a template has no variables left.
PathText(token) == IF token.k = "path" THEN args.paths[token.name] ELSE <<>>

IsVariable(token) ==
  token.k \in {"plain", "matcher", "matchcur", "user", "path", "template_path"}

VariableFails_Mutant(counter) ==
  /\ recursion' = IF recursion_error THEN counter - 1 ELSE counter
  /\ UNCHANGED recursion_error
  /\ Return("null")

\* A variable without a value ends the text.  The counter, which has counted
\* the variable, is only taken back while a recursion error unwinds.
VariableFails(counter) ==
  /\ recursion' = IF recursion_error THEN counter - 1 ELSE counter
  /\ recursion_error' = (recursion_error /\ counter # 1)
  /\ Return("null")

PlainVariable ==
  /\ \/ Running("generate") /\ Top.text # <<>> /\ HasValue(Token)
     \/ AtToken("if") /\ Token.ok
  /\ (Token.k = "matcher" => phase = "run")
  /\ NextToken
  /\ UNCHANGED <<loadVars, phase, generated, userVars, matching, contextVars,
                 template_idx, res, done>>

\* grb->matcher is NULL after catcierge_matcher_destroy.
MatcherIsGone ==
  /\ AtToken("matcher")
  /\ phase = "done"
  /\ phase' = "crashed"
  /\ stack' = <<>>
  /\ UNCHANGED <<loadVars, generated, userVars, matching, contextVars, template_idx,
                 res, done>>

UnknownVariable ==
  /\ Running("generate")
  /\ Top.text # <<>>
  /\ IsVariable(Token) /\ ~ HasValue(Token) /\ ~ IsPath(Token)
  /\ VariableFails(recursion + 1)
  /\ UNCHANGED <<loadVars, phase, generated, userVars, matching, no_relative_path,
                 template_idx, done>>

\* A block that does not parse: the counter is never taken back.
BadBlock ==
  /\ \/ AtToken("if") /\ ~ Token.ok
     \/ AtToken("for") /\ (Token.times = 0 \/ Token.name \in userVars)
  /\ recursion' = recursion + 1
  /\ Return("null")
  /\ UNCHANGED <<loadVars, phase, generated, userVars, matching, recursion_error,
                 no_relative_path, template_idx, done>>

\* What a path is made relative to: what the variable says, else the root path
\* of the template that is being generated.
RelativeTo(token) ==
  IF token.rel # <<>> THEN token.rel
  ELSE IF template_idx > 0 THEN templates[template_idx].rootpath
  ELSE <<>>

IsRelative_Mutant(rel) == rel # <<>>
IsRelative(rel) == rel # <<>> /\ ~ no_relative_path

\* catcierge_get_path: generate the path it is relative to, if any and if that
\* is not what is being done already, else the path itself.
GetPath ==
  /\ Running("generate")
  /\ Top.text # <<>>
  /\ IsPath(Token)
  /\ recursion' = recursion + 1
  /\ LET rel == RelativeTo(Token)
         relative == IsRelative(rel)
     IN /\ no_relative_path' = (no_relative_path \/ relative)
        /\ CallGenerate(Append(stack, [fn |-> "get_path", relative |-> relative]),
                        IF relative THEN rel[1] ELSE PathText(Token))
  /\ UNCHANGED <<loadVars, phase, generated, userVars, matching, template_idx, done>>

\* The flag is reset whether the generation failed or not.
NoRelativePathAfter_Mutant(call) ==
  no_relative_path /\ (call.relative => res = "null")
NoRelativePathAfter(call) == no_relative_path /\ ~ call.relative

GetPathReturns ==
  /\ Returned("get_path")
  /\ no_relative_path' = NoRelativePathAfter(Top)
  /\ Return(res)
  /\ UNCHANGED <<loadVars, phase, generated, userVars, matching, recursion,
                 recursion_error, template_idx, done>>

\* catcierge_parse_for_loop: the loop variable is a user variable until the end.
ForLoop ==
  /\ AtToken("for")
  /\ Token.times > 0
  /\ Token.name \notin userVars
  /\ recursion' = recursion + 1
  /\ userVars' = userVars \cup {Token.name}
  /\ CallGenerate(Append(stack, [fn |-> "for_loop", name |-> Token.name,
                                 left |-> Token.times, body |-> Token.body]),
                  Token.body)
  /\ UNCHANGED <<loadVars, phase, generated, matching, no_relative_path, template_idx,
                 done>>

IterationsLeft_Mutant(left) == left
IterationsLeft(left) == left - 1

ForLoopContinues ==
  /\ Returned("for_loop")
  /\ res = "string"
  /\ Top.left > 1
  /\ UNCHANGED recursion
  /\ CallGenerate([stack EXCEPT ![Len(stack)].left = IterationsLeft(@)], Top.body)
  /\ UNCHANGED <<loadVars, phase, generated, userVars, matching, no_relative_path,
                 template_idx, done>>

\* The loop variable is deleted whether the generation failed or not.
UserVarsAfter_Mutant(call) == IF res = "null" THEN userVars ELSE userVars \ {call.name}
UserVarsAfter(call) == userVars \ {call.name}

ForLoopReturns ==
  /\ Returned("for_loop")
  /\ res = "null" \/ Top.left = 1
  /\ userVars' = UserVarsAfter(Top)
  /\ Return(res)
  /\ UNCHANGED <<loadVars, phase, generated, matching, contextVars, template_idx, done>>

CountBack_Mutant(token) == IF token.k = "for" THEN recursion ELSE recursion - 1
CountBack(token) == recursion - 1

\* The variable or the block at the token has been generated.
VariableReturns ==
  /\ Returned("generate")
  /\ \/ /\ res = "string"
        /\ recursion' = CountBack(Token)
        /\ NextToken
        /\ res' = "none"
        /\ UNCHANGED recursion_error
     \/ res = "null" /\ IsVariable(Token) /\ VariableFails(recursion)
     \/ /\ res = "null" /\ Token.k = "for"
        /\ Return("null")
        /\ UNCHANGED <<recursion, recursion_error>>
  /\ UNCHANGED <<loadVars, phase, generated, userVars, matching, no_relative_path,
                 template_idx, done>>

---------------------------------------------------------------------------
(* Events                                                                  *)

\* catcierge_trigger_event and catcierge_output_execute_list: first the
\* templates, then the commands.
EventCalls(event) ==
  << [fn |-> "execute_list", event |-> event, left |-> args.cmds[event]],
     [fn |-> "generate_templates", event |-> event, i |-> 0, stage |-> "next",
      failed |-> FALSE] >>

FreeGeneratedPaths_Mutant == UNCHANGED generated
FreeGeneratedPaths == generated' = {}

\* The state machine triggers an event.
TriggerEvent(event) ==
  /\ phase = "run"
  /\ stack = <<>>
  /\ matching' \in BOOLEAN
  /\ stack' = EventCalls(event)
  /\ FreeGeneratedPaths
  /\ done' = {}
  /\ UNCHANGED <<loadVars, phase, userVars, contextVars, template_idx, res>>

\* How many calls of fn are in progress.
Calls(fn) == Cardinality({i \in DOMAIN stack : stack[i].fn = fn})

\* A handler of SIGUSR1 or SIGUSR2 triggers an event in the middle of another.
SignalEvent(event) ==
  /\ args.signals
  /\ phase = "run"
  /\ stack # <<>> /\ res = "none"
  /\ Calls("execute_list") < MaxEvents
  /\ stack' = stack \o EventCalls(event)
  /\ FreeGeneratedPaths
  /\ UNCHANGED <<loadVars, phase, userVars, matching, contextVars, template_idx, res,
                 done>>

\* catcierge_process_match_result and catcierge_save_obstruct_image generate
\* the path of an image; they go on whatever comes of it.
GenerateImagePath(name) ==
  /\ phase = "run"
  /\ stack = <<>>
  /\ matching' \in BOOLEAN
  /\ UNCHANGED recursion
  /\ CallGenerate(<<[fn |-> "image_path"]>>, args.paths[name])
  /\ UNCHANGED <<loadVars, phase, generated, userVars, no_relative_path, template_idx,
                 done>>

ImagePathReturns ==
  /\ Returned("image_path")
  /\ Return("none")
  /\ UNCHANGED <<loadVars, phase, generated, userVars, matching, contextVars,
                 template_idx, done>>

\* catcierge_output_generate_templates: the loop over the templates.
Remaining(call) ==
  {i \in DOMAIN templates : i > call.i /\ Registered(templates[i], call.event)}

NextTemplate ==
  /\ Running("generate_templates")
  /\ Top.stage = "next"
  /\ Remaining(Top) # {}
  /\ UNCHANGED recursion
  /\ LET i == Min(Remaining(Top))
     IN /\ template_idx' = i
        /\ CallGenerate([stack EXCEPT ![Len(stack)] = [@ EXCEPT !.i = i, !.stage = "path"]],
                        args.paths["template_output_path"])
  /\ UNCHANGED <<loadVars, phase, generated, userVars, matching, no_relative_path, done>>

\* If a template failed, the commands are not run.
TemplatesEnd_Mutant(callers, failed) == stack' = callers
TemplatesEnd(callers, failed) == stack' = IF failed THEN Front(callers) ELSE callers

GenerateTemplatesEnds ==
  /\ Running("generate_templates")
  /\ Top.stage = "next"
  /\ Remaining(Top) = {}
  /\ template_idx' = 0
  /\ TemplatesEnd(Front(stack), Top.failed)
  /\ UNCHANGED <<loadVars, phase, generated, userVars, matching, contextVars, res, done>>

\* What follows when a text of the template has been generated: the file name
\* after the output path, the contents after the file name.
TemplateContinues ==
  /\ Returned("generate_templates")
  /\ res = "string"
  /\ Top.stage \in {"path", "filename"}
  /\ UNCHANGED recursion
  /\ LET t == templates[Top.i]
     IN IF Top.stage = "path"
        THEN /\ CallGenerate([stack EXCEPT ![Len(stack)].stage = "filename"], t.filename)
             /\ UNCHANGED generated
        ELSE /\ CallGenerate([stack EXCEPT ![Len(stack)].stage = "contents"], t.tmpl)
             /\ generated' = generated \cup {Top.i}
  /\ UNCHANGED <<loadVars, phase, userVars, matching, no_relative_path, template_idx,
                 done>>

TemplateFails ==
  /\ stack' = [stack EXCEPT ![Len(stack)] = [@ EXCEPT !.stage = "next", !.failed = TRUE]]
  /\ UNCHANGED done

\* The file is written, unless it cannot be opened or is not wanted.
TemplateReturns ==
  /\ Returned("generate_templates")
  /\ \/ res = "null" /\ TemplateFails
     \/ /\ res = "string" /\ Top.stage = "contents"
        /\ \/ /\ done' = done \cup {[what |-> "template", event |-> Top.event, i |-> Top.i]}
              /\ stack' = [stack EXCEPT ![Len(stack)].stage = "next"]
           \/ ~ templates[Top.i].nofile /\ TemplateFails
  /\ res' = "none"
  /\ UNCHANGED <<loadVars, phase, generated, userVars, matching, contextVars,
                 template_idx>>

\* catcierge_output_execute: a command that cannot be generated is left out.
ExecuteCommand ==
  /\ Running("execute_list")
  /\ Top.left # <<>>
  /\ UNCHANGED recursion
  /\ CallGenerate(stack, Head(Top.left))
  /\ UNCHANGED <<loadVars, phase, generated, userVars, matching, no_relative_path,
                 template_idx, done>>

CommandReturns ==
  /\ Returned("execute_list")
  /\ stack' = [stack EXCEPT ![Len(stack)].left = Tail(@)]
  /\ res' = "none"
  /\ done' = IF res = "null" THEN done
             ELSE done \cup {[what |-> "command", event |-> Top.event,
                              i |-> Len(args.cmds[Top.event]) - Len(Top.left) + 1]}
  /\ UNCHANGED <<loadVars, phase, generated, userVars, matching, contextVars,
                 template_idx>>

ExecuteListEnds ==
  /\ Running("execute_list")
  /\ Top.left = <<>>
  /\ Return("none")
  /\ UNCHANGED <<loadVars, phase, generated, userVars, matching, contextVars,
                 template_idx, done>>

---------------------------------------------------------------------------
(* The end of main, and the specification                                  *)

\* catcierge_output_destroy, once the loop has ended.
OutputDestroy ==
  /\ phase = "run"
  /\ stack = <<>>
  /\ phase' = "destroyed"
  /\ templates' = <<>>
  /\ generated' = {}
  /\ userVars' = {}
  /\ UNCHANGED <<args, matching, contextVars, template_idx, stack, res, done>>

\* catcierge_grabber_destroy then unlocks the door.
UnlockAtExit ==
  /\ phase = "destroyed"
  /\ phase' = "done"
  /\ stack' = EventCalls("do_unlock")
  /\ FreeGeneratedPaths
  /\ done' = {}
  /\ UNCHANGED <<loadVars, userVars, matching, contextVars, template_idx, res>>

Init ==
  /\ args \in Setups
  /\ phase = "load"
  /\ templates = <<>>
  /\ generated = {}
  /\ userVars = args.user_vars
  /\ matching = FALSE
  /\ recursion = 0
  /\ recursion_error = FALSE
  /\ no_relative_path = FALSE
  /\ template_idx = 0
  /\ stack = <<>>
  /\ res = "none"
  /\ done = {}

Generate ==
  \/ GenerateEnds \/ GenerateText \/ UnterminatedVariable
  \/ PlainVariable \/ MatcherIsGone \/ UnknownVariable \/ BadBlock
  \/ GetPath \/ GetPathReturns
  \/ ForLoop \/ ForLoopContinues \/ ForLoopReturns
  \/ VariableReturns

Continue ==
  \/ Generate
  \/ NextTemplate \/ TemplateContinues \/ TemplateReturns \/ GenerateTemplatesEnds
  \/ ExecuteCommand \/ CommandReturns \/ ExecuteListEnds
  \/ ImagePathReturns

Next ==
  \/ LoadTemplate
  \/ StartLoop
  \/ \E event \in DOMAIN args.cmds : TriggerEvent(event)
  \/ \E event \in {"do_lockout", "do_unlock", "state_change"} : SignalEvent(event)
  \/ \E name \in {"match_output_path", "obstruct_output_path"} : GenerateImagePath(name)
  \/ Continue
  \/ OutputDestroy
  \/ UnlockAtExit

Spec == Init /\ [][Next]_vars

\* A call that has been made goes on.
FairSpec == Spec /\ WF_vars(Continue)

---------------------------------------------------------------------------
(* Properties                                                              *)

Idle == stack = <<>>

\* How many handlers may be in progress at once.
Interrupts == IF args.signals THEN MaxEvents ELSE 0

\* However texts refer to each other, and whatever fails, the counter stays at or
\* below its limit and catcierge_output_generate nests at most that deep, and one
\* level more for each handler that interrupts it: the C stack is bounded.  A path
\* is made relative to another one only at the outermost level
\* (catcierge_get_path), in the same or in another event.
NestingBounded ==
  /\ recursion \in 0..(MaxRecursion + Interrupts)
  /\ Calls("generate") <= MaxRecursion + Interrupts
  /\ Cardinality({i \in DOMAIN stack : stack[i].fn = "get_path" /\ stack[i].relative}) <= 1

\* Between two events nothing is left of the last one, whether it failed or was
\* interrupted: the relative path flag is off, the loop variables are gone, the
\* user variables are those given at the start, no template is current; and, if
\* no handler fails in the middle of a text, a recursion error does not outlive
\* the recursion: the flag that makes the unwinding take the counter back is off
\* when the counter is back at zero.
IdleIsClean ==
  Idle =>
    /\ phase \in {"load", "run"} =>
         ~ no_relative_path /\ userVars = args.user_vars /\ template_idx = 0
    /\ ~ args.signals /\ recursion_error => recursion > 0

\* A generated path is one of the event at hand (generate_templates frees those
\* of the last event), so no command is given the file of an earlier event.
PathsAreOfThisEvent ==
  ~ args.signals =>
    \A n \in DOMAIN stack : \A i \in generated :
      stack[n].fn \in {"execute_list", "generate_templates"} =>
        Registered(templates[i], stack[n].event)

\* A command runs only after every template of its event was generated
\* (catcierge_output_execute_list), in an event that interrupts another too.
CommandsFollowTemplates ==
  \A d \in done : \A i \in DOMAIN templates :
    d.what = "command" /\ Registered(templates[i], d.event) =>
      [what |-> "template", event |-> d.event, i |-> i] \in done

\* The variables being generated: each of them is counted once.
Pending ==
  Calls("get_path") + Calls("for_loop")
    + (IF stack # <<>> /\ Top.fn = "generate" /\ res # "none" THEN 1 ELSE 0)

\* The recursion counter counts the variables being generated, and what it
\* counts too many it got from a text that failed (catcierge_output_generate):
\* a text without an error costs nothing, unless the process dies in it.
LeaksOnlyOnFailure ==
  [][recursion' - Pending' > recursion - Pending =>
       res' = "null" \/ phase' = "crashed"]_vars

\* Every event and every image path comes to an end, even with texts that refer
\* to each other, so that the main loop goes on (catcierge_trigger_event).
EventEnds == ~ args.signals /\ stack # <<>> ~> stack = <<>>

\* "Max output template recursion level reached" is said of texts that nest that
\* deep (catcierge_output.c:1941); a counter that leaks says it of any text.
LimitMeansNesting ==
  [][~ recursion_error /\ recursion_error' => Calls("generate") >= MaxRecursion]_vars

\* The last unlock runs its commands as the ones before do ("Command to run when
\* the do_unlock event is triggered", catcierge_args.c:526): a command that needs
\* no template and only user variables is run.
UnlockCommandAtExit ==
  phase = "done" /\ Idle =>
    \A i \in DOMAIN args.cmds["do_unlock"] :
      (\A n \in DOMAIN args.cmds["do_unlock"][i] :
         LET token == args.cmds["do_unlock"][i][n]
         IN token.k = "user" /\ token.name \in args.user_vars)
      => [what |-> "command", event |-> "do_unlock", i |-> i] \in done
=============================================================================
