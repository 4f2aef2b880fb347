---------------------------- MODULE LanguageSession ---------------------------
(***************************************************************************)
(* The editor (editors/vscode/extension.js) and the language server        *)
(* (lib/lsp/LanguageServer.cpp).  Every edit is sent at once with          *)
(* skipAnalyze; 250 ms after the last one a second message asks for the    *)
(* analysis.  The server handles one message at a time and analyses a      *)
(* document against the texts of the open documents, else the files.  What *)
(* an analysis finds is a function of the texts it read.                   *)
(***************************************************************************)
EXTENDS Integers, Sequences, FiniteSets, SequencesExt

CONSTANTS
    Documents, Texts,
    NoText,         \* of a document that is not open, and of a missing file
    ImportsOf,      \* the documents a text imports
    Libraries,      \* the documents that isLibraryFile knows: all analyses read them
    FirstFile,      \* the files at the start, NoText where there is none
    Habits,         \* "unsaved": tabs are closed with unsaved edits; "hasty": within
                    \* 250 ms of an edit
    MaxEvents,      \* bound: edits and crashes together
    MaxTabs, MaxQueue   \* bounds: tabs opened, messages under way

\* Holds of the constants (assumed where they get their values)
SessionAssumption ==
    /\ IsFiniteSet(Documents) /\ NoText \notin Texts /\ Libraries \subseteq Documents
    /\ ImportsOf \in [Texts -> SUBSET Documents]
    /\ FirstFile \in [Documents -> Texts \cup {NoText}]
    /\ Habits \subseteq {"unsaved", "hasty"}

VARIABLES
    file,       \* the text of each document on disk
    buffer,     \* its text in the editor
    timer,      \* changeTimers: "no", "set", or the last text of a tab closed meanwhile
    shown,      \* the analysis whose diagnostics the editor shows
    status,     \* the server: "down", "starting" until initialize is answered, "up"
    queue,      \* the messages on its stdin
    documents,  \* documents_
    analyses,   \* frontends_ with analyzedText_
    dependencies, \* dependencies_
    events, tabs        \* counted for the bounds

editor == <<file, buffer, timer, tabs>>
server == <<documents, analyses, dependencies>>
vars == <<editor, shown, status, queue, server, events>>

Open(texts) == {d \in Documents : texts[d] # NoText}
NoAnalysis == [text |-> NoText, read |-> [d \in {} |-> NoText]]
-------------------------------------------------------------------------------
\* Frontend::readFile: the overlay hides the file.
World(texts) == [d \in Documents |-> IF texts[d] # NoText THEN texts[d] ELSE file[d]]

\* An import finds its file on disk before it is read (resolveImportFile).
OnDisk(texts) == [d \in Documents |-> IF file[d] = NoText THEN NoText ELSE World(texts)[d]]

\* What loadImports reads for a text: the least set of documents that holds the imports
\* of the text and of its members
Imports(text) == IF text = NoText THEN {} ELSE ImportsOf[text] \cup Libraries
Closed(world, text, s) == Imports(text) \subseteq s /\ \A d \in s : Imports(world[d]) \subseteq s
Loaded(world, text) ==
    LET sets == {s \in SUBSET Documents : Closed(world, text, s)}
    IN  {d \in Documents : \A s \in sets : d \in s}
Read(texts, d) == LET world == OnDisk(texts) IN [e \in Loaded(world, texts[d]) |-> world[e]]

\* analyzeDocument
Analysis(texts, d) == [text |-> texts[d], read |-> Read(texts, d)]
Found(analysis) == {e \in DOMAIN analysis.read : analysis.read[e] # NoText}

\* The documents D are analysed, and published unless a request asked for it.
Analysed(texts, D) ==
    /\ documents' = texts
    /\ analyses' = [d \in Documents |-> IF d \in D THEN Analysis(texts, d) ELSE
                                        IF texts[d] = NoText THEN NoAnalysis ELSE analyses[d]]
    /\ dependencies' = [d \in Documents |-> IF d \in D THEN Found(analyses'[d])
                                            ELSE dependencies[d]]
Published(D) == shown' = [d \in Documents |-> IF d \in D THEN analyses'[d] ELSE shown[d]]

\* Mutant: the change is not passed on to the documents that import it.
AffectedAlone(texts, d) == {d}
\* analyzeAffected; refreshOpenDocuments for a library
Affected(texts, d) ==
    IF d \in Libraries THEN Open(texts)
    ELSE {d} \cup {e \in Open(texts) : d \in dependencies[e]}
-------------------------------------------------------------------------------
\* The client's notify(): lost while there is no server.
Sent(messages) == queue' = IF status = "down" THEN queue ELSE queue \o messages
Message(kind, d, text) == [kind |-> kind, doc |-> d, text |-> text]
Room == Len(queue) < MaxQueue

OpenTab(d) ==
    /\ Room /\ tabs < MaxTabs /\ tabs' = tabs + 1
    /\ buffer[d] = NoText /\ file[d] # NoText
    /\ timer[d] # "no" => "hasty" \in Habits
    /\ buffer' = [buffer EXCEPT ![d] = file[d]]
    /\ Sent(<<Message("open", d, file[d])>>)
    /\ UNCHANGED <<file, timer, shown, status, server, events>>

\* A new file, opened as it is saved for the first time
Create(d, text) ==
    /\ Room /\ file[d] = NoText /\ tabs < MaxTabs /\ tabs' = tabs + 1
    /\ file' = [file EXCEPT ![d] = text] /\ buffer' = [buffer EXCEPT ![d] = text]
    /\ Sent(<<Message("open", d, text)>>)
    /\ UNCHANGED <<timer, shown, status, server, events>>

\* Mutant: only the message without the analysis.
EditUntimed(d, text) ==
    /\ Room /\ buffer[d] \notin {NoText, text} /\ events < MaxEvents /\ events' = events + 1
    /\ buffer' = [buffer EXCEPT ![d] = text]
    /\ Sent(<<Message("sync", d, text)>>)
    /\ UNCHANGED <<file, timer, tabs, shown, status, server>>
\* onDidChangeTextDocument, scheduleAnalyze
Edit(d, text) ==
    /\ Room /\ buffer[d] \notin {NoText, text} /\ events < MaxEvents /\ events' = events + 1
    /\ buffer' = [buffer EXCEPT ![d] = text] /\ timer' = [timer EXCEPT ![d] = "set"]
    /\ Sent(<<Message("sync", d, text)>>)
    /\ UNCHANGED <<file, tabs, shown, status, server>>

\* The timer of scheduleAnalyze sends what its document holds by now.
TimerFires(d) ==
    /\ timer[d] # "no" /\ timer' = [timer EXCEPT ![d] = "no"]
    /\ Sent(<<Message("change", d, IF timer[d] = "set" THEN buffer[d] ELSE timer[d])>>)
    /\ UNCHANGED <<file, buffer, tabs, shown, status, server, events>>

\* The extension sends no didSave; a watcher reports library files.
Save(d) ==
    /\ Room /\ buffer[d] \notin {NoText, file[d]} /\ file' = [file EXCEPT ![d] = buffer[d]]
    /\ Sent(IF d \in Libraries THEN <<Message("watched", d, NoText)>> ELSE <<>>)
    /\ UNCHANGED <<buffer, timer, tabs, shown, status, server, events>>

\* onDidCloseTextDocument: the timer stays.
CloseTab(d) ==
    /\ Room /\ buffer[d] # NoText
    /\ buffer[d] # file[d] => "unsaved" \in Habits
    /\ timer[d] # "no" => "hasty" \in Habits
    /\ timer' = [timer EXCEPT ![d] = IF @ = "set" THEN buffer[d] ELSE @]
    /\ buffer' = [buffer EXCEPT ![d] = NoText]
    /\ Sent(<<Message("close", d, NoText)>>)
    /\ UNCHANGED <<file, tabs, shown, status, server, events>>

\* A hover or the like, or a completion: the latter sends the text along.  Without a
\* server there is no question.
Ask(d, kind) ==
    /\ Room /\ status # "down" /\ buffer[d] # NoText /\ kind \in {"ask", "complete"}
    /\ \A i \in DOMAIN queue : queue[i].kind \notin {"ask", "complete"}   \* one at a time, and
    /\ status = "starting" => queue = <<>>   \* while it starts alone in the queue: bounds
    /\ Sent(IF kind = "ask" THEN <<Message("ask", d, buffer[d])>>
            ELSE <<Message("sync", d, buffer[d]), Message("complete", d, buffer[d])>>)
    /\ UNCHANGED <<editor, shown, status, server, events>>
-------------------------------------------------------------------------------
Crash ==
    /\ status # "down" /\ events < MaxEvents /\ events' = events + 1
    /\ status' = "down" /\ queue' = <<>>
    /\ documents' = [d \in Documents |-> NoText]
    /\ analyses' = [d \in Documents |-> NoAnalysis] /\ dependencies' = [d \in Documents |-> {}]
    /\ UNCHANGED <<editor, shown>>

\* The exit handler starts a new one after 500 ms.
Start == /\ status = "down" /\ status' = "starting"
         /\ UNCHANGED <<editor, shown, queue, server, events>>

\* initialize is answered: all documents are opened again.
Ready ==
    /\ status = "starting" /\ status' = "up"
    /\ \E order \in SetToSeqs(Open(buffer)) :
          queue' = queue \o [i \in DOMAIN order |-> Message("open", order[i], buffer[order[i]])]
    /\ UNCHANGED <<editor, shown, server, events>>
-------------------------------------------------------------------------------
Receives(kind) == status # "down" /\ queue # <<>> /\ Head(queue).kind = kind /\ queue' = Tail(queue)
              /\ UNCHANGED <<editor, status, events>>

\* handleDidOpen; handleDidChange without skipAnalyze
DidChange ==
    LET m == Head(queue)  texts == [documents EXCEPT ![m.doc] = m.text] IN
    /\ Receives("open") \/ Receives("change")
    /\ Analysed(texts, Affected(texts, m.doc)) /\ Published(Affected(texts, m.doc))

\* handleDidChange with skipAnalyze
DidSync ==
    /\ Receives("sync")
    /\ documents' = [documents EXCEPT ![Head(queue).doc] = Head(queue).text]
    /\ UNCHANGED <<analyses, dependencies, shown>>

\* handleDidClose: a library's file takes the place of its text everywhere.
DidClose ==
    LET m == Head(queue)  texts == [documents EXCEPT ![m.doc] = NoText]
        again == IF m.doc \in Libraries THEN Open(texts) ELSE {} IN
    /\ Receives("close") /\ Analysed(texts, again)
    /\ shown' = [d \in Documents |-> IF d = m.doc THEN NoAnalysis ELSE
                                     IF d \in again THEN Analysis(texts, d) ELSE shown[d]]

\* handleDidChangeWatchedFiles
DidChangeWatchedFiles ==
    /\ Receives("watched")
    /\ Analysed(documents, Open(documents)) /\ Published(Open(documents))

\* Mutant: a cached analysis answers whatever text it was made from.
FreshAlways(d) == analyses[d].text # NoText
Fresh(d) == analyses[d].text = documents[d]
\* freshFrontend for hover, tokens and the like; after a crash the server may not know
\* the text, and has no answer
Answer ==
    LET d == Head(queue).doc IN
    /\ Receives("ask") /\ UNCHANGED shown
    /\ IF documents[d] = NoText \/ Fresh(d) THEN UNCHANGED server ELSE Analysed(documents, {d})

\* handleCompletion analyses whether or not the text is new; in an import statement it
\* lists what may be imported there, from the text alone.
AnswerCompletion ==
    /\ Receives("complete")
    /\ \/ Analysed(documents, {Head(queue).doc}) /\ Published({Head(queue).doc})
       \/ UNCHANGED <<shown, server>>

Serve == DidChange \/ DidSync \/ DidClose \/ DidChangeWatchedFiles \/ Answer \/ AnswerCompletion
-------------------------------------------------------------------------------
Init == /\ file = FirstFile /\ buffer = [d \in Documents |-> NoText]
        /\ timer = [d \in Documents |-> "no"] /\ shown = [d \in Documents |-> NoAnalysis]
        /\ status = "up" /\ queue = <<>> /\ documents = [d \in Documents |-> NoText]
        /\ analyses = [d \in Documents |-> NoAnalysis] /\ dependencies = [d \in Documents |-> {}]
        /\ events = 0 /\ tabs = 0

Next == \/ \E d \in Documents : \/ OpenTab(d) \/ TimerFires(d) \/ Save(d) \/ CloseTab(d)
                                \/ \E kind \in {"ask", "complete"} : Ask(d, kind)
                                \/ \E text \in Texts : Edit(d, text) \/ Create(d, text)
        \/ Crash \/ Start \/ Ready \/ Serve

\* Timers fire, the server works off its input and is started again.
Fairness == /\ WF_vars(Serve) /\ WF_vars(Start \/ Ready)
            /\ WF_vars(\E d \in Documents : TimerFires(d))
Spec == Init /\ [][Next]_vars /\ Fairness
-------------------------------------------------------------------------------
AnAnalysis(a) == a = NoAnalysis \/ /\ a.text \in Texts
                                   /\ DOMAIN a.read \subseteq Documents
                                   /\ \A d \in DOMAIN a.read : a.read[d] \in Texts \cup {NoText}
\* Types
TypeOK == /\ file \in [Documents -> Texts \cup {NoText}]
          /\ buffer \in [Documents -> Texts \cup {NoText}]
          /\ \A d \in Documents : timer[d] = "set" => buffer[d] # NoText
          /\ \A d \in Documents : AnAnalysis(shown[d]) /\ AnAnalysis(analyses[d])
          /\ documents \in [Documents -> Texts \cup {NoText}]
          /\ dependencies \in [Documents -> SUBSET Documents]

\* No message is on its way, no timer runs, and the server is up.
Settled == status = "up" /\ queue = <<>> /\ \A d \in Documents : timer[d] = "no"
\* A module reported missing leaves no dependency: the file is not noticed when
\* it appears, until the document that imports it is analysed again.
Missed(d) == \E e \in DOMAIN shown[d].read : shown[d].read[e] = NoText
Right(d) == Missed(d) \/ shown[d] = Analysis(buffer, d)

\* When all is quiet, the server has the editor's texts and the editor shows
\* for each tab what an analysis of the present texts would say, imports,
\* unsaved tabs and saved libraries included, also after a crash.
SettledIsRight ==
    Settled => /\ documents = buffer
               /\ \A d \in Open(buffer) : Right(d) /\ analyses[d] = shown[d]

\* An answer comes from an analysis of the text the editor held when it asked
\* (LanguageServer.cpp:1195-1199) or, to a completion, from that text itself, whatever was
\* typed since and whatever crashed.  Only a server that was asked before it was told the
\* document has no answer.
AnswersDescribeTheText ==
    [][\A kind \in {"ask", "complete"} : Receives(kind) =>
          LET d == Head(queue).doc  text == Head(queue).text
          IN \/ analyses'[d].text = text
             \/ kind = "complete" /\ documents[d] = text
             \/ kind = "ask" /\ documents[d] = NoText]_vars

\* What is shown becomes right, whatever crashed or was overtaken.
ShownEventually == []<>(\A d \in Open(buffer) : Right(d))

\* Nothing is shown for a closed tab.
ClosedShowsNothing ==
    Settled => \A d \in Documents : buffer[d] = NoText => shown[d] = NoAnalysis
===============================================================================
