---------------------------- MODULE CorpusFiles ----------------------------
(***************************************************************************)
(* The files of the corpus: capture_thematic_sheets copies the ministry's  *)
(* pages to raw HTML, normalize_thematic_sheets turns the sheets among     *)
(* them into JSON and verifies the result (verify_corpus_coverage).  One   *)
(* script runs at a time; each may stop anywhere.  The site may change at  *)
(* any time.                                                               *)
(*                                                                         *)
(* A page is whether it has content blocks, their text without captions    *)
(* and credits, the pages it links to, and its headings twice: those that  *)
(* normalization takes, after it stripped the captions, and those that     *)
(* verification sees, before.                                              *)
(***************************************************************************)
EXTENDS Naturals, FiniteSets

CONSTANTS
    Urls,           \* in scope
    Paths,          \* directories of the raw files, numbered in their sorted order
    PathOf,         \* where a URL is kept: without its query, its trailing slash, decoded
    Kind,           \* of each path: index, root (of a theme), sheet or unknown theme
    FileOf,         \* the JSON file of a sheet, by theme and slug
    Pages,          \* what a URL may serve
    Chars,          \* the number of characters of each text
    NoPage,
    NoFile,
    InitialSites,
    MaxPublishes    \* bounds the changes of the site

VARIABLES
    site,       \* what each URL serves
    sitemap,    \* the URLs its sitemap lists
    published,  \* how often the site changed
    raw,        \* index.html in each path
    corpus,     \* the JSON files
    script,     \* the script that runs, and the URLs or paths it still has to treat
    urls,       \* of the last capture: what the sitemap listed
    fetched,    \* the pages it got, by URL
    failed,     \* the URLs it did not get
    missing,    \* the links it found that the sitemap does not list
    issues      \* of the last verification: the paths it complains about

capture == <<urls, fetched, failed, missing>>
vars == <<site, sitemap, published, raw, corpus, script, capture, issues>>

Sheets == {path \in Paths : Kind[path] = "sheet"}
Files == {FileOf[path] : path \in Sheets}
Json == [source : Sheets, headings : {page.headings : page \in Pages},
         text : {page.text : page \in Pages}]

NoPages == [url \in {} |-> NoPage]
Rest == [phase |-> "rest", todo |-> {}]
Resting == script.phase = "rest"

Init ==
    /\ site \in InitialSites
    /\ sitemap = {url \in Urls : site[url] # NoPage}
    /\ published = 0
    /\ raw = [path \in Paths |-> NoPage]
    /\ corpus = [file \in Files |-> NoFile]
    /\ script = Rest
    /\ urls = {} /\ fetched = NoPages /\ failed = {} /\ missing = {}
    /\ issues = {}

\* The ministry puts a page up, changes it or takes it down, with its sitemap or not.
Publish(url, page) ==
    /\ published < MaxPublishes
    /\ published' = published + 1
    /\ site' = [site EXCEPT ![url] = page]
    /\ \/ UNCHANGED sitemap
       \/ sitemap' = IF page = NoPage THEN sitemap \ {url} ELSE sitemap \cup {url}
    /\ UNCHANGED <<raw, corpus, script, capture, issues>>

-----------------------------------------------------------------------------
\* capture

StartCapture ==
    /\ Resting
    /\ script' = [phase |-> "fetch", todo |-> sitemap]
    /\ urls' = sitemap /\ fetched' = NoPages /\ failed' = {} /\ missing' = {}
    /\ UNCHANGED <<site, sitemap, published, raw, corpus, issues>>

Treated(item) == [script EXCEPT !.todo = @ \ {item}]

\* Mutant: a file that exists is left alone.
WrittenOnce(url) == [raw EXCEPT ![PathOf[url]] = IF @ = NoPage THEN site[url] ELSE @]

\* _write_if_changed leaves the page in the file of its URL; two URLs may have one file.
Written(url) == [raw EXCEPT ![PathOf[url]] = site[url]]

FetchPage(url) ==
    /\ script.phase = "fetch"
    /\ url \in script.todo
    /\ site[url] # NoPage
    /\ raw' = Written(url)
    /\ fetched' = [other \in DOMAIN fetched \cup {url} |->
                      IF other = url THEN site[url] ELSE fetched[other]]
    /\ script' = Treated(url)
    /\ UNCHANGED <<site, sitemap, published, corpus, urls, failed, missing, issues>>

\* Mutant: a URL that fails is skipped without a word.
Skipped(url) == failed

Failed(url) == failed \cup {url}

\* An HTTP error, a timeout: the file stays as it was.
FetchFails(url) ==
    /\ script.phase = "fetch"
    /\ url \in script.todo
    /\ failed' = Failed(url)
    /\ script' = Treated(url)
    /\ UNCHANGED <<site, sitemap, published, raw, corpus, urls, fetched, missing, issues>>

Discovered == UNION {fetched[url].links : url \in DOMAIN fetched}

\* Phase 2: the links that the sitemap lacks; no page is fetched for them.
CrossCheck ==
    /\ script.phase = "fetch"
    /\ script.todo = {}
    /\ missing' = Discovered \ urls
    /\ script' = Rest
    /\ UNCHANGED <<site, sitemap, published, raw, corpus, urls, fetched, failed, issues>>

-----------------------------------------------------------------------------
\* normalize_all, then verify_all

Captured == {path \in Paths : raw[path] # NoPage}
Leaf(path) == path \in Captured /\ raw[path].leaf

\* A directory of an unknown theme raises before anything is written.
StartNormalize ==
    /\ Resting
    /\ \A path \in Captured : Kind[path] # "unknown"
    /\ script' = [phase |-> "normalize", todo |-> Captured]
    /\ UNCHANGED <<site, sitemap, published, raw, corpus, capture, issues>>

JsonOf(path) == [source |-> path, headings |-> raw[path].headings, text |-> raw[path].text]

\* Mutant: a JSON file that exists is not written again.
OnlyNew(path) == [corpus EXCEPT ![FileOf[path]] = IF @ = NoFile THEN JsonOf(path) ELSE @]

Dumped(path) == [corpus EXCEPT ![FileOf[path]] = JsonOf(path)]

NextPath(path) ==
    /\ script.phase = "normalize"
    /\ path \in script.todo
    /\ \A other \in script.todo : path <= other

\* Two sheets may have one file: the later one wins.
WriteSheet(path) ==
    /\ NextPath(path)
    /\ Leaf(path) /\ path \in Sheets
    /\ corpus' = Dumped(path)
    /\ script' = Treated(path)
    /\ UNCHANGED <<site, sitemap, published, raw, capture, issues>>

\* A listing, the index, or the root of a theme.  Nothing deletes a file.
SkipPage(path) ==
    /\ NextPath(path)
    /\ ~(Leaf(path) /\ path \in Sheets)
    /\ script' = Treated(path)
    /\ UNCHANGED <<site, sitemap, published, raw, corpus, capture, issues>>

\* Heading gaps and text shortfalls against the JSON file of a sheet.  The JSON holds
\* what the page has without its captions, the raw page is searched with them.
Covered(path) ==
    LET json == corpus[FileOf[path]]
    IN  /\ json # NoFile
        /\ raw[path].seen \subseteq json.headings
        /\ 100 * Chars[json.text] >= 85 * Chars[raw[path].text]

Issues == {path \in Captured : Leaf(path) /\ (path \in Sheets => ~Covered(path))}

\* At the end of a normalization, or by itself.
Verify ==
    /\ Resting \/ (script.phase = "normalize" /\ script.todo = {})
    /\ issues' = Issues
    /\ script' = Rest
    /\ UNCHANGED <<site, sitemap, published, raw, corpus, capture>>

StopScript ==
    /\ ~Resting
    /\ script' = Rest
    /\ UNCHANGED <<site, sitemap, published, raw, corpus, capture, issues>>

Script ==
    \/ StartCapture
    \/ \E url \in Urls : FetchPage(url) \/ FetchFails(url)
    \/ CrossCheck
    \/ StartNormalize
    \/ \E path \in Paths : WriteSheet(path) \/ SkipPage(path)
    \/ Verify
    \/ StopScript

Next == Script \/ \E url \in Urls, page \in Pages \cup {NoPage} : Publish(url, page)

Spec == Init /\ [][Next]_vars

-----------------------------------------------------------------------------

\* A URL of a capture is got or has failed, not both.
TypeOK ==
    /\ site \in [Urls -> Pages \cup {NoPage}]
    /\ sitemap \subseteq Urls
    /\ published \in 0..MaxPublishes
    /\ raw \in [Paths -> Pages \cup {NoPage}]
    /\ corpus \in [Files -> Json \cup {NoFile}]
    /\ script \in [phase : {"rest", "fetch", "normalize"}, todo : SUBSET (Urls \cup Paths)]
    /\ urls \subseteq Urls /\ missing \subseteq Urls /\ issues \subseteq Paths
    /\ DOMAIN fetched \subseteq urls /\ fetched \in [DOMAIN fetched -> Pages]
    /\ failed \subseteq urls \ DOMAIN fetched

\* For the proofs: a capture loses no URL of its sitemap, and the file of a URL it got
\* holds what it got for that URL or for another with the same file; a normalization
\* leaves what it has treated as the raw page has it, unless another captured sheet
\* has the same JSON file.
CaptureInv ==
    script.phase = "fetch" =>
        /\ urls = script.todo \cup DOMAIN fetched \cup failed
        /\ script.todo \cap (DOMAIN fetched \cup failed) = {}
        /\ \A url \in DOMAIN fetched :
              \E other \in DOMAIN fetched :
                  PathOf[other] = PathOf[url] /\ raw[PathOf[url]] = fetched[other]

Alone(path) ==
    \A other \in Sheets \ {path} : Leaf(other) => FileOf[other] # FileOf[path]

NormalizeInv ==
    script.phase = "normalize" =>
        /\ script.todo \subseteq Captured
        /\ \A path \in Sheets \ script.todo :
              Leaf(path) /\ Alone(path) => corpus[FileOf[path]] = JsonOf(path)

FilesInv == TypeOK /\ CaptureInv /\ NormalizeInv

\* A capture that ends accounts for every page that some page it got links to: it was
\* got, or is reported as failed, or as missing from the sitemap, also when the site
\* and its sitemap change meanwhile (README of the repository, "to catch
\* discrepancies in the actual structure vs the sitemap").
LinkedPagesAreAccountedFor ==
    [][CrossCheck => Discovered \subseteq DOMAIN fetched \cup failed \cup missing']_vars

\* What a normalization has just written passes verification, after whatever earlier
\* captures and interrupted normalizations left, unless the content stands outside the
\* sheets, the sheet shares its JSON file with another, or the verifier takes a heading
\* that normalization strips as part of a caption.
NormalizedCorpusVerifies ==
    [][Verify /\ ~Resting =>
          \A path \in issues' :
              \/ path \notin Sheets
              \/ ~Alone(path)
              \/ ~(raw[path].seen \subseteq raw[path].headings)]_vars
=============================================================================
