------------------------------ MODULE PageResolve ------------------------------
(***************************************************************************)
(* How a request is turned into a page (pageresolve.c): the host, the page *)
(* the path leads to, and the elements the page is rendered with, its own  *)
(* ones, those it inherits and those of its styles.  The first rendering   *)
(* of a page notes in the table `cache' which elements it chose, later     *)
(* ones join that table with the elements, and whoever changes a site      *)
(* empties it (mgd_cache_touch).                                           *)
(*                                                                         *)
(* Requests and changes interleave, a statement a step.  Hosts, pages and  *)
(* styles do not change and belong to one sitegroup; the elements do, and  *)
(* every element has content in the default language, 0.                   *)
(***************************************************************************)
EXTENDS Integers, Sequences, FiniteSets, SequencesExt

CONSTANTS
  Client,       \* processes that render pages
  Hosts,        \* host records: id, name, port, prefix, online, page, style
  Page, Style, Name, HostName, Port,
  PageUp(_), PageName(_), PageStyle(_), PageActive(_), StyleUp(_),
  PageElement, StyleElement,      \* ids of the two kinds of elements
  ElementName(_), Translated(_),  \* their names; have they content in language 1?
  Place(_),     \* the page or style an element is in at first
  Lang,         \* languages asked for: 0 and maybe 1
  Nowhere,      \* no page, no style
  Ready,
  MaxChanges, MaxLoads,  \* bounds: changes of elements, renderings
  MayCrash, MayRefuse      \* may a process die, a row of the cache be refused?

Element == PageElement \cup StyleElement

ASSUME SiteAssumption ==
  /\ Lang \subseteq {0, 1} /\ {MaxChanges, MaxLoads} \subseteq Nat /\ {MayCrash, MayRefuse} \subseteq BOOLEAN
  /\ Nowhere \notin Page \cup Style /\ PageElement \cap StyleElement = {}
  /\ \A p \in Page : PageUp(p) \in Page \cup {Nowhere} /\ PageStyle(p) \in Style \cup {Nowhere}
  /\ \A s \in Style : StyleUp(s) \in Style \cup {Nowhere}
  /\ \A e \in Element : Place(e) \in (IF e \in PageElement THEN Page ELSE Style)
  /\ \A e, f \in Element : Place(e) = Place(f) /\ ElementName(e) = ElementName(f) => e = f

(* Hosts have an id each. *)
ASSUME HostAssumption ==
  /\ \A h \in Hosts : h.page \in Page /\ h.style \in Style \cup {Nowhere} /\ h.prefix \in Seq(Name)
  /\ \A h, k \in Hosts : h.id = k.id => h = k

(* Nothing hangs below itself, or reading the pages above a page and the styles
   above a style would never end. *)
ASSUME TreesAssumption ==
  /\ IsFiniteSet(Page) /\ IsFiniteSet(Style)
  /\ \E depth \in [Page -> 0..Cardinality(Page)] :
       \A p \in Page : PageUp(p) # Nowhere => depth[p] = depth[PageUp(p)] + 1
  /\ \E depth \in [Style -> 0..Cardinality(Style)] :
       \A s \in Style : StyleUp(s) # Nowhere => depth[s] = depth[StyleUp(s)] + 1

VARIABLES
  element,    \* the element tables: id -> [at, inherit, live]
  cache,      \* the table cache: rows [page, host, lang, id, style]
  rendering,  \* the rendering each client is at
  count,      \* changes and renderings so far
  suspect     \* history: pages whose rows need not be those of one rendering

pageVars == <<element, cache, rendering, count, suspect>>

-----------------------------------------------------------------------------
(* mgd_find_host: the hosts of that name, of that port or of any, whose prefix
   the path begins with; the longest prefix first, then the port itself. *)
Matching(name, port, path) ==
  {h \in Hosts : /\ h.name = name /\ h.online /\ h.port \in {0, port}
                   /\ IsPrefix(h.prefix, path)}
Before(h, k) ==
  Len(h.prefix) > Len(k.prefix) \/ (Len(h.prefix) = Len(k.prefix) /\ h.port >= k.port)
FindHost(name, port, path) ==
  {h \in Matching(name, port, path) : \A k \in Matching(name, port, path) : Before(h, k)}

(* Mutant: the style of the page found, not the last one set on the way. *)
StepForgetting(at, dir) ==
  LET below == {p \in Page : PageUp(p) = at.page /\ PageName(p) = dir}
      p == CHOOSE q \in below : TRUE
  IN  IF at.args # <<>> \/ below = {} THEN [at EXCEPT !.args = Append(@, dir)]
      ELSE [at EXCEPT !.page = p, !.path = Append(@, p), !.style = PageStyle(p)]

(* mgd_parse_uri, one component of the path: the page of that name below, whose
   style counts if it has one; the first without a page and all behind it are
   arguments. *)
Step(at, dir) ==
  LET below == {p \in Page : PageUp(p) = at.page /\ PageName(p) = dir}
      p == CHOOSE q \in below : TRUE
  IN  IF at.args # <<>> \/ below = {} THEN [at EXCEPT !.args = Append(@, dir)]
      ELSE [at EXCEPT !.page = p, !.path = Append(@, p),
                      !.style = IF PageStyle(p) # Nowhere THEN PageStyle(p) ELSE @]

(* Arguments are for active pages only. *)
ParseUri(h, dirs) ==
  LET root == [page |-> h.page, path |-> <<h.page>>, args |-> <<>>,
               style |-> IF PageStyle(h.page) # Nowhere THEN PageStyle(h.page) ELSE h.style]
      after[n \in 0..Len(dirs)] == IF n = 0 THEN root ELSE Step(after[n - 1], dirs[n])
      end == after[Len(dirs)]
  IN  [end |-> end, found |-> end.args = <<>> \/ PageActive(end.page)]

-----------------------------------------------------------------------------
(* The pages above a page, the next one first; the styles above a style. *)
Above[p \in Page] ==
  IF PageUp(p) = Nowhere THEN <<>> ELSE <<PageUp(p)>> \o Above[PageUp(p)]
Styles[s \in Style] ==
  IF StyleUp(s) = Nowhere THEN <<s>> ELSE <<s>> \o Styles[StyleUp(s)]

(* Where mgd_load_styles looks, in this order: the page, the path above it for
   elements to be inherited (up to the root, above the page of the host too),
   and the styles. *)
Levels(p, s) ==
  LET styles == IF s = Nowhere THEN <<>> ELSE Styles[s]
  IN  <<[from |-> p, inherited |-> FALSE]>>
      \o [i \in 1..Len(Above[p]) |-> [from |-> Above[p][i], inherited |-> TRUE]]
      \o [i \in 1..Len(styles) |-> [from |-> styles[i], inherited |-> FALSE]]

(* The SELECTs: every level in the language asked for, then in the default. *)
Selects(p, s, lang) ==
  LET ls == Levels(p, s)
  IN  IF lang = 0 THEN [k \in 1..Len(ls) |-> [level |-> ls[k], lang |-> 0]]
      ELSE [k \in 1..(2 * Len(ls)) |-> [level |-> ls[(k + 1) \div 2], lang |-> (k % 2) * lang]]

Has(e, lang) == lang = 0 \/ Translated(e)
Rows(tab, sel) ==
  {e \in Element : /\ tab[e].live /\ tab[e].at = sel.level.from
                   /\ sel.level.inherited => tab[e].inherit
                   /\ Has(e, sel.lang)}

(* The SELECTs on a page with rows in the cache: style elements and page
   elements, in the default language and in the other; a later element
   replaces one of its name. *)
CachedSelects(lang) ==
  LET of(k) == IF lang = 0 THEN <<[kind |-> k, lang |-> 0]>>
               ELSE <<[kind |-> k, lang |-> 0], [kind |-> k, lang |-> lang]>>
  IN  of("style") \o of("page")

CachedRows(tab, c, p, sel) ==
  {e \in IF sel.kind = "style" THEN StyleElement ELSE PageElement :
     /\ tab[e].live /\ Has(e, sel.lang)
     /\ \E r \in c : r.page = p /\ r.id = e /\ (e \in StyleElement => r.style = tab[e].at)}

-----------------------------------------------------------------------------
Level == [from : Page \cup Style, inherited : BOOLEAN]
Selection == [level : Level, lang : {0, 1}] \cup [kind : {"style", "page"}, lang : {0, 1}]

(* A rendering: `out' is what it has found, `add' what the cache is still to be
   told of it, `level' where that was found, `todo' the SELECTs to come. *)
Rendering ==
  [at : {"select", "add", "cached"}, page : Page, host : {h.id : h \in Hosts}, lang : Lang,
   out : SUBSET Element, add : SUBSET Element, level : Page \cup Style \cup {Nowhere},
   todo : Seq(Selection)]

ASSUME ReadyAssumption == Ready \notin Rendering

PageInit ==
  /\ element = [e \in Element |-> [at |-> Place(e), inherit |-> TRUE, live |-> TRUE]]
  /\ cache = {}
  /\ rendering = [c \in Client |-> Ready]
  /\ count = [changes |-> 0, loads |-> 0]
  /\ suspect = {}

Goto(c, p) == rendering' = [rendering EXCEPT ![c] = p]
At(c, at) == rendering[c] # Ready /\ rendering[c].at = at

(* A request: host and page are found, and mgd_cache_is_current looks for one
   row of the page in the language, or in the default language. *)
Request(c) ==
  /\ rendering[c] = Ready /\ count.loads < MaxLoads
  /\ \E name \in HostName, port \in Port, dirs \in SeqOf(Name, 2), lang \in Lang :
       \E h \in FindHost(name, port, dirs) :
         LET got == ParseUri(h, SubSeq(dirs, Len(h.prefix) + 1, Len(dirs)))
             p == got.end.page
             current == \E r \in cache : r.host = h.id /\ r.page = p /\ r.lang \in {lang, 0}
         IN  /\ got.found
             /\ Goto(c, [at |-> IF current THEN "cached" ELSE "select",
                         page |-> p, host |-> h.id, lang |-> lang,
                         out |-> {}, add |-> {}, level |-> Nowhere,
                         todo |-> IF current THEN CachedSelects(lang)
                                  ELSE Selects(p, got.end.style, lang)])
  /\ count' = [count EXCEPT !.loads = @ + 1]
  /\ UNCHANGED <<element, cache, suspect>>

NamesOf(es) == {ElementName(e) : e \in es}

(* One SELECT of a full load: of the names not defined yet an element each. *)
Select(c) ==
  /\ At(c, "select") /\ rendering[c].todo # <<>>
  /\ LET p == rendering[c]
         new == {e \in Rows(element, Head(p.todo)) : ElementName(e) \notin NamesOf(p.out)}
     IN  \E es \in SUBSET new :
           /\ NamesOf(es) = NamesOf(new) /\ Cardinality(es) = Cardinality(NamesOf(es))
           /\ Goto(c, [p EXCEPT !.at = "add", !.level = Head(p.todo).level.from,
                                !.add = es, !.todo = Tail(@)])
  /\ UNCHANGED <<element, cache, count, suspect>>

(* mgd_cache_add for each of them: page elements with style 0.  Nobody asks
   whether the row came in. *)
Add(c) ==
  /\ At(c, "add")
  /\ LET p == rendering[c] IN
     \/ \E e \in p.add :
          /\ \/ /\ cache' = cache \cup {[page |-> p.page, host |-> p.host, lang |-> p.lang, id |-> e,
                                         style |-> IF e \in StyleElement THEN p.level ELSE Nowhere]}
                /\ UNCHANGED suspect
             \/ MayRefuse /\ suspect' = suspect \cup {p.page} /\ UNCHANGED cache
          /\ Goto(c, [p EXCEPT !.add = @ \ {e}, !.out = @ \cup {e}])
     \/ /\ p.add = {}
        /\ Goto(c, [p EXCEPT !.at = "select", !.level = Nowhere])
        /\ UNCHANGED <<cache, suspect>>
  /\ UNCHANGED <<element, count>>

(* One SELECT of a load from the cache: what has the name of a row found now goes. *)
Replaced(out, rows) == {e \in out : ElementName(e) \notin NamesOf(rows)} \cup rows

SelectCached(c) ==
  /\ At(c, "cached") /\ rendering[c].todo # <<>>
  /\ LET rows == CachedRows(element, cache, rendering[c].page, Head(rendering[c].todo))
     IN  Goto(c, [rendering[c] EXCEPT !.out = Replaced(@, rows), !.todo = Tail(@)])
  /\ UNCHANGED <<element, cache, count, suspect>>

Loading(c) == rendering[c] # Ready /\ rendering[c].at \in {"select", "add"}
Cached(p) == \E r \in cache : r.page = p

Finish(c) ==
  /\ rendering[c] # Ready /\ rendering[c].at # "add" /\ rendering[c].todo = <<>>
  /\ Goto(c, Ready)
  /\ UNCHANGED <<element, cache, count, suspect>>

Crash(c) ==
  /\ MayCrash /\ rendering[c] # Ready
  /\ Goto(c, Ready)
  /\ suspect' = IF Loading(c) THEN suspect \cup {rendering[c].page} ELSE suspect
  /\ UNCHANGED <<element, cache, count>>

(* An element is edited: moved, its inheritance switched, deleted or brought
   back, always with a name of its own where it is (ObjectTree).  What is
   being loaded or is in the cache is no longer what a load
   would find. *)
Change ==
  /\ count.changes < MaxChanges /\ count' = [count EXCEPT !.changes = @ + 1]
  /\ \E e \in Element :
       \/ \E at \in (IF e \in PageElement THEN Page ELSE Style) \ {element[e].at} :
            element' = [element EXCEPT ![e].at = at]
       \/ e \in PageElement /\ element' = [element EXCEPT ![e].inherit = ~@]
       \/ element' = [element EXCEPT ![e].live = ~@]
  /\ \A e, f \in Element : e # f /\ element'[e].live /\ element'[f].live
       => <<element'[e].at, ElementName(e)>> # <<element'[f].at, ElementName(f)>>
  /\ suspect' = {p \in Page : \/ Cached(p) \/ p \in suspect
                              \/ \E c \in Client : Loading(c) /\ rendering[c].page = p}
  /\ UNCHANGED <<cache, rendering>>

(* What a touch leaves in doubt: loads that had begun to add their rows, or
   that had seen what was changed since. *)
InDoubt == {p \in Page : \E c \in Client : /\ Loading(c) /\ rendering[c].page = p
                                         /\ (rendering[c].out # {} \/ p \in suspect)}

(* Mutant: only the rows of the page it is called for. *)
TouchPage ==
  /\ cache # {}
  /\ \E p \in Page : cache' = {r \in cache : r.page # p}
  /\ suspect' = InDoubt
  /\ UNCHANGED <<element, rendering, count>>

(* mgd_cache_touch: whatever page it is called for, all rows go, even those of a
   load that will add the rest of its own. *)
Touch ==
  /\ cache # {} /\ cache' = {}
  /\ suspect' = InDoubt
  /\ UNCHANGED <<element, rendering, count>>

PageNext ==
  \/ Change \/ Touch
  \/ \E c \in Client :
       Request(c) \/ Select(c) \/ Add(c) \/ SelectCached(c) \/ Finish(c) \/ Crash(c)

PageSpec == PageInit /\ [][PageNext]_pageVars

-----------------------------------------------------------------------------
(* The reference: the style of a page on a host is the nearest one on the way
   up to the page of the host; of each name the element found first. *)
StyleOn(h, p) ==
  LET way == <<p>> \o Above[p]
      root == CHOOSE i \in 1..Len(way) : way[i] = h.page
      styled == {i \in 1..root : PageStyle(way[i]) # Nowhere}
  IN  IF styled = {} THEN h.style
      ELSE PageStyle(way[CHOOSE i \in styled : \A j \in styled : i <= j])

Chosen(h, p) ==
  LET ls == Levels(p, StyleOn(h, p))
      on(i) == Rows(element, [level |-> ls[i], lang |-> 0])
  IN  UNION {{e \in on(i) : \A j \in 1..(i - 1) : ElementName(e) \notin NamesOf(on(j))} : i \in 1..Len(ls)}

FromCache(p, lang) ==
  LET sels == CachedSelects(lang)
      out[n \in 0..Len(sels)] ==
        IF n = 0 THEN {} ELSE Replaced(out[n - 1], CachedRows(element, cache, p, sels[n]))
  IN  out[Len(sels)]

HostOf(id) == CHOOSE h \in Hosts : h.id = id

(* A load that no change came in between and that could tell the cache of what
   it found collects what the page is made of: of every name the nearest element, the page's own, then those inherited, then
   those of the nearest style and the styles above it. *)
LoadIsComplete ==
  \A c \in Client :
    At(c, "select") /\ rendering[c].todo = <<>> /\ rendering[c].page \notin suspect
      => rendering[c].out = Chosen(HostOf(rendering[c].host), rendering[c].page)

(* The cache of a page serves what a full load would find, in either language,
   except after a change nobody has touched the cache for, a load interrupted
   by a death or a touch or refused a row, while a load is adding rows, and for a page two
   hosts share: mgd_cache_is_current looks for one row only, and the rows are
   joined without their host. *)
CacheServesPage ==
  \A p \in Page \ suspect :
    (\A c \in Client : ~(Loading(c) /\ rendering[c].page = p)) =>
      LET hs == {HostOf(r.host) : r \in {q \in cache : q.page = p}}
      IN  \A h \in hs : hs = {h} =>
            \A lang \in Lang : FromCache(p, lang) = Chosen(h, p)

=============================================================================
