------------------------------ MODULE WebSearch ------------------------------
(***************************************************************************)
(* Web search of an analysis: two engines, the second of which stands in   *)
(* for the first, alone or joined (services/search_service.py). A result   *)
(* is its address, or NoUrl where sanitize_url rejected it.                *)
(***************************************************************************)
EXTENDS Listing

CONSTANTS
  Urls,        \* addresses
  NoUrl,       \* a result whose address was rejected
  Broken,      \* an engine without a key, late or failing
  MaxResults   \* 5

\* tavily_search without a key, timed out or failed asks DuckDuckGo.
Tavily(tavily, instead) == IF tavily = Broken THEN instead ELSE tavily

\* duckduckgo_search never raises.
DuckDuckGo(answer) == IF answer = Broken THEN <<>> ELSE answer

\* Both lists in turn, every address once; a result without one is always kept.
Interleaved(a, b) ==
  LET places == ((DOMAIN a) \X {1}) \cup ((DOMAIN b) \X {2})
      at(p) == IF p[2] = 1 THEN a[p[1]] ELSE b[p[1]]
      new == {p \in places : at(p) = NoUrl \/ \A q \in places : Earlier(q, p) => at(q) # at(p)}
      order == Listed(new, {p \in Pairs(new) : Earlier(p[1], p[2])})
  IN [k \in DOMAIN order |-> at(order[k])]

\* execute_web_search. The fallback of the first engine and the second engine
\* are two calls.
Search(provider, tavily, instead, duck) ==
  CASE provider = "tavily" -> Tavily(tavily, DuckDuckGo(instead))
    [] provider = "duckduckgo" -> DuckDuckGo(duck)
    [] provider = "both" ->
         First(MaxResults, Interleaved(Tavily(tavily, DuckDuckGo(instead)), DuckDuckGo(duck)))
=============================================================================
