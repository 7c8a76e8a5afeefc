--------------------------- MODULE MCPaginatedQuery ---------------------------
(* Two clients, two walks and one competing cached query, with room for two entries. *)
(* In pages of two, one row ends with the first page, three rows end with a short    *)
(* second page and four rows with an empty third one.                                *)
EXTENDS PaginatedQuery, TLC

CONSTANTS k1, h1, h2, v1, a, b

\* Nothing tells two clients or two handles apart.
Interchangeable == Permutations(Clients) \union Permutations(Handles)
===============================================================================
