\* Three pages and page 0: the first page of a stash takes two bytes, so that
\* one of three bytes has two pages and leaves one for the other stash.
CONSTANTS
  Stashes = {a, b}
  Pages = 4
  Next63 = 5
  MaxPuts = 3
SPECIFICATION Spec
INVARIANTS PagesAccounted GetsNext SendsAll
