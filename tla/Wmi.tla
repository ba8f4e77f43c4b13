--------------------------------- MODULE Wmi ---------------------------------
(***************************************************************************)
(* The WMI check: wmi.c reads its section line by line as a small program. *)
(* begin opens a page, query and field build a query, go runs it and adds  *)
(* its rows to the page, end sends the page.  Page, query and fields stand *)
(* until a line replaces them: a go repeats the last query, an end sends   *)
(* the last page again.                                                    *)
(*                                                                         *)
(* A line is [key, value].  The value of a field line is how much of a     *)
(* comparison it holds: "none", "op" (no operand) or "full".  What a query *)
(* says of a field is "missing", or whether it would meet the comparison;  *)
(* the comparisons themselves are not modelled, nor is the page's text     *)
(* beyond the colours of its bullets.                                      *)
(***************************************************************************)
EXTENDS Integers, Sequences

CONSTANTS
  WmiSections, \* what the section may be: sequences of lines
  MaxRows      \* bound on the rows a query returns

(* No page and no colour given: the empty string of the code.              *)
None == ""

(* An always line names a colour, as the comment in wmi.c asks of it: an   *)
(* empty one behind an end would take back a colour already given.         *)
ASSUME WmiAssumption ==
  /\ MaxRows \in Nat
  /\ \A sect \in WmiSections :
       /\ sect \in Seq([key : STRING, value : STRING])
       /\ \A k \in 1 .. Len(sect) : sect[k].key = "always" => sect[k].value # None

Values == {"missing", "meets", "fails"}

VARIABLES
  wm_pc,   \* "idle" or "lines"
  wm,      \* the section being read
  i,       \* the line that is next
  page,    \* None before the first begin
  always,  \* None unless given for this page
  color,
  query,   \* a query has been given
  fields,  \* its fields
  report,  \* the bullets on the page
  wm_sent, \* the last page sent, if any: [page, color, bullets]
  alarm,   \* history: since begin a row lacked, or did not meet, what was asked
  fixed    \* history: the colour the page was given since its begin

wm_page == <<page, always, color, report, alarm, fixed>>
wm_vars == <<wm_pc, wm, i, page, always, color, query, fields, report, wm_sent,
             alarm, fixed>>

WmInit ==
  /\ wm_pc = "idle"
  /\ wm = <<>>
  /\ i = 1
  /\ page = None
  /\ always = None
  /\ color = "green"
  /\ query = FALSE
  /\ fields = <<>>
  /\ report = {}
  /\ wm_sent = <<>>
  /\ alarm = FALSE
  /\ fixed = None

-----------------------------------------------------------------------------
(* Everything is local to the call but the fields, which it empties.       *)
WmCall ==
  /\ wm_pc = "idle"
  /\ wm_pc' = "lines"
  /\ wm' \in WmiSections
  /\ i' = 1
  /\ page' = None /\ always' = None /\ color' = "green" /\ report' = {}
  /\ query' = FALSE
  /\ fields' = <<>>
  /\ wm_sent' = <<>>
  /\ alarm' = FALSE
  /\ fixed' = None

At(key) ==
  /\ wm_pc = "lines"
  /\ i <= Len(wm)
  /\ wm[i].key = key
  /\ i' = i + 1
  /\ UNCHANGED <<wm_pc, wm>>

Always ==
  /\ At("always")
  /\ always' = wm[i].value
  /\ fixed' = wm[i].value
  /\ UNCHANGED <<page, color, query, fields, report, wm_sent, alarm>>

(* Mutant: the colour of the last page stays.                              *)
BeginKeepsColor ==
  /\ At("begin")
  /\ page' = wm[i].value
  /\ always' = None
  /\ report' = {}
  /\ alarm' = FALSE
  /\ fixed' = None
  /\ UNCHANGED <<color, query, fields, wm_sent>>

Begin ==
  /\ At("begin")
  /\ page' = wm[i].value
  /\ always' = None
  /\ report' = {}
  /\ color' = "green"
  /\ alarm' = FALSE
  /\ fixed' = None
  /\ UNCHANGED <<query, fields, wm_sent>>

(* An end outside of any page is passed over.                              *)
End ==
  /\ At("end")
  /\ IF page = None THEN UNCHANGED <<color, wm_sent>>
     ELSE /\ color' = IF always # None THEN always ELSE color
          /\ wm_sent' = <<[page |-> page, color |-> color', bullets |-> report]>>
  /\ UNCHANGED <<page, always, query, fields, report, alarm, fixed>>

Query ==
  /\ At("query")
  /\ query' = TRUE
  /\ fields' = <<>>
  /\ UNCHANGED <<wm_page, wm_sent>>

Field ==
  /\ At("field")
  /\ fields' = Append(fields, wm[i].value)
  /\ UNCHANGED <<wm_page, query, wm_sent>>

Text ==
  /\ At("text")
  /\ UNCHANGED <<wm_page, query, fields, wm_sent>>

Bullet(op, value) ==
  IF value = "missing" THEN IF op = "none" THEN "clear" ELSE "red"
  ELSE IF op # "full" THEN "blue"
  ELSE IF value = "meets" THEN "green" ELSE "red"

(* The rows are added, and any red bullet turns the page red.  A query     *)
(* that fails adds nothing and leaves the colour alone.                    *)
Go ==
  /\ At("go")
  /\ \E n \in 0 .. (IF query THEN MaxRows ELSE 0) :
       \E rows \in [(1 .. n) \X DOMAIN fields -> Values] :
         LET cells == DOMAIN rows
             bullets == {Bullet(fields[c[2]], rows[c]) : c \in cells}
         IN /\ report' = report \union bullets
            /\ color' = IF "red" \in bullets THEN "red" ELSE color
            /\ alarm' = (alarm \/ \E c \in cells :
                           \/ rows[c] = "missing" /\ fields[c[2]] # "none"
                           \/ rows[c] = "fails" /\ fields[c[2]] = "full")
  /\ UNCHANGED <<page, always, query, fields, wm_sent, fixed>>

WmReturn ==
  /\ wm_pc = "lines"
  /\ i > Len(wm)
  /\ wm_pc' = "idle"
  /\ wm_sent' = <<>>
  /\ UNCHANGED <<wm, i, wm_page, query, fields>>

WmNext ==
  \/ WmCall \/ Always \/ Begin \/ End \/ Query \/ Field \/ Text \/ Go \/ WmReturn

WmSpec == WmInit /\ [][WmNext]_wm_vars

-----------------------------------------------------------------------------
(* A page that is sent has the colour its section fixed for it, or is red  *)
(* exactly when something asked for was missing or not met in any of its   *)
(* queries, and has a red bullet then; nothing of an earlier page shows on *)
(* it but the query and its fields.                                        *)
PageTellsAlarm ==
  [][\A k \in DOMAIN wm_sent' : wm_sent' # wm_sent =>
       /\ wm_sent'[k].page = page
       /\ wm_sent'[k].color = IF fixed # None THEN fixed
                              ELSE IF alarm THEN "red" ELSE "green"
       /\ alarm <=> "red" \in wm_sent'[k].bullets]_wm_vars
=============================================================================
