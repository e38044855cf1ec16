----------------------------- MODULE MCPageTable -----------------------------
(* Values of PageTable's constants for TLC.                                 *)
EXTENDS PageTableProperties, TLC

Own(segment, written) ==
  [scheme |-> "https", host |-> "own", segment |-> segment, written |-> written]

(* Three spellings of one address; and addresses with a section, without    *)
(* one and on another host.                                                 *)
Forms == {Own("docs", "slash"), Own("docs", "query"), Own("docs", "canonical")}
Sections == {Own("root", "slash"), Own("assets", "canonical"),
             [Own("root", "canonical") EXCEPT !.host = "other"]}
Named == {Own("docs", "canonical"), Own("blog", "canonical")}
FormsAndSections == {Forms, Sections, Named}

(* What a head offers for the title, and for the description.               *)
Offer(title, description) == [title |-> title, description |-> description]
Heads == {Offer({"tag", "og"}, {"tag"}), Offer({"og"}, {"twitter", "jsonld"}), Offer({"tag"}, {})}
==============================================================================
