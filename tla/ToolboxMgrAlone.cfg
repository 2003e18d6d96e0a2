\* A toolbox that is shown loses its instance, then another one is opened.
CONSTANT Last = 2
SPECIFICATION Spec
PROPERTY OpensAlone
