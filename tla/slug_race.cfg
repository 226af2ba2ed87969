SPECIFICATION DoorSpec
CONSTANTS
  blog = blog
  Blog = Blog
  dots = dots
  s1 = s1
  none = none
  abs = abs
  rel = rel
  Names <- ThreeNames
  SlugOf <- Slugs
  NoSlug = none
  Repos = {abs, rel}
  Relative = {rel}
  Asked <- SomePairs
  Handlers = {h1}
  Clis = {c1}
  Nobody = Nobody
  Apart = FALSE
  MaxDeaths = 0
INVARIANT SlugsDistinct
\* Ends when every request is answered.
CHECK_DEADLOCK FALSE
